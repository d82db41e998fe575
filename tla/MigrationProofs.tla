--------------------------- MODULE MigrationProofs ---------------------------
(***************************************************************************)
(* Theorems about ActorMigration for any declarations, any history of      *)
(* layouts and any chain of reloads.  The actor's state is at all times    *)
(* that of one declaration or the next, never a mixture: an automatic      *)
(* migration that runs again, because its answer was late, finds its work  *)
(* done.  A user hook that runs again need not: what it leaves is typed    *)
(* only until then.                                                        *)
(***************************************************************************)
EXTENDS ActorMigration, FiniteSetTheorems, SequenceTheorems, TLAPS

\* Every declaration has a field.  Without this, keys outlive their declaration:
\* the run migrate_stateless shows it.
Declares == \A s \in Shapes : Names(s) # {}

Layouts == {Layout(s) : s \in Shapes}

\* A state map: every value carries a type and an origin.
IsState(s) ==
  /\ s = [n \in DOMAIN s |-> s[n]]
  /\ \A n \in DOMAIN s : s[n] = [ty |-> s[n].ty, org |-> s[n].org]

Sourced(s) == \A n \in DOMAIN s : s[n].org \in {n, "default", "hook"} \cup Names(old)
Covers(s, d) == Names(d) \subseteq DOMAIN s
Typed(s, d) == \A n \in Names(d) : s[n].ty = TypeOf(d, n)
Fits(s, d) == DOMAIN s = Names(d) /\ (~rerun => Typed(s, d))
Untouched(s) == Fits(s, old) /\ \A n \in DOMAIN s : s[n].org = n
Kept(s) ==
  \A n \in Names(shape) :
    IF n \in Names(old) THEN s[n].org = n
    ELSE s[n].org \in IF verdict = "auto" THEN {"default"} ELSE Names(old) \ Names(shape)

\* The manifest agrees with the classification.
Classified ==
  \/ verdict = "none" /\ attempt = 0 /\ edges = {} /\ fate # "migrated"
  \/ /\ verdict \in {"hook", "auto", "complete"} /\ (verdict = "hook" => edges # {})
     /\ verdict # "hook" => verdict = Verdict(old, shape, FALSE)

Types ==
  /\ old \in Shapes /\ shape \in Shapes
  /\ hist \in Seq(Layouts) /\ hist # <<>> /\ edges \subseteq DOMAIN hist
  /\ attempt \in 0..4 /\ answer \in {"none", "ok", "error"}
  /\ fate \in {"none", "migrated", "restarted"} /\ reloads \in 0..MaxReloads
  /\ alive \in BOOLEAN /\ disturbed \in BOOLEAN /\ rerun \in BOOLEAN /\ Classified

\* The actor answers the last request last.
Queue ==
  /\ msgs \in {<<>>, <<attempt>>} \cup IF attempt \in {2, 4} THEN {<<attempt - 1, attempt>>} ELSE {}
  /\ attempt = 0 => msgs = <<>> /\ answer = "none"
  /\ answer # "none" => msgs = <<>>
  /\ fate = "migrated" => attempt = 0

\* The loader is past the migration.
Through == attempt \in {3, 4} \/ answer = "ok" \/ fate = "migrated"

StateInv ==
  /\ IsState(state) /\ Sourced(state)
  /\ alive => \/ Covers(state, shape)
              \/ Covers(state, old) /\ attempt \in {1, 2} /\ answer # "ok"

PlainInv ==
  edges = {} /\ verdict \in {"auto", "complete"} =>
    (answer = "error" \/ ~alive \/ fate = "restarted" => disturbed)

HookInv ==
  verdict = "hook" /\ alive /\ Through => \A n \in DOMAIN state : state[n].org = "hook"

MigrationInv == Types /\ Queue /\ StateInv /\ PlainInv /\ HookInv

\* With fields to declare, the state is the old one or the new one, and a hook
\* that has yet to answer ran in the second case.
FieldsInv ==
  alive => \/ attempt \in {1, 2} /\ answer # "ok" /\ Untouched(state)
           \/ /\ Fits(state, shape)
              /\ edges = {} /\ (attempt # 0 \/ fate = "migrated") => Kept(state)
              /\ edges # {} /\ attempt \in {1, 2} =>
                   \A n \in DOMAIN state : state[n].org = "hook"

-----------------------------------------------------------------------------
(* Declarations. *)

LEMMA Declared ==
  ASSUME NEW s \in Shapes
  PROVE  /\ IsFiniteSet(DOMAIN s)
         /\ \A i, j \in DOMAIN s : s[i].name = s[j].name => i = j
         /\ \A i \in DOMAIN s : TypeOf(s, s[i].name) = s[i].ty /\ s[i].dflt \in BOOLEAN
<1>1. \A i, j \in DOMAIN s : s[i].name = s[j].name => i = j
  BY ShapesAssumption DEF Distinct
<1> QED  BY <1>1, ShapesAssumption DEF TypeOf

\* A rename takes the only field that is gone to the only new one, of its type.
LEMMA RenameFacts ==
  ASSUME NEW o \in Shapes, NEW n \in Shapes
  PROVE  \A r \in Rename(o, n) :
           /\ r[1] \in Names(o) \ Names(n) /\ r[2] \in Names(n) \ Names(o)
           /\ TypeOf(o, r[1]) = TypeOf(n, r[2])
           /\ \A j \in Added(o, n) : n[j].name = r[2]
           /\ \A q \in Rename(o, n) : q = r
<1> SUFFICES ASSUME NEW r \in Rename(o, n)
             PROVE  /\ r[1] \in Names(o) \ Names(n) /\ r[2] \in Names(n) \ Names(o)
                    /\ TypeOf(o, r[1]) = TypeOf(n, r[2])
                    /\ \A j \in Added(o, n) : n[j].name = r[2]
                    /\ \A q \in Rename(o, n) : q = r
  OBVIOUS
<1>1. PICK i \in Removed(o, n) \cap Added(o, n) :
        /\ r = <<o[i].name, n[i].name>> /\ o[i].ty = n[i].ty
        /\ Cardinality(Removed(o, n)) = 1 /\ Cardinality(Added(o, n)) = 1
  BY DEF Rename
<1>2. /\ i \in DOMAIN o /\ i \in DOMAIN n
      /\ o[i].name \notin Names(n) /\ n[i].name \notin Names(o)
  BY DEF Removed, Added
<1>3. r[1] = o[i].name /\ r[2] = n[i].name
  BY <1>1
<1>4. Removed(o, n) = {i} /\ Added(o, n) = {i}
  <2>1. IsFiniteSet(Removed(o, n)) /\ IsFiniteSet(Added(o, n))
    <3>1. Removed(o, n) \subseteq DOMAIN o /\ Added(o, n) \subseteq DOMAIN n
      BY DEF Removed, Added
    <3> QED  BY <3>1, Declared, FS_Subset
  <2>2. \A S : IsFiniteSet(S) /\ Cardinality(S) = 1 /\ i \in S => S = {i}
    <3> SUFFICES ASSUME NEW S, IsFiniteSet(S), Cardinality(S) = 1, i \in S PROVE S = {i}
      OBVIOUS
    <3>1. \E x : S = {x}
      BY FS_Singleton
    <3> QED  BY <3>1
  <2> QED  BY <1>1, <2>1, <2>2
<1>5. \A q \in Rename(o, n) : q = r
  <2>1. \A q \in Rename(o, n) : \E k \in Removed(o, n) \cap Added(o, n) : q = <<o[k].name, n[k].name>>
    BY DEF Rename
  <2> QED  BY <1>1, <1>4, <2>1
<1>6. TypeOf(o, r[1]) = TypeOf(n, r[2])
  BY <1>1, <1>2, <1>3, Declared
<1> QED  BY <1>2, <1>3, <1>4, <1>5, <1>6 DEF Names


-----------------------------------------------------------------------------
(* apply_code_change, step by step. *)

Live(s) == {r \in Rename(old, shape) : r[1] \in DOMAIN s}

Renamed(s) ==
  [n \in (DOMAIN s \ {r[1] : r \in Live(s)}) \cup {r[2] : r \in Live(s)} |->
     IF \E r \in Live(s) : r[2] = n THEN s[(CHOOSE r \in Live(s) : r[2] = n)[1]] ELSE s[n]]

New == {shape[j].name : j \in Added(old, shape)}

Missing(s) == New \ DOMAIN Renamed(s)

Filled(s) ==
  [n \in DOMAIN Renamed(s) \cup Missing(s) |->
     IF n \in DOMAIN Renamed(s) THEN Renamed(s)[n]
     ELSE [ty |-> TypeOf(shape, n), org |-> "default"]]

Trimmed(s) ==
  IF Names(shape) = {} THEN Filled(s)
  ELSE [n \in DOMAIN Filled(s) \cap Names(shape) |-> Filled(s)[n]]

Supplied(s) == \A j \in DOMAIN shape : shape[j].name \in Missing(s) => shape[j].dflt

LEMMA ChangeSteps ==
  ASSUME NEW s
  PROVE  ApplyCodeChange(s) = IF Supplied(s) THEN [ok |-> TRUE, state |-> Trimmed(s)]
                              ELSE [ok |-> FALSE, state |-> s]
BY Zenon DEF ApplyCodeChange, Supplied, Trimmed, Filled, Missing, New, Renamed, Live

LEMMA NewNames ==
  ASSUME old \in Shapes, shape \in Shapes
  PROVE  New = Names(shape) \ Names(old)
BY DEF New, Added, Names

\* Renaming moves one value at most.
LEMMA RenamedFacts ==
  ASSUME old \in Shapes, shape \in Shapes, NEW s
  PROVE  /\ \A n \in DOMAIN s : (\A r \in Rename(old, shape) : r[1] # n /\ r[2] # n) =>
              n \in DOMAIN Renamed(s) /\ Renamed(s)[n] = s[n]
         /\ \A r \in Live(s) : /\ r[2] \in DOMAIN Renamed(s) /\ Renamed(s)[r[2]] = s[r[1]]
                               /\ r[1] \notin DOMAIN Renamed(s)
         /\ \A n \in DOMAIN Renamed(s) :
              \/ n \in DOMAIN s /\ Renamed(s)[n] = s[n] /\ \A r \in Live(s) : r[2] # n
              \/ \E r \in Live(s) : n = r[2]
         /\ Live(s) = {} => \A n \in DOMAIN s : n \in DOMAIN Renamed(s) /\ Renamed(s)[n] = s[n]
<1>1. \A r \in Rename(old, shape) :
        /\ r[1] \in Names(old) \ Names(shape) /\ r[2] \in Names(shape) \ Names(old)
        /\ \A q \in Rename(old, shape) : q = r
  BY RenameFacts
<1>2. Live(s) \subseteq Rename(old, shape)
  BY DEF Live
<1>3. DOMAIN Renamed(s) = (DOMAIN s \ {r[1] : r \in Live(s)}) \cup {r[2] : r \in Live(s)}
  BY DEF Renamed
<1>4. ASSUME NEW r \in Live(s)
      PROVE  Renamed(s)[r[2]] = s[r[1]]
  <2>1. r[2] \in DOMAIN Renamed(s)
    BY <1>3, <1>4
  <2>2. (CHOOSE q \in Live(s) : q[2] = r[2]) = r
    BY <1>1, <1>2, <1>4
  <2> QED  BY <1>3, <1>4, <2>1, <2>2 DEF Renamed
<1>5. ASSUME NEW n \in DOMAIN Renamed(s), \A r \in Live(s) : r[2] # n
      PROVE  n \in DOMAIN s /\ Renamed(s)[n] = s[n]
  BY <1>3, <1>5 DEF Renamed
<1>6. ASSUME NEW r \in Live(s) PROVE r[1] \notin DOMAIN Renamed(s) /\ r[2] \in DOMAIN Renamed(s)
  <2>1. \A q \in Live(s) : q[2] # r[1]
    BY <1>1, <1>2, <1>6
  <2> QED  BY <1>3, <1>6, <2>1
<1>7. ASSUME NEW n \in DOMAIN s, \A r \in Live(s) : r[1] # n PROVE n \in DOMAIN Renamed(s)
  BY <1>3, <1>7
<1> QED  BY <1>2, <1>4, <1>5, <1>6, <1>7


Default(n) == [ty |-> TypeOf(shape, n), org |-> "default"]

LEMMA TrimmedFacts ==
  ASSUME old \in Shapes, shape \in Shapes, NEW s
  PROVE  /\ Trimmed(s) = [n \in DOMAIN Trimmed(s) |-> Trimmed(s)[n]]
         /\ \A n \in DOMAIN Trimmed(s) :
              \/ n \in DOMAIN Renamed(s) /\ Trimmed(s)[n] = Renamed(s)[n]
              \/ n \in Missing(s) /\ Trimmed(s)[n] = Default(n)
         /\ \A n \in Names(shape) : n \in DOMAIN Trimmed(s) <=> n \in DOMAIN Renamed(s) \cup New
         /\ Names(shape) # {} => DOMAIN Trimmed(s) \subseteq Names(shape)
<1>1. /\ DOMAIN Filled(s) = DOMAIN Renamed(s) \cup Missing(s)
      /\ \A n \in DOMAIN Renamed(s) : Filled(s)[n] = Renamed(s)[n]
      /\ \A n \in Missing(s) : Filled(s)[n] = Default(n)
      /\ Filled(s) = [n \in DOMAIN Filled(s) |-> Filled(s)[n]]
  BY DEF Filled, Missing, Default
<1>2. DOMAIN Filled(s) = DOMAIN Renamed(s) \cup New
  BY <1>1 DEF Missing
<1>3. CASE Names(shape) = {}
  BY <1>1, <1>2, <1>3 DEF Trimmed
<1>4. CASE Names(shape) # {}
  <2>1. Trimmed(s) = [n \in DOMAIN Filled(s) \cap Names(shape) |-> Filled(s)[n]]
    BY <1>4 DEF Trimmed
  <2> QED  BY <1>1, <1>2, <2>1
<1> QED  BY <1>3, <1>4

\* What the change makes of a state: still a state, with values that have a source.
LEMMA ChangeTypes ==
  ASSUME old \in Shapes, shape \in Shapes, NEW s, IsState(s), Sourced(s)
  PROVE  IsState(Trimmed(s)) /\ Sourced(Trimmed(s))
<1>1. ASSUME NEW n \in DOMAIN Trimmed(s)
      PROVE  /\ Trimmed(s)[n] = [ty |-> Trimmed(s)[n].ty, org |-> Trimmed(s)[n].org]
             /\ Trimmed(s)[n].org \in {n, "default", "hook"} \cup Names(old)
  <2>1. CASE n \in Missing(s) /\ Trimmed(s)[n] = Default(n)
    BY <2>1 DEF Default
  <2>2. CASE n \in DOMAIN Renamed(s) /\ Trimmed(s)[n] = Renamed(s)[n]
    <3>1. CASE n \in DOMAIN s /\ Renamed(s)[n] = s[n]
      BY <2>2, <3>1 DEF IsState, Sourced
    <3>2. CASE \E r \in Live(s) : n = r[2]
      <4>1. PICK r \in Live(s) : n = r[2]
        BY <3>2
      <4>2. Renamed(s)[n] = s[r[1]] /\ r[1] \in DOMAIN s /\ r[1] \in Names(old)
        BY <4>1, RenamedFacts, RenameFacts DEF Live
      <4> QED  BY <2>2, <4>2 DEF IsState, Sourced
    <3> QED  BY <2>2, <3>1, <3>2, RenamedFacts
  <2> QED  BY <2>1, <2>2, TrimmedFacts
<1> QED  BY <1>1, TrimmedFacts DEF IsState, Sourced

LEMMA ChangeCovers ==
  ASSUME old \in Shapes, shape \in Shapes, NEW s, Covers(s, old) \/ Covers(s, shape)
  PROVE  Covers(Trimmed(s), shape)
<1> SUFFICES ASSUME NEW n \in Names(shape) PROVE n \in DOMAIN Trimmed(s)
  BY DEF Covers
<1>1. CASE n \notin Names(old)
  BY <1>1, NewNames, TrimmedFacts
<1>2. CASE n \in Names(old)
  <2>1. n \in DOMAIN s
    BY <1>2 DEF Covers
  <2>2. \A r \in Rename(old, shape) : r[1] # n /\ r[2] # n
    BY <1>2, RenameFacts
  <2>3. n \in DOMAIN Renamed(s)
    BY <2>1, <2>2, RenamedFacts
  <2> QED  BY <2>3, TrimmedFacts
<1> QED  BY <1>1, <1>2

\* What an accepted edit without a hook adds.
LEMMA PlainAdds ==
  ASSUME old \in Shapes, shape \in Shapes, verdict = Verdict(old, shape, FALSE),
         verdict \in {"auto", "complete"}
  PROVE  /\ verdict = "auto" => /\ Names(old) \subseteq Names(shape) /\ ~Retyped(old, shape)
                                /\ \A j \in Added(old, shape) : shape[j].dflt
         /\ verdict = "complete" => Holes(old, shape) = {}
         /\ verdict = "auto" => Rename(old, shape) = {}
<1>1. CASE verdict = "auto"
  <2>1. /\ Removed(old, shape) = {} /\ ~Retyped(old, shape)
        /\ \A j \in Added(old, shape) : shape[j].dflt
    BY <1>1 DEF Verdict
  <2>2. Names(old) \subseteq Names(shape)
    BY <2>1 DEF Removed, Names
  <2>3. Rename(old, shape) = {}
    BY <2>1 DEF Rename
  <2> QED  BY <1>1, <2>1, <2>2, <2>3
<1>2. CASE verdict = "complete"
  BY <1>2 DEF Verdict
<1> QED  BY <1>1, <1>2

\* A plain change has all the defaults it needs, also when it runs again.
LEMMA PlainSupplied ==
  ASSUME old \in Shapes, shape \in Shapes, verdict = Verdict(old, shape, FALSE),
         verdict \in {"auto", "complete"},
         NEW s, Covers(s, old) \/ Covers(s, shape)
  PROVE  Supplied(s)
<1> SUFFICES ASSUME NEW j \in DOMAIN shape, shape[j].name \in Missing(s) PROVE shape[j].dflt
  BY DEF Supplied
<1>1. shape[j].name \in Names(shape) \ Names(old) /\ shape[j].name \notin DOMAIN Renamed(s)
  BY NewNames DEF Missing
<1>2. CASE verdict = "auto"
  BY <1>1, <1>2, PlainAdds DEF Added
<1>3. CASE verdict = "complete"
  <2>1. \A i \in DOMAIN old : old[i].name # shape[j].name
    BY <1>1 DEF Names
  <2>2. PICK r \in Rename(old, shape) : r[2] = shape[j].name
    BY <1>3, <2>1, PlainAdds DEF Holes
  <2>3. r \notin Live(s)
    BY <1>1, <2>2, RenamedFacts
  <2>4. r[1] \notin DOMAIN s /\ r[1] \in Names(old)
    BY <2>3, RenameFacts DEF Live
  <2>5. shape[j].name \in DOMAIN s
    BY <1>1, <2>4 DEF Covers
  <2>6. Live(s) = {}
    BY <2>3, RenameFacts DEF Live
  <2> QED  BY <1>1, <2>5, <2>6, RenamedFacts
<1> QED  BY <1>2, <1>3


LEMMA SameTypes ==
  ASSUME old \in Shapes, shape \in Shapes, verdict = Verdict(old, shape, FALSE),
         verdict \in {"auto", "complete"}, NEW n \in Names(old) \cap Names(shape)
  PROVE  TypeOf(old, n) = TypeOf(shape, n)
<1>1. PICK i \in DOMAIN old, j \in DOMAIN shape : old[i].name = n /\ shape[j].name = n
  BY DEF Names
<1>2. TypeOf(old, n) = old[i].ty /\ TypeOf(shape, n) = shape[j].ty
  BY <1>1, Declared
<1>3. CASE verdict = "auto"
  BY <1>1, <1>2, <1>3, PlainAdds DEF Retyped
<1>4. CASE verdict = "complete"
  <2>1. j \notin Holes(old, shape)
    BY <1>4, PlainAdds
  <2>2. \A r \in Rename(old, shape) : r[2] # shape[j].name
    BY <1>1, RenameFacts
  <2>3. PICK k \in DOMAIN old : old[k].name = shape[j].name /\ old[k].ty = shape[j].ty
    BY <2>1, <2>2 DEF Holes
  <2>4. k = i
    BY <1>1, <2>3, Declared
  <2> QED  BY <1>2, <2>3, <2>4
<1> QED  BY <1>3, <1>4

\* The first run of a plain change: every declared field, with its type, and from
\* where the plan says.
LEMMA ChangeFits ==
  ASSUME Declares, old \in Shapes, shape \in Shapes, verdict = Verdict(old, shape, FALSE),
         verdict \in {"auto", "complete"}, NEW s, Untouched(s)
  PROVE  Fits(Trimmed(s), shape) /\ Kept(Trimmed(s))
<1>0. /\ DOMAIN s = Names(old) /\ Covers(s, old) /\ Names(shape) # {}
      /\ \A n \in Names(old) : (~rerun => s[n].ty = TypeOf(old, n)) /\ s[n].org = n
  BY DEF Untouched, Fits, Typed, Covers, Declares
<1>1. DOMAIN Trimmed(s) = Names(shape)
  BY <1>0, ChangeCovers, TrimmedFacts DEF Covers
<1>2. ASSUME NEW n \in Names(shape)
      PROVE  /\ ~rerun => Trimmed(s)[n].ty = TypeOf(shape, n)
             /\ IF n \in Names(old) THEN Trimmed(s)[n].org = n
                ELSE Trimmed(s)[n].org \in IF verdict = "auto" THEN {"default"}
                                           ELSE Names(old) \ Names(shape)
  <2>1. CASE n \in Names(old)
    <3>1. \A r \in Rename(old, shape) : r[1] # n /\ r[2] # n
      BY <2>1, RenameFacts
    <3>2. n \in DOMAIN Renamed(s) /\ Renamed(s)[n] = s[n]
      BY <1>0, <2>1, <3>1, RenamedFacts
    <3>3. Trimmed(s)[n] = s[n]
      BY <1>1, <3>2, TrimmedFacts DEF Missing
    <3>4. TypeOf(old, n) = TypeOf(shape, n)
      BY <2>1, SameTypes
    <3> QED  BY <1>0, <2>1, <3>3, <3>4
  <2>2. CASE n \notin Names(old)
    <3>1. PICK j \in DOMAIN shape : shape[j].name = n
      BY DEF Names
    <3>2. CASE verdict = "auto"
      <4>1. Live(s) = {}
        BY <3>2, PlainAdds DEF Live
      <4>2. n \notin DOMAIN Renamed(s)
        BY <1>0, <2>2, <4>1, RenamedFacts
      <4>3. Trimmed(s)[n] = Default(n)
        BY <1>1, <4>2, TrimmedFacts
      <4>4. Trimmed(s)[n].ty = TypeOf(shape, n) /\ Trimmed(s)[n].org = "default"
        BY <4>3 DEF Default
      <4> QED  BY <2>2, <3>2, <4>4, Zenon
    <3>3. CASE verdict = "complete"
      <4>1. PICK r \in Rename(old, shape) : r[2] = n
        <5>1. \A i \in DOMAIN old : old[i].name # shape[j].name
          BY <2>2, <3>1 DEF Names
        <5> QED  BY <3>1, <3>3, <5>1, PlainAdds DEF Holes
      <4>2. r[1] \in Names(old) \ Names(shape) /\ TypeOf(old, r[1]) = TypeOf(shape, n)
        BY <4>1, RenameFacts
      <4>3. r \in Live(s)
        BY <1>0, <4>2 DEF Live
      <4>4. Trimmed(s)[n] = s[r[1]]
        BY <1>1, <4>1, <4>3, RenamedFacts, TrimmedFacts DEF Missing
      <4>5. (~rerun => Trimmed(s)[n].ty = TypeOf(shape, n)) /\ Trimmed(s)[n].org = r[1]
        BY <1>0, <4>2, <4>4
      <4>6. Trimmed(s)[n].org \in Names(old) \ Names(shape)
        BY <4>2, <4>5
      <4>7. verdict # "auto"
        BY <3>3
      <4> QED  BY <2>2, <4>5, <4>6, <4>7, Zenon
    <3> QED  BY <3>2, <3>3
  <2> QED  BY <2>1, <2>2
<1> QED  BY <1>1, <1>2 DEF Fits, Typed, Kept

\* A change that runs again finds its work done.
LEMMA ChangeAgain ==
  ASSUME Declares, old \in Shapes, shape \in Shapes, NEW s, IsState(s), Fits(s, shape)
  PROVE  Trimmed(s) = s
<1>0. DOMAIN s = Names(shape) /\ Covers(s, shape) /\ Names(shape) # {}
  BY DEF Fits, Covers, Declares
<1>1. DOMAIN Trimmed(s) = Names(shape)
  BY <1>0, ChangeCovers, TrimmedFacts DEF Covers
<1>2. Live(s) = {}
  BY <1>0, RenameFacts DEF Live
<1>3. \A n \in Names(shape) : n \in DOMAIN Renamed(s) /\ Renamed(s)[n] = s[n]
  BY <1>0, <1>2, RenamedFacts
<1>4. \A n \in Names(shape) : Trimmed(s)[n] = s[n]
  BY <1>1, <1>3, TrimmedFacts DEF Missing
<1>5. Trimmed(s) = [n \in DOMAIN Trimmed(s) |-> Trimmed(s)[n]]
  BY TrimmedFacts
<1>6. s = [n \in DOMAIN s |-> s[n]]
  BY DEF IsState
<1> QED  BY <1>0, <1>1, <1>4, <1>5, <1>6


-----------------------------------------------------------------------------
(* The invariant holds of every step. *)

\* What a change_code request may do, under a hook or without one.
LEMMA ChangeEffect ==
  ASSUME MigrationInv, NEW r \in Change(state)
  PROVE  /\ r.ok \in BOOLEAN /\ IsState(r.state) /\ Sourced(r.state)
         /\ ~r.ok => r.state = state
         /\ r.ok /\ (Covers(state, old) \/ Covers(state, shape)) => Covers(r.state, shape)
         /\ edges # {} /\ r.ok => \A n \in DOMAIN r.state : r.state[n].org = "hook"
         /\ edges # {} /\ r.ok => DOMAIN r.state = Names(shape)
         /\ edges # {} /\ r.ok /\ Typed(state, old) => Typed(r.state, shape)
         /\ edges = {} /\ r.ok => r.state = Trimmed(state)
         /\ edges = {} /\ verdict \in {"auto", "complete"} /\
              (Covers(state, old) \/ Covers(state, shape)) => r.ok
<1>0. /\ old \in Shapes /\ shape \in Shapes /\ Classified /\ IsState(state) /\ Sourced(state)
  BY DEF MigrationInv, Types, StateInv
<1>1. CASE edges # {}
  <2>0. PICK t :
          /\ \A n \in Names(shape) : t[n] \in HookTypes(state, n)
          /\ \/ r = [ok |-> FALSE, state |-> state]
             \/ r = [ok |-> TRUE,
                     state |-> [n \in Names(shape) |-> [ty |-> t[n], org |-> "hook"]]]
    <3> DEFINE T == {u \in [Names(shape) -> UNION {HookTypes(state, n) : n \in Names(shape)}] :
                       \A n \in Names(shape) : u[n] \in HookTypes(state, n)}
               F(u) == [ok |-> TRUE,
                        state |-> [n \in Names(shape) |-> [ty |-> u[n], org |-> "hook"]]]
    <3>1. r \in HookOutcomes(state)
      BY <1>1 DEF Change
    <3>2. r = [ok |-> FALSE, state |-> state] \/ \E u \in T : r = F(u)
      BY <3>1 DEF HookOutcomes
    <3>3. CASE r = [ok |-> FALSE, state |-> state]
      <4> DEFINE u == [n \in Names(shape) |-> TypeOf(shape, n)]
      <4>1. \A n \in Names(shape) : u[n] \in HookTypes(state, n)
        BY DEF HookTypes
      <4> QED  BY <3>3, <4>1
    <3>4. CASE \E u \in T : r = F(u)
      BY <3>4
    <3> QED  BY <3>2, <3>3, <3>4
  <2> DEFINE hooked == [n \in Names(shape) |-> [ty |-> t[n], org |-> "hook"]]
  <2>1. r = [ok |-> FALSE, state |-> state] \/ r = [ok |-> TRUE, state |-> hooked]
    BY <2>0
  <2>5. ASSUME Typed(state, old) PROVE Typed(hooked, shape)
    BY <2>0, <2>5 DEF Typed, HookTypes
  <2>2. IsState(hooked) /\ Sourced(hooked) /\ DOMAIN hooked = Names(shape) /\ Covers(hooked, shape)
        /\ \A n \in DOMAIN hooked : hooked[n].org = "hook"
    BY DEF IsState, Sourced, Covers
  <2> HIDE DEF hooked
  <2>3. CASE r = [ok |-> FALSE, state |-> state]
    <3>1. r.ok = FALSE /\ r.state = state
      BY <2>3
    <3> QED  BY <1>0, <1>1, <3>1
  <2>4. CASE r = [ok |-> TRUE, state |-> hooked]
    <3>1. r.ok = TRUE /\ r.state = hooked
      BY <2>4
    <3> QED  BY <1>0, <1>1, <2>2, <2>5, <3>1
  <2> QED  BY <2>1, <2>3, <2>4
<1>2. CASE edges = {}
  <2>1. r = ApplyCodeChange(state)
    BY <1>2 DEF Change
  <2>2. CASE Supplied(state)
    <3>1. r.ok = TRUE /\ r.state = Trimmed(state)
      BY <2>1, <2>2, ChangeSteps
    <3> QED  BY <1>0, <1>2, <3>1, ChangeTypes, ChangeCovers
  <2>3. CASE ~Supplied(state)
    <3>1. r.ok = FALSE /\ r.state = state
      BY <2>1, <2>3, ChangeSteps
    <3>2. verdict \in {"auto", "complete"} => verdict = Verdict(old, shape, FALSE)
      BY <1>0 DEF Classified
    <3>3. ~(verdict \in {"auto", "complete"} /\ (Covers(state, old) \/ Covers(state, shape)))
      BY <1>0, <2>3, <3>2, PlainSupplied
    <3> QED  BY <1>0, <1>2, <3>1, <3>3
  <2> QED  BY <2>2, <2>3
<1> QED  BY <1>1, <1>2

LEMMA FreshState ==
  ASSUME NEW s
  PROVE  /\ IsState(Fresh(s)) /\ Sourced(Fresh(s)) /\ Covers(Fresh(s), s) /\ Fits(Fresh(s), s)
         /\ Sourced(Fresh(s))' /\ Typed(Fresh(s), s)
BY DEF Fresh, IsState, Sourced, Covers, Fits, Typed

LEMMA InitMigration ==
  ASSUME Init
  PROVE  MigrationInv
<1>0. /\ shape \in Shapes /\ old = shape /\ edges = {} /\ verdict = "none" /\ alive = TRUE
      /\ msgs = <<>> /\ attempt = 0 /\ answer = "none" /\ fate = "none"
      /\ disturbed = FALSE /\ rerun = FALSE /\ reloads = 0 /\ hist = <<Layout(shape)>> /\ state = Fresh(shape)
  BY DEF Init
<1>1. Types
  <2>1. hist \in Seq(Layouts) /\ hist # <<>>
    BY <1>0 DEF Layouts
  <2>2. reloads \in 0..MaxReloads /\ attempt \in 0..4
    BY <1>0, ShapesAssumption
  <2>3. Classified
    BY <1>0 DEF Classified
  <2> QED  BY <1>0, <2>1, <2>2, <2>3 DEF Types
<1>2. Queue
  BY <1>0 DEF Queue
<1>3. StateInv
  BY <1>0, FreshState DEF StateInv
<1>4. PlainInv /\ HookInv
  BY <1>0 DEF PlainInv, HookInv
<1> QED  BY <1>1, <1>2, <1>3, <1>4 DEF MigrationInv


-----------------------------------------------------------------------------
LEMMA VersionsTyped ==
  ASSUME Types, NEW n \in Shapes
  PROVE  /\ Versions(hist, n) \in Seq(Layouts) /\ Versions(hist, n) # <<>>
         /\ DOMAIN hist \subseteq DOMAIN Versions(hist, n)
<1>1. hist \in Seq(Layouts) /\ hist # <<>> /\ Layout(n) \in Layouts
  BY DEF Types, Layouts
<1>2. Append(hist, Layout(n)) \in Seq(Layouts) /\ Len(Append(hist, Layout(n))) = Len(hist) + 1
  BY <1>1
<1>3. DOMAIN hist = 1..Len(hist) /\ Len(hist) \in Nat
      /\ DOMAIN Append(hist, Layout(n)) = 1..(Len(hist) + 1)
  BY <1>1, <1>2
<1>4. Append(hist, Layout(n)) # <<>>
  BY <1>1, <1>2, <1>3
<1> QED  BY <1>1, <1>2, <1>3, <1>4 DEF Versions

LEMMA VerdictPlain ==
  ASSUME NEW o, NEW n
  PROVE  Verdict(o, n, FALSE) \in {"holes", "auto", "complete"}
BY DEF Verdict

\* Between two reloads handlers have rewritten every field.
LEMMA Rewritten ==
  ASSUME IsState(state), NEW n, NEW e, Plan(n, e)
  PROVE  /\ DOMAIN state' = DOMAIN state /\ IsState(state')
         /\ \A m \in DOMAIN state : state'[m].org = m /\ state'[m].ty = state[m].ty
<1>1. state' = [m \in DOMAIN state |-> [state[m] EXCEPT !.org = m]]
  BY DEF Plan
<1>2. \A m \in DOMAIN state : state[m] = [ty |-> state[m].ty, org |-> state[m].org]
  BY DEF IsState
<1>3. ASSUME NEW m \in DOMAIN state
      PROVE  [state[m] EXCEPT !.org = m] = [ty |-> state[m].ty, org |-> m]
  <2> DEFINE a == state[m].ty
             b == state[m].org
  <2>1. state[m] = [ty |-> a, org |-> b]
    BY <1>2
  <2> HIDE DEF a, b
  <2>2. [state[m] EXCEPT !.org = m] = [ty |-> a, org |-> m]
    BY <2>1
  <2> QED  BY <2>2 DEF a
<1>4. state' = [m \in DOMAIN state |-> [ty |-> state[m].ty, org |-> m]]
  BY <1>1, <1>3
<1> QED  BY <1>4 DEF IsState

LEMMA PlanKeepsMigration ==
  ASSUME MigrationInv, NEW n \in Shapes, NEW e \in EdgeSets, Plan(n, e)
  PROVE  MigrationInv'
<1>0. /\ Types /\ Queue /\ StateInv
      /\ attempt = 0 /\ alive = TRUE /\ reloads < MaxReloads
      /\ verdict' = Verdict(shape, n, Len(hist) \in e) /\ verdict' # "holes"
      /\ old' = shape /\ shape' = n /\ edges' = e /\ hist' = Versions(hist, n)
      /\ attempt' = 1 /\ msgs' = <<1>> /\ answer' = "none" /\ fate' = "none"
      /\ disturbed' = FALSE /\ reloads' = reloads + 1 /\ alive' = TRUE /\ rerun' = rerun
  <2>1. alive \in BOOLEAN
    BY DEF MigrationInv, Types
  <2> QED  BY <2>1 DEF MigrationInv, Plan
<1>1. Types'
  <2>1. /\ hist' \in Seq(Layouts) /\ hist' # <<>> /\ DOMAIN hist \subseteq DOMAIN hist'
    BY <1>0, VersionsTyped
  <2>2. e \subseteq DOMAIN hist
    BY <1>0 DEF EdgeSets, Types
  <2>3. reloads' \in 0..MaxReloads
    BY <1>0, ShapesAssumption DEF Types
  <2>4. Classified'
    <3>1. /\ verdict' \in {"hook", "auto", "complete"}
          /\ verdict' = "hook" => Len(hist) \in e
          /\ verdict' # "hook" => verdict' = Verdict(shape, n, FALSE)
      <4>1. CASE Len(hist) \in e
        <5>1. verdict' = "hook"
          BY <1>0, <4>1 DEF Verdict
        <5> QED  BY <4>1, <5>1
      <4>2. CASE Len(hist) \notin e
        <5>1. verdict' = Verdict(shape, n, FALSE)
          BY <1>0, <4>2 DEF Verdict
        <5> QED  BY <1>0, <5>1, VerdictPlain
      <4> QED  BY <4>1, <4>2
    <3>2. verdict' = "hook" => e # {}
      BY <3>1
    <3> QED  BY <1>0, <3>1, <3>2 DEF Classified
  <2>5. old' \in Shapes /\ shape' \in Shapes /\ edges' \subseteq DOMAIN hist'
    BY <1>0, <2>1, <2>2 DEF Types
  <2>6. /\ attempt' \in 0..4 /\ answer' \in {"none", "ok", "error"}
        /\ fate' \in {"none", "migrated", "restarted"}
    BY <1>0
  <2>7. alive' \in BOOLEAN /\ disturbed' \in BOOLEAN /\ rerun' \in BOOLEAN
    <3>1. rerun \in BOOLEAN
      BY <1>0 DEF Types
    <3> QED  BY <1>0, <3>1, Zenon
  <2> QED  BY <2>1, <2>3, <2>4, <2>5, <2>6, <2>7 DEF Types
<1>2. Queue'
  BY <1>0 DEF Queue
<1>3. StateInv'
  <2>1. /\ DOMAIN state' = DOMAIN state /\ IsState(state')
        /\ \A m \in DOMAIN state : state'[m].org = m
    BY <1>0, Rewritten DEF StateInv
  <2>2. Covers(state', shape)
    BY <1>0, <2>1 DEF StateInv, Covers
  <2> QED  BY <1>0, <2>1, <2>2 DEF StateInv, Sourced, IsState, Covers
<1>4. PlainInv' /\ HookInv'
  BY <1>0 DEF PlainInv, HookInv, Through
<1> QED  BY <1>1, <1>2, <1>3, <1>4 DEF MigrationInv

\* A request in the mailbox: the loader still waits for the last one.
LEMMA Waiting ==
  ASSUME Types, Queue, msgs # <<>>
  PROVE  /\ attempt # 0 /\ answer = "none" /\ fate # "migrated"
         /\ \/ msgs = <<attempt>> /\ Head(msgs) = attempt /\ Tail(msgs) = <<>>
            \/ /\ attempt \in {2, 4} /\ Head(msgs) = attempt - 1 /\ Tail(msgs) = <<attempt>>
         /\ Head(msgs) \in {1, 2} <=> attempt \in {1, 2}
         /\ Head(msgs) \in 1..4
<1>1. msgs = <<attempt>> \/ (attempt \in {2, 4} /\ msgs = <<attempt - 1, attempt>>)
  BY DEF Queue
<1>2. attempt # 0 /\ attempt \in 0..4
  BY DEF Queue, Types
<1>3. CASE msgs = <<attempt>>
  BY <1>2, <1>3 DEF Queue
<1>4. CASE attempt \in {2, 4} /\ msgs = <<attempt - 1, attempt>>
  <2>1. Head(msgs) = attempt - 1 /\ Tail(msgs) = <<attempt>>
    BY <1>4
  <2> QED  BY <1>2, <1>4, <2>1 DEF Queue
<1> QED  BY <1>1, <1>3, <1>4


\* What handling a request amounts to.
LEMMA Handled ==
  ASSUME MigrationInv, Handle
  PROVE  /\ alive /\ alive' = alive /\ old' = old /\ shape' = shape /\ hist' = hist
         /\ edges' = edges /\ verdict' = verdict /\ attempt' = attempt /\ fate' = fate
         /\ reloads' = reloads /\ disturbed' \in BOOLEAN /\ (disturbed => disturbed')
         /\ rerun' \in BOOLEAN /\ (rerun => rerun')
         /\ \/ msgs' = <<>> /\ answer' \in {"ok", "error"}
            \/ msgs' = <<attempt>> /\ answer' = "none" /\ attempt \in {2, 4}
         /\ attempt \in {3, 4} => /\ state' = state
                                  /\ answer' = "error" => disturbed'
         /\ attempt \in {1, 2} =>
              \E r \in Change(state) : /\ state' = r.state
                                       /\ answer' = "ok" => r.ok
                                       /\ answer' = "error" => ~r.ok
                                       /\ r.ok /\ edges # {} /\ Migrated(state) => rerun'
<1>0. Types /\ Queue /\ msgs # <<>>
  BY DEF MigrationInv, Handle
<1>1. /\ attempt # 0 /\ answer = "none" /\ attempt \in {1, 2, 3, 4}
      /\ \/ msgs = <<attempt>> /\ Head(msgs) = attempt /\ Tail(msgs) = <<>>
         \/ attempt \in {2, 4} /\ Head(msgs) = attempt - 1 /\ Tail(msgs) = <<attempt>>
      /\ (Head(msgs) \in {1, 2} <=> attempt \in {1, 2}) /\ Head(msgs) \in 1..4
  <2>1. attempt \in 0..4
    BY <1>0 DEF Types
  <2> QED  BY <1>0, <2>1, Waiting
<1>2. /\ alive /\ alive' = alive /\ old' = old /\ shape' = shape /\ hist' = hist
      /\ edges' = edges /\ verdict' = verdict /\ attempt' = attempt /\ fate' = fate
      /\ reloads' = reloads /\ msgs' = Tail(msgs)
  BY DEF Handle
<1>3. PICK r \in IF Head(msgs) \in {1, 2} THEN Change(state)
                 ELSE {[ok |-> b, state |-> state] : b \in BOOLEAN} :
        /\ state' = r.state
        /\ answer' = IF Head(msgs) = attempt THEN IF r.ok THEN "ok" ELSE "error" ELSE answer
        /\ disturbed' = (disturbed \/ (~r.ok /\ (Head(msgs) > 2 \/ EdgeFound)))
        /\ rerun' = (rerun \/ (r.ok /\ Head(msgs) < 3 /\ edges # {} /\ Migrated(state)))
  BY DEF Handle
<1>4. disturbed' \in BOOLEAN /\ (disturbed => disturbed') /\ rerun' \in BOOLEAN /\ (rerun => rerun')
  <2>1. disturbed' = TRUE \/ disturbed' = FALSE
    BY <1>3
  <2>2. rerun' = TRUE \/ rerun' = FALSE
    BY <1>3
  <2> QED  BY <1>3, <2>1, <2>2
<1>5. /\ \/ msgs' = <<>> /\ answer' \in {"ok", "error"}
         \/ msgs' = <<attempt>> /\ answer' = "none" /\ attempt \in {2, 4}
      /\ answer' = "ok" => r.ok
      /\ answer' = "error" => ~r.ok
  <2>1. CASE msgs = <<attempt>> /\ Head(msgs) = attempt /\ Tail(msgs) = <<>>
    <3>1. answer' = IF r.ok THEN "ok" ELSE "error"
      BY <1>3, <2>1
    <3> QED  BY <1>2, <2>1, <3>1
  <2>2. CASE attempt \in {2, 4} /\ Head(msgs) = attempt - 1 /\ Tail(msgs) = <<attempt>>
    <3>1. Head(msgs) # attempt
      BY <2>2
    <3>2. answer' = "none"
      BY <1>1, <1>3, <3>1
    <3> QED  BY <1>2, <2>2, <3>2
  <2> QED  BY <1>1, <2>1, <2>2
<1>6. CASE attempt \in {3, 4}
  <2>1. Head(msgs) \notin {1, 2} /\ Head(msgs) > 2 /\ attempt \notin {1, 2}
    BY <1>1, <1>6
  <2>2. r \in {[ok |-> b, state |-> state] : b \in BOOLEAN}
    BY <1>3, <2>1
  <2>3. r.state = state
    BY <2>2
  <2>4. answer' = "error" => disturbed'
    BY <1>3, <1>5, <2>1
  <2> QED  BY <1>2, <1>3, <1>4, <1>5, <2>1, <2>3, <2>4
<1>7. CASE attempt \in {1, 2}
  <2>1. r \in Change(state) /\ attempt \notin {3, 4}
    BY <1>1, <1>3, <1>7
  <2>2. Head(msgs) < 3
    BY <1>1, <1>7
  <2>3. r.ok /\ edges # {} /\ Migrated(state) => rerun'
    BY <1>3, <2>2
  <2> QED  BY <1>2, <1>3, <1>4, <1>5, <2>1, <2>3
<1> QED  BY <1>1, <1>6, <1>7

LEMMA HandleKeepsMigration ==
  ASSUME MigrationInv, Handle
  PROVE  MigrationInv'
<1>0. Types /\ Queue /\ StateInv /\ PlainInv /\ HookInv
  BY DEF MigrationInv
<1>1. /\ alive /\ alive' = alive /\ old' = old /\ shape' = shape /\ hist' = hist
      /\ edges' = edges /\ verdict' = verdict /\ attempt' = attempt /\ fate' = fate
      /\ reloads' = reloads
  BY Handled
<1>2. disturbed' \in BOOLEAN /\ (disturbed => disturbed') /\ rerun' \in BOOLEAN
  BY Handled
<1>3. \/ msgs' = <<>> /\ answer' \in {"ok", "error"}
      \/ msgs' = <<attempt>> /\ answer' = "none" /\ attempt \in {2, 4}
  BY Handled
<1>4. attempt # 0 /\ answer = "none" /\ fate # "migrated" /\ attempt \in {1, 2, 3, 4}
  <2>1. msgs # <<>> /\ attempt \in 0..4
    BY <1>0 DEF Handle, Types
  <2> QED  BY <1>0, <2>1, Waiting
<1>5. Types'
  <2>1. Classified' <=> Classified
    BY <1>1 DEF Classified
  <2> QED  BY <1>0, <1>1, <1>2, <1>3, <2>1 DEF Types
<1>6. Queue'
  BY <1>0, <1>1, <1>3, <1>4 DEF Queue
<1>7. CASE attempt \in {3, 4}
  <2>1. state' = state /\ (answer' = "error" => disturbed') /\ attempt \notin {1, 2}
    BY <1>7, Handled
  <2>2. StateInv'
    BY <1>0, <1>1, <2>1 DEF StateInv, IsState, Sourced, Covers
  <2>3. PlainInv'
    BY <1>0, <1>1, <1>2, <2>1 DEF PlainInv
  <2>4. HookInv'
    BY <1>0, <1>1, <1>7, <2>1 DEF HookInv, Through
  <2> QED  BY <1>5, <1>6, <2>2, <2>3, <2>4 DEF MigrationInv
<1>8. CASE attempt \in {1, 2}
  <2>1. PICK r \in Change(state) : /\ state' = r.state
                                   /\ answer' = "ok" => r.ok
                                   /\ answer' = "error" => ~r.ok
    BY <1>8, Handled
  <2>2. Covers(state, old) \/ Covers(state, shape)
    BY <1>0, <1>1 DEF StateInv
  <2>3. StateInv'
    <3>1. IsState(r.state) /\ Sourced(r.state) /\ r.ok \in BOOLEAN
      BY ChangeEffect
    <3>2. /\ IsState(state')
          /\ \A n \in DOMAIN state' : state'[n].org \in {n, "default", "hook"} \cup Names(old)
      BY <2>1, <3>1 DEF Sourced
    <3>3. CASE r.ok
      <4>1. Covers(state', shape)
        BY <2>1, <2>2, <3>3, ChangeEffect
      <4> QED  BY <1>1, <3>2, <4>1 DEF StateInv, IsState, Sourced, Covers
    <3>4. CASE ~r.ok
      <4>1. state' = state /\ answer' # "ok"
        BY <2>1, <3>4, ChangeEffect
      <4> QED  BY <1>0, <1>1, <1>8, <3>2, <4>1 DEF StateInv, IsState, Sourced, Covers
    <3> QED  BY <3>3, <3>4
  <2>4. PlainInv'
    <3> SUFFICES ASSUME edges = {}, verdict \in {"auto", "complete"}
                 PROVE  answer' = "error" \/ ~alive \/ fate = "restarted" => disturbed'
      BY <1>1 DEF PlainInv
    <3>1. r.ok
      BY <2>2, ChangeEffect
    <3> QED  BY <1>0, <1>1, <1>2, <2>1, <3>1 DEF PlainInv
  <2>5. HookInv'
    <3> SUFFICES ASSUME verdict = "hook", answer' = "ok"
                 PROVE  \A n \in DOMAIN state' : state'[n].org = "hook"
      BY <1>1, <1>4, <1>8 DEF HookInv, Through
    <3>1. edges # {}
      BY <1>0 DEF Types, Classified
    <3>2. r.ok
      BY <2>1
    <3> QED  BY <2>1, <3>1, <3>2, ChangeEffect
  <2> QED  BY <1>5, <1>6, <2>3, <2>4, <2>5 DEF MigrationInv
<1> QED  BY <1>4, <1>7, <1>8


\* Steps that change neither the declarations nor the actor's state.
LEMMA SameState ==
  ASSUME StateInv, UNCHANGED <<old, shape, state>>,
         alive' => alive,
         Covers(state, old) /\ attempt \in {1, 2} /\ answer # "ok" /\ alive' =>
           attempt' \in {1, 2} /\ answer' # "ok"
  PROVE  StateInv'
BY DEF StateInv, IsState, Sourced, Covers

LEMMA SameClass ==
  ASSUME Classified, attempt # 0, UNCHANGED <<old, shape, edges, verdict>>
  PROVE  Classified'
<1>1. /\ verdict \in {"hook", "auto", "complete"} /\ (verdict = "hook" => edges # {})
      /\ verdict # "hook" => verdict = Verdict(old, shape, FALSE)
  BY DEF Classified
<1>2. (Verdict(old, shape, FALSE))' = Verdict(old, shape, FALSE)
  BY DEF Verdict, Removed, Added, Retyped, Holes, Rename, Names
<1> QED  BY <1>1, <1>2 DEF Classified

LEMMA CallOkKeepsMigration ==
  ASSUME MigrationInv, CallOk
  PROVE  MigrationInv'
<1>0. /\ Types /\ Queue /\ StateInv /\ PlainInv /\ HookInv /\ answer = "ok"
      /\ UNCHANGED <<old, shape, hist, edges, verdict, state, alive, disturbed, rerun, reloads>>
  BY DEF MigrationInv, CallOk
<1>1. msgs = <<>> /\ attempt \in {1, 2, 3, 4} /\ fate # "migrated"
  BY <1>0 DEF Queue, Types
<1>2. /\ answer' = "none"
      /\ \/ attempt' = 3 /\ msgs' = <<3>> /\ fate' = fate
         \/ attempt' = 0 /\ msgs' = <<>> /\ fate' = "migrated"
  <2>1. CASE attempt \in {1, 2}
    <3>1. attempt' = 3 /\ msgs' = Append(msgs, 3) /\ answer' = "none" /\ fate' = fate
      BY <1>0, <2>1 DEF CallOk, Call
    <3> QED  BY <1>1, <3>1
  <2>2. CASE attempt \notin {1, 2}
    BY <1>1, <2>2 DEF CallOk
  <2> QED  BY <2>1, <2>2
<1>3. Types'
  <2>1. Classified'
    BY <1>0, <1>1, SameClass DEF Types
  <2> QED  BY <1>0, <1>2, <2>1 DEF Types
<1>4. Queue'
  BY <1>1, <1>2 DEF Queue
<1>5. StateInv'
  BY <1>0, SameState
<1>6. PlainInv'
  BY <1>0, <1>2 DEF PlainInv
<1>7. HookInv'
  BY <1>0 DEF HookInv, Through
<1> QED  BY <1>3, <1>4, <1>5, <1>6, <1>7 DEF MigrationInv

\* A failed call is repeated, or the actor is killed.
LEMMA Failed ==
  ASSUME MigrationInv, CallFailed
  PROVE  /\ attempt \in {1, 2, 3, 4} /\ answer # "ok" /\ answer' = "none" /\ fate # "migrated"
         /\ UNCHANGED <<old, shape, hist, edges, verdict, state, rerun, reloads>>
         /\ disturbed' \in BOOLEAN /\ (disturbed => disturbed') /\ (answer = "none" => disturbed')
         /\ \/ /\ attempt \in {1, 3} /\ alive /\ alive' /\ alive' = alive /\ attempt' = attempt + 1
               /\ msgs' = Append(msgs, attempt + 1) /\ fate' = fate
            \/ ~alive' /\ alive' = FALSE /\ msgs' = <<>> /\ attempt' = 0 /\ fate' = "restarted"
<1>0. /\ Types /\ Queue /\ attempt # 0 /\ answer # "ok"
      /\ disturbed' = (disturbed \/ answer = "none")
      /\ UNCHANGED <<old, shape, hist, edges, verdict, state, rerun, reloads>>
  BY DEF MigrationInv, CallFailed
<1>1. attempt \in {1, 2, 3, 4} /\ fate # "migrated"
  BY <1>0 DEF Types, Queue
<1>2. disturbed' \in BOOLEAN /\ (disturbed => disturbed') /\ (answer = "none" => disturbed')
  <2>1. disturbed' = TRUE \/ disturbed' = FALSE
    BY <1>0
  <2> QED  BY <1>0, <2>1
<1>3. CASE attempt \in {1, 3} /\ alive
  <2>1. /\ attempt' = attempt + 1 /\ msgs' = Append(msgs, attempt + 1) /\ answer' = "none"
        /\ alive' = alive /\ fate' = fate
    BY <1>3 DEF CallFailed, Call
  <2> QED  BY <1>0, <1>1, <1>2, <1>3, <2>1
<1>4. CASE ~(attempt \in {1, 3} /\ alive)
  <2>1. alive' = FALSE /\ msgs' = <<>> /\ attempt' = 0 /\ answer' = "none" /\ fate' = "restarted"
    BY <1>4 DEF CallFailed
  <2> QED  BY <1>0, <1>1, <1>2, <2>1
<1> QED  BY <1>3, <1>4

LEMMA AppendOne ==
  ASSUME NEW a \in Nat, NEW b \in Nat
  PROVE  Append(<<a>>, b) = <<a, b>>
<1> DEFINE x == Append(<<a>>, b)
           y == <<a, b>>
<1>1. x \in Seq(Nat) /\ y \in Seq(Nat) /\ Len(x) = 2 /\ Len(y) = 2
  OBVIOUS
<1>2. x[1] = a /\ x[2] = b /\ y[1] = a /\ y[2] = b
  OBVIOUS
<1> HIDE DEF x, y
<1>3. \A i \in 1..2 : x[i] = y[i]
  BY <1>2
<1>4. x = y
  BY <1>1, <1>3, SeqEqual
<1> QED  BY <1>4 DEF x, y

LEMMA CallFailedKeepsMigration ==
  ASSUME MigrationInv, CallFailed
  PROVE  MigrationInv'
<1>0. Types /\ Queue /\ StateInv /\ PlainInv /\ HookInv
  BY DEF MigrationInv
<1>1. /\ attempt \in {1, 2, 3, 4} /\ answer # "ok" /\ answer' = "none" /\ fate # "migrated"
      /\ UNCHANGED <<old, shape, hist, edges, verdict, state, rerun, reloads>>
  BY Failed
<1>2. disturbed' \in BOOLEAN /\ (disturbed => disturbed') /\ (answer = "none" => disturbed')
  BY Failed
<1>3. \/ /\ attempt \in {1, 3} /\ alive /\ alive' /\ alive' = alive /\ attempt' = attempt + 1
         /\ msgs' = Append(msgs, attempt + 1) /\ fate' = fate
      \/ ~alive' /\ alive' = FALSE /\ msgs' = <<>> /\ attempt' = 0 /\ fate' = "restarted"
  BY Failed
<1>4. CASE /\ attempt \in {1, 3} /\ alive /\ alive' /\ alive' = alive /\ attempt' = attempt + 1
           /\ msgs' = Append(msgs, attempt + 1) /\ fate' = fate
  <2>1. attempt' \in {2, 4} /\ attempt = attempt' - 1
    BY <1>4
  <2>2. Types'
    <3>1. Classified'
      BY <1>0, <1>1, SameClass DEF Types
    <3> QED  BY <1>0, <1>1, <1>2, <1>4, <2>1, <3>1 DEF Types
  <2>3. Queue'
    <3>1. msgs = <<>> \/ msgs = <<attempt>>
      BY <1>0, <1>4 DEF Queue
    <3>2. msgs' = <<attempt'>> \/ msgs' = <<attempt' - 1, attempt'>>
      <4>1. attempt + 1 = attempt'
        BY <1>4
      <4>2. msgs' = Append(msgs, attempt')
        BY <1>4, <4>1
      <4>3. CASE msgs = <<>>
        BY <4>2, <4>3
      <4>4. CASE msgs = <<attempt>>
        <5>1. Append(<<attempt>>, attempt') = <<attempt, attempt'>>
          BY <1>1, <2>1, AppendOne
        <5>2. msgs' = <<attempt, attempt'>>
          BY <4>2, <4>4, <5>1, Zenon
        <5> QED  BY <2>1, <5>2
      <4> QED  BY <3>1, <4>3, <4>4
    <3>3. attempt' # 0 /\ answer' = "none" /\ fate' # "migrated"
      BY <1>1, <1>4, <2>1
    <3> HIDE <1>1, <1>4
    <3> QED  BY <2>1, <3>2, <3>3 DEF Queue
  <2>4. StateInv'
    <3>1. attempt \in {1, 2} => attempt' \in {1, 2}
      BY <1>4, <2>1
    <3> QED  BY <1>0, <1>1, <1>4, <3>1, SameState
  <2>5. PlainInv'
    BY <1>0, <1>1, <1>2, <1>4 DEF PlainInv
  <2>6. HookInv'
    <3>1. attempt' \in {3, 4} => attempt \in {3, 4}
      BY <1>4
    <3> QED  BY <1>0, <1>1, <1>4, <3>1 DEF HookInv, Through
  <2> QED  BY <2>2, <2>3, <2>4, <2>5, <2>6 DEF MigrationInv
<1>5. CASE ~alive' /\ alive' = FALSE /\ msgs' = <<>> /\ attempt' = 0 /\ fate' = "restarted"
  <2>1. Types'
    <3>1. Classified'
      BY <1>0, <1>1, <1>5 DEF Types, Classified
    <3>2. alive' \in BOOLEAN
      BY <1>5, Zenon
    <3>3. attempt' \in 0..4 /\ answer' \in {"none", "ok", "error"}
          /\ fate' \in {"none", "migrated", "restarted"}
      BY <1>1, <1>5
    <3> QED  BY <1>0, <1>1, <1>2, <3>1, <3>2, <3>3 DEF Types
  <2>2. Queue'
    BY <1>1, <1>5 DEF Queue
  <2>3. StateInv'
    BY <1>0, <1>1, <1>5, SameState
  <2>4. PlainInv'
    <3>1. answer = "none" \/ answer = "error"
      BY <1>0, <1>1 DEF Types
    <3> QED  BY <1>0, <1>1, <1>2, <3>1 DEF PlainInv
  <2>5. HookInv'
    BY <1>5 DEF HookInv
  <2> QED  BY <2>1, <2>2, <2>3, <2>4, <2>5 DEF MigrationInv
<1> QED  BY <1>3, <1>4, <1>5

LEMMA ActorDieKeepsMigration ==
  ASSUME MigrationInv, ActorDie
  PROVE  MigrationInv'
<1>0. /\ Types /\ Queue /\ StateInv /\ PlainInv /\ HookInv
      /\ alive' = FALSE /\ msgs' = <<>> /\ disturbed' = TRUE
      /\ UNCHANGED <<old, shape, hist, edges, verdict, state, attempt, answer, fate,
                   rerun, reloads>>
  BY DEF MigrationInv, ActorDie
<1>1. Types'
  <2>1. Classified'
    BY <1>0 DEF Types, Classified
  <2>2. alive' \in BOOLEAN /\ disturbed' \in BOOLEAN
    BY <1>0, Zenon
  <2> QED  BY <1>0, <2>1, <2>2 DEF Types
<1>2. Queue'
  BY <1>0 DEF Queue
<1>3. StateInv'
  BY <1>0, SameState
<1>4. PlainInv' /\ HookInv'
  BY <1>0 DEF PlainInv, HookInv
<1> QED  BY <1>1, <1>2, <1>3, <1>4 DEF MigrationInv

LEMMA RestartKeepsMigration ==
  ASSUME MigrationInv, Restart
  PROVE  MigrationInv'
<1>0. /\ Types /\ Queue /\ StateInv /\ PlainInv /\ HookInv
      /\ ~alive /\ attempt = 0 /\ alive' = TRUE /\ state' = Fresh(shape) /\ fate' = "restarted"
      /\ rerun' = FALSE /\ UNCHANGED <<old, shape, hist, edges, verdict, msgs, attempt, answer, disturbed, reloads>>
  BY DEF MigrationInv, Restart
<1>1. Types'
  <2>1. Classified'
    BY <1>0 DEF Types, Classified
  <2>2. alive' \in BOOLEAN /\ rerun' \in BOOLEAN
    BY <1>0, Zenon
  <2>3. fate' \in {"none", "migrated", "restarted"}
    BY <1>0
  <2> QED  BY <1>0, <2>1, <2>2, <2>3 DEF Types
<1>2. Queue'
  BY <1>0 DEF Queue
<1>3. StateInv'
  <2>1. IsState(state') /\ Covers(state', shape)
        /\ \A n \in DOMAIN state' : state'[n].org \in {n, "default", "hook"} \cup Names(old)
    BY <1>0, FreshState DEF Sourced
  <2> QED  BY <1>0, <2>1 DEF StateInv, IsState, Sourced, Covers
<1>4. PlainInv'
  BY <1>0 DEF PlainInv
<1>5. HookInv'
  BY <1>0 DEF HookInv, Through, Queue
<1> QED  BY <1>1, <1>2, <1>3, <1>4, <1>5 DEF MigrationInv

LEMMA StepKeepsMigration ==
  ASSUME MigrationInv, [Next]_vars
  PROVE  MigrationInv'
<1>1. ASSUME NEW n \in Shapes, NEW e \in EdgeSets, Plan(n, e) PROVE MigrationInv'
  BY <1>1, PlanKeepsMigration
<1>2. CASE UNCHANGED vars
  BY <1>2 DEF vars, MigrationInv, Types, Classified, Queue, StateInv, IsState, Sourced, Covers,
              PlainInv, HookInv, Through
<1> QED  BY <1>1, <1>2, HandleKeepsMigration, CallOkKeepsMigration, CallFailedKeepsMigration,
            ActorDieKeepsMigration, RestartKeepsMigration DEF Next

LEMMA MigrationInvariant == Spec => []MigrationInv
<1>1. Init => MigrationInv
  BY InitMigration
<1>2. MigrationInv /\ [Next]_vars => MigrationInv'
  BY StepKeepsMigration
<1> QED  BY <1>1, <1>2, PTL DEF Spec


-----------------------------------------------------------------------------
(* With fields in every declaration, a state is the old one or the new one. *)

\* Steps that change neither the declarations nor the actor's state.
LEMMA SameFields ==
  ASSUME FieldsInv, UNCHANGED <<old, shape, edges, verdict, state>>,
         rerun => rerun', alive' => alive,
         alive' /\ attempt \in {1, 2} /\ answer # "ok" =>
           attempt' \in {1, 2} /\ answer' # "ok",
         alive' /\ attempt' \in {1, 2} => attempt \in {1, 2},
         alive' /\ (attempt' # 0 \/ fate' = "migrated") => attempt # 0 \/ fate = "migrated"
  PROVE  FieldsInv'
<1> SUFFICES ASSUME alive' PROVE FieldsInv'
  BY DEF FieldsInv
<1>1. CASE attempt \in {1, 2} /\ answer # "ok" /\ Untouched(state)
  <2>1. Untouched(state)'
    BY <1>1 DEF Untouched, Fits, Typed, Names, TypeOf
  <2> QED  BY <1>1, <2>1 DEF FieldsInv
<1>2. CASE /\ Fits(state, shape)
           /\ edges = {} /\ (attempt # 0 \/ fate = "migrated") => Kept(state)
           /\ edges # {} /\ attempt \in {1, 2} => \A n \in DOMAIN state : state[n].org = "hook"
  <2>1. Fits(state, shape)'
    BY <1>2 DEF Fits, Typed, Names, TypeOf
  <2>2. Kept(state) => Kept(state)'
    BY DEF Kept
  <2> QED  BY <1>2, <2>1, <2>2 DEF FieldsInv
<1> QED  BY <1>1, <1>2 DEF FieldsInv

LEMMA PlanKeepsFields ==
  ASSUME MigrationInv, FieldsInv, NEW n \in Shapes, NEW e, Plan(n, e)
  PROVE  FieldsInv'
<1>0. attempt = 0 /\ alive /\ old' = shape /\ attempt' = 1 /\ answer' = "none" /\ IsState(state)
      /\ rerun' = rerun
  BY DEF Plan, MigrationInv, StateInv
<1>1. Fits(state, shape)
  BY <1>0 DEF FieldsInv
<1>2. /\ DOMAIN state' = DOMAIN state
      /\ \A m \in DOMAIN state : state'[m].org = m /\ state'[m].ty = state[m].ty
  BY <1>0, Rewritten
<1>3. DOMAIN state' = Names(old') /\ (~rerun' => Typed(state', old'))
  BY <1>0, <1>1, <1>2 DEF Fits, Typed
<1>4. Untouched(state)'
  BY <1>2, <1>3 DEF Untouched, Fits, Typed
<1> QED  BY <1>0, <1>4 DEF FieldsInv

LEMMA HandleKeepsFields ==
  ASSUME Declares, MigrationInv, FieldsInv, Handle
  PROVE  FieldsInv'
<1>0. /\ Types /\ Queue /\ Classified /\ IsState(state) /\ old \in Shapes /\ shape \in Shapes
  BY DEF MigrationInv, Types, StateInv
<1>1. /\ alive /\ alive' = alive /\ old' = old /\ shape' = shape /\ edges' = edges
      /\ verdict' = verdict /\ attempt' = attempt /\ fate' = fate /\ (rerun => rerun')
  BY Handled
<1>2. attempt # 0 /\ answer = "none" /\ fate # "migrated" /\ attempt \in {1, 2, 3, 4}
  <2>1. msgs # <<>> /\ attempt \in 0..4
    BY <1>0 DEF Handle, Types
  <2> QED  BY <1>0, <2>1, Waiting
<1>3. CASE attempt \in {3, 4}
  <2>1. state' = state /\ attempt \notin {1, 2}
    BY <1>3, Handled
  <2> QED  BY <1>1, <1>2, <2>1, SameFields
<1>4. CASE attempt \in {1, 2}
  <2>1. PICK r \in Change(state) : /\ state' = r.state
                                   /\ answer' = "ok" => r.ok
                                   /\ answer' = "error" => ~r.ok
                                   /\ r.ok /\ edges # {} /\ Migrated(state) => rerun'
    BY <1>4, Handled
  <2>2. CASE ~r.ok
    <3>1. state' = state /\ answer' # "ok"
      BY <2>1, <2>2, ChangeEffect
    <3> QED  BY <1>1, <1>2, <1>4, <3>1, SameFields
  <2>3. CASE r.ok
    <3>1. ASSUME edges # {}
          PROVE  /\ DOMAIN state' = Names(shape) /\ (~rerun' => Typed(state', shape))
                 /\ \A n \in DOMAIN state' : state'[n].org = "hook"
      <4>1. /\ DOMAIN state' = Names(shape) /\ (Typed(state, old) => Typed(state', shape))
            /\ \A n \in DOMAIN state' : state'[n].org = "hook"
        BY <2>1, <2>3, <3>1, ChangeEffect
      <4>2. CASE Untouched(state)
        BY <1>1, <4>1, <4>2 DEF Untouched, Fits
      <4>3. CASE Fits(state, shape) /\ \A n \in DOMAIN state : state[n].org = "hook"
        <5>1. CASE Names(shape) = {}
          BY <4>1, <5>1 DEF Typed
        <5>2. CASE Names(shape) # {}
          BY <2>1, <2>3, <3>1, <4>1, <4>3, <5>2 DEF Migrated, Fits
        <5> QED  BY <5>1, <5>2
      <4> QED  BY <1>1, <1>4, <3>1, <4>2, <4>3 DEF FieldsInv
    <3>2. ASSUME edges = {} PROVE Fits(state', shape) /\ Kept(state')
      <4>1. state' = Trimmed(state)
        BY <2>1, <2>3, <3>2, ChangeEffect
      <4>2. CASE Untouched(state)
        <5>1. verdict \in {"auto", "complete"} /\ verdict = Verdict(old, shape, FALSE)
          BY <1>0, <1>2, <3>2 DEF Classified
        <5> QED  BY <1>0, <4>1, <4>2, <5>1, ChangeFits
      <4>3. CASE Fits(state, shape) /\ Kept(state)
        BY <1>0, <4>1, <4>3, ChangeAgain
      <4>4. Untouched(state) \/ (Fits(state, shape) /\ Kept(state))
        BY <1>1, <1>2, <3>2 DEF FieldsInv
      <4> QED  BY <4>2, <4>3, <4>4
    <3>3. DOMAIN state' = Names(shape') /\ (~rerun' => Typed(state', shape'))
      BY <1>1, <3>1, <3>2 DEF Fits
    <3>4. edges = {} => Kept(state)'
      <4> SUFFICES ASSUME edges = {} PROVE Kept(state)'
        OBVIOUS
      <4>1. Kept(state')
        BY <3>2
      <4> QED  BY <1>1, <4>1 DEF Kept
    <3>5. Fits(state, shape)'
      BY <3>3 DEF Fits, Typed
    <3> QED  BY <1>1, <3>1, <3>4, <3>5 DEF FieldsInv
  <2>4. r.ok \in BOOLEAN
    BY ChangeEffect
  <2> QED  BY <2>2, <2>3
<1> QED  BY <1>2, <1>3, <1>4

LEMMA StepKeepsFields ==
  ASSUME Declares, MigrationInv, FieldsInv, [Next]_vars
  PROVE  FieldsInv'
<1>1. ASSUME NEW n \in Shapes, NEW e \in EdgeSets, Plan(n, e) PROVE FieldsInv'
  BY <1>1, PlanKeepsFields
<1>2. CASE Handle
  BY <1>2, HandleKeepsFields
<1>3. CASE CallOk
  <2>1. /\ answer = "ok" /\ attempt # 0
        /\ UNCHANGED <<old, shape, edges, verdict, state, alive, rerun>> /\ attempt' \notin {1, 2}
    BY <1>3 DEF CallOk, Call, MigrationInv, Queue
  <2> QED  BY <2>1, SameFields
<1>4. CASE CallFailed
  <2>1. attempt # 0 /\ answer' = "none" /\ UNCHANGED <<old, shape, edges, verdict, state, rerun>>
    BY <1>4 DEF CallFailed, Call
  <2>3. alive' => alive
    BY <1>4, Failed
  <2>2. alive' => (attempt \in {1, 2} <=> attempt' \in {1, 2})
    BY <1>4, Failed
  <2> QED  BY <2>1, <2>2, <2>3, SameFields
<1>5. CASE ActorDie
  BY <1>5 DEF ActorDie, FieldsInv
<1>6. CASE Restart
  <2>1. /\ attempt' = 0 /\ fate' = "restarted" /\ state' = Fresh(shape) /\ shape' = shape
    BY <1>6 DEF Restart
  <2>3. DOMAIN state' = Names(shape') /\ Typed(state', shape')
    BY <2>1, FreshState DEF Fits
  <2>2. Fits(state, shape)'
    BY <2>3 DEF Fits, Typed
  <2> QED  BY <2>1, <2>2 DEF FieldsInv
<1>7. CASE UNCHANGED vars
  <2>1. UNCHANGED <<old, shape, edges, verdict, state, alive, attempt, answer, fate, rerun>>
    BY <1>7 DEF vars
  <2> QED  BY <2>1, SameFields
<1> QED  BY <1>1, <1>2, <1>3, <1>4, <1>5, <1>6, <1>7 DEF Next

LEMMA FieldsInvariant ==
  ASSUME Declares
  PROVE  Spec => [](MigrationInv /\ FieldsInv)
<1>1. Init => MigrationInv /\ FieldsInv
  <2> SUFFICES ASSUME Init PROVE FieldsInv
    BY InitMigration
  <2>1. /\ state = Fresh(shape) /\ attempt = 0 /\ fate = "none"
    BY DEF Init
  <2> QED  BY <2>1, FreshState DEF FieldsInv
<1>2. MigrationInv /\ FieldsInv /\ [Next]_vars => (MigrationInv /\ FieldsInv)'
  <2> SUFFICES ASSUME MigrationInv, FieldsInv, [Next]_vars PROVE MigrationInv' /\ FieldsInv'
    OBVIOUS
  <2> QED  BY StepKeepsMigration, StepKeepsFields
<1> QED  BY <1>1, <1>2, PTL DEF Spec

-----------------------------------------------------------------------------
(* What the invariants say. *)

\* Every variable stays in its domain over any chain of reloads: the loader makes at
\* most two calls of each kind (migrate_actors, refresh_actor_collections), and
\* every value in the actor's state has a source.
THEOREM MigrationTypeCorrect == Spec => []TypeOK
<1>1. MigrationInv => TypeOK
  <2> SUFFICES ASSUME MigrationInv PROVE TypeOK
    OBVIOUS
  <2>0. Types /\ Queue /\ StateInv
    BY DEF MigrationInv
  <2>1. \A k \in DOMAIN hist : \E s \in Shapes : hist[k] = Layout(s)
    <3>1. \A k \in DOMAIN hist : hist[k] \in Layouts
      BY <2>0 DEF Types
    <3> QED  BY <3>1 DEF Layouts
  <2>2. \A n \in DOMAIN state : state[n].org \in DOMAIN state \cup Names(old) \cup
                                                {"default", "hook"}
    BY <2>0 DEF StateInv, Sourced
  <2>3. \A i \in DOMAIN msgs : msgs[i] \in 1..4
    <3>1. attempt \in 0..4 /\ (attempt = 0 => msgs = <<>>)
      BY <2>0 DEF Types, Queue
    <3>2. CASE msgs = <<>>
      BY <3>2
    <3>3. CASE msgs = <<attempt>> /\ attempt # 0
      BY <3>1, <3>3
    <3>4. CASE attempt \in {2, 4} /\ msgs = <<attempt - 1, attempt>>
      <4>1. msgs[1] \in 1..4 /\ msgs[2] \in 1..4 /\ DOMAIN msgs = 1..2
        BY <3>4
      <4> QED  BY <4>1
    <3>5. msgs = <<>> \/ msgs = <<attempt>> \/ (attempt \in {2, 4} /\ msgs = <<attempt - 1, attempt>>)
      BY <2>0 DEF Queue
    <3> QED  BY <3>1, <3>2, <3>3, <3>4, <3>5
  <2>4. verdict \in {"none", "hook", "auto", "complete"}
    BY <2>0 DEF Types, Classified
  <2> QED  BY <2>0, <2>1, <2>2, <2>3, <2>4 DEF Types, TypeOK
<1> QED  BY <1>1, MigrationInvariant, PTL

\* A change that the compatibility check reports as automatic, or as completely
\* planned, costs no actor its state unless something went wrong on the way: the
\* defaults that apply_code_change asks for are all there, at every run of it.
THEOREM PlainEditsKeepActors == Spec => []PlainSurvives
<1>1. MigrationInv => PlainSurvives
  BY DEF MigrationInv, PlainInv, PlainSurvives
<1> QED  BY <1>1, MigrationInvariant, PTL

\* The state of a migrated actor whose change the check reported as covered by a
\* hook was computed by the hook: emit_code_change and actor_hash_info agree with
\* the classification.
THEOREM HookedEditsUseHook == Spec => []ThroughHook
<1>1. MigrationInv => ThroughHook
  BY DEF MigrationInv, HookInv, ThroughHook, Serving, Through
<1> QED  BY <1>1, MigrationInvariant, PTL

\* An actor that serves has exactly the declared fields, after any chain of reloads
\* between declarations that have a field, and each holds a value of its type unless
\* a hook has run again on what it had made: what migrate_actor calls idempotent is
\* proved of the automatic instructions, and of one run of a hook.
THEOREM StateMatchesDeclaration ==
  ASSUME Declares
  PROVE  Spec => []WellShaped
<1>1. FieldsInv => WellShaped
  BY DEF FieldsInv, Fits, Typed, WellShaped, Serving
<1> QED  BY <1>1, FieldsInvariant, PTL

\* A migration without a hook loses and invents nothing, however often and however
\* late it ran: each surviving field keeps its own value, a new one has its
\* default or the value of the one field that is gone.
THEOREM MigrationKeepsValues ==
  ASSUME Declares
  PROVE  Spec => []ValuesKept
<1>1. FieldsInv => ValuesKept
  <2> SUFFICES ASSUME FieldsInv, Serving, fate = "migrated", edges = {} PROVE Kept(state)
    BY DEF ValuesKept, Kept
  <2> QED  BY DEF FieldsInv, Serving
<1> QED  BY <1>1, FieldsInvariant, PTL
=============================================================================
