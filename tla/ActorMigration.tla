--------------------------- MODULE ActorMigration ---------------------------
(***************************************************************************)
(* What a chain of hot reloads makes of the state of one actor: the edit   *)
(* is classified (ridge-reload: check, scaffold), the manifest says how to *)
(* migrate (ridge-driver: actor_migrations), and the loader drives         *)
(* sys:change_code of the suspended actor, with its timeouts and retries   *)
(* (ridge_loader: migrate_actors, refresh_actor_collections), while the    *)
(* actor may answer late.  HotReload models what surrounds this: here the  *)
(* code is loaded and the actor suspended as soon as a reload is planned.  *)
(*                                                                         *)
(* A declaration of the state is a sequence of fields [name, ty, dflt].    *)
(* Every value in the actor's state carries the type it was stored with    *)
(* and its origin, so that a value in the wrong place can be told.         *)
(***************************************************************************)
EXTENDS Naturals, Sequences, FiniteSets

CONSTANTS
  Shapes,      \* the state declarations an edit may lead to
  EdgeKinds,   \* migrate members the source may have: for the "current" version
               \* and for "older" ones
  MaxReloads   \* bound: accepted reloads

Names(s) == {s[i].name : i \in DOMAIN s}
TypeOf(s, n) == s[CHOOSE i \in DOMAIN s : s[i].name = n].ty
Distinct(s) == \A i, j \in DOMAIN s : s[i].name = s[j].name => i = j

ASSUME ShapesAssumption ==
  /\ \A s \in Shapes : /\ Distinct(s) /\ IsFiniteSet(DOMAIN s)
                        /\ \A i \in DOMAIN s : s[i].dflt \in BOOLEAN
  /\ EdgeKinds \subseteq {"current", "older"} /\ MaxReloads \in Nat

VARIABLES
  old,        \* the declaration before the last reload
  shape,      \* the declaration of the loaded code
  hist,       \* layouts by version ordinal, the current one last
  edges,      \* ordinals for which the loaded code has a migrate member
  verdict,    \* how the last reload was classified
  state,      \* the actor's state map
  alive,      \* is the actor process alive
  msgs,       \* change_code requests in its mailbox: 1, 2 migrate, 3, 4 refresh
  attempt,    \* the request the loader waits for, 0 when it is done
  answer,     \* the reply to it
  fate,       \* what became of the actor in the last reload
  disturbed,  \* a timeout, a crash or a failing hook or refresh happened
  rerun,      \* a hook has run on a state it had already migrated
  reloads     \* accepted reloads so far

vars == <<old, shape, hist, edges, verdict, state, alive, msgs, attempt, answer, fate,
          disturbed, rerun, reloads>>

-----------------------------------------------------------------------------
(* The compatibility check *)

Removed(o, n) == {i \in DOMAIN o : o[i].name \notin Names(n)}
Added(o, n)   == {i \in DOMAIN n : n[i].name \notin Names(o)}
Retyped(o, n) == \E i \in DOMAIN o, j \in DOMAIN n : o[i].name = n[j].name /\ o[i].ty # n[j].ty

\* plan_impl: one field is gone and one is new, at the same position and with
\* the same type.  At most one pair <<from, to>>.
Rename(o, n) ==
  {<<o[i].name, n[i].name>> : i \in
     {j \in Removed(o, n) \cap Added(o, n) :
        o[j].ty = n[j].ty /\ Cardinality(Removed(o, n)) = 1 /\ Cardinality(Added(o, n)) = 1}}

\* The fields plan_impl has no source for.
Holes(o, n) ==
  {j \in DOMAIN n : /\ \A r \in Rename(o, n) : r[2] # n[j].name
                    /\ \A i \in DOMAIN o : o[i].name = n[j].name => o[i].ty # n[j].ty}

\* Mutant: additions need no default.
VerdictLax(o, n, covered) ==
  CASE covered -> "hook"
    [] ~covered /\ Removed(o, n) = {} /\ ~Retyped(o, n) /\ Added(o, n) # {} -> "auto"
    [] OTHER -> IF Holes(o, n) = {} THEN "complete" ELSE "holes"

\* classify and actor_state_verdict.
Verdict(o, n, covered) ==
  CASE covered -> "hook"
    [] /\ ~covered /\ Removed(o, n) = {} /\ ~Retyped(o, n) /\ Added(o, n) # {}
       /\ \A j \in Added(o, n) : n[j].dflt -> "auto"
    [] OTHER -> IF Holes(o, n) = {} THEN "complete" ELSE "holes"

\* versioned_identity: a new layout gets the next ordinal.  The layout stands
\* for its hash.
Layout(s) == [i \in DOMAIN s |-> [name |-> s[i].name, ty |-> s[i].ty]]
Versions(h, s) == IF h[Len(h)] = Layout(s) THEN h ELSE Append(h, Layout(s))

-----------------------------------------------------------------------------
(* code_change of the actor.  A result is [ok, state]. *)

\* init/1 of the generated actor.
Fresh(s) == [n \in Names(s) |-> [ty |-> TypeOf(s, n), org |-> n]]

\* Mutant: a declared field is filled even if a rename has just put a value there.
ApplyCodeChangeOverwrites(s) ==
  LET new == {shape[j].name : j \in Added(old, shape)} IN
  [ok |-> TRUE,
   state |-> [n \in Names(shape) |->
                IF n \in new THEN [ty |-> TypeOf(shape, n), org |-> "default"] ELSE s[n]]]

\* apply_code_change({ridge_migrate, _}): rename, fill what is missing of the
\* added fields, and keep the declared keys (all keys if none is declared).
ApplyCodeChange(s) ==
  LET S1 == LET live == {r \in Rename(old, shape) : r[1] \in DOMAIN s} IN
            [n \in (DOMAIN s \ {r[1] : r \in live}) \cup {r[2] : r \in live} |->
               IF \E r \in live : r[2] = n
               THEN s[(CHOOSE r \in live : r[2] = n)[1]] ELSE s[n]]
      missing == {shape[j].name : j \in Added(old, shape)} \ DOMAIN S1
      S2 == [n \in DOMAIN S1 \cup missing |->
               IF n \in DOMAIN S1 THEN S1[n] ELSE [ty |-> TypeOf(shape, n), org |-> "default"]]
      S3 == IF Names(shape) = {} THEN S2 ELSE [n \in DOMAIN S2 \cap Names(shape) |-> S2[n]]
  IN IF \A j \in DOMAIN shape : shape[j].name \in missing => shape[j].dflt
     THEN [ok |-> TRUE, state |-> S3]
     ELSE [ok |-> FALSE, state |-> s]

\* '__ridge_migrate_hook': the clause is chosen by the FROM hash the loader
\* sends, not by the state.  Without one it raises; a user hook computes a whole
\* new state or raises.
EdgeFound == \E k \in edges : hist[k] = Layout(old)

\* The types of what the hook may put in field n, when it runs on s: a value it
\* computes, or the one it copies from a field of the FROM version that was declared
\* with n's type.  The hook is well typed for that version and no other.
HookTypes(s, n) ==
  {TypeOf(shape, n)} \cup
  {s[m].ty : m \in {k \in Names(old) \cap DOMAIN s : TypeOf(old, k) = TypeOf(shape, n)}}

HookOutcomes(s) ==
  {[ok |-> FALSE, state |-> s]} \cup
  IF ~EdgeFound THEN {} ELSE
  {[ok |-> TRUE, state |-> [n \in Names(shape) |-> [ty |-> t[n], org |-> "hook"]]] :
     t \in {u \in [Names(shape) -> UNION {HookTypes(s, n) : n \in Names(shape)}] :
              \A n \in Names(shape) : u[n] \in HookTypes(s, n)}}

Migrated(s) == \E n \in DOMAIN s : s[n].org = "hook"

\* Mutant: the loader sends the automatic instructions although there is a hook.
ChangeAutomatic(s) == {ApplyCodeChange(s)}

\* code_change with the Extra the loader chose: any migrate member selects the
\* hook form (actor_hash_info, migrate_actors, emit_code_change).
Change(s) == IF edges # {} THEN HookOutcomes(s) ELSE {ApplyCodeChange(s)}

-----------------------------------------------------------------------------
Init ==
  /\ shape \in Shapes /\ old = shape /\ hist = <<Layout(shape)>>
  /\ edges = {} /\ verdict = "none" /\ state = Fresh(shape) /\ alive = TRUE
  /\ msgs = <<>> /\ attempt = 0 /\ answer = "none" /\ fate = "none"
  /\ disturbed = FALSE /\ rerun = FALSE /\ reloads = 0

\* The migrate members an edit may have: typecheck wants a known ordinal.
EdgeSets ==
  SUBSET {k \in 1..Len(hist) : IF k = Len(hist) THEN "current" \in EdgeKinds
                                                ELSE "older" \in EdgeKinds}

\* plan_reload accepts an edit to declaration n with migrate members e; the
\* code is loaded and the first change_code sent.  Handlers have run since the
\* last reload, so each field holds data of its own.
Plan(n, e) ==
  /\ attempt = 0 /\ alive /\ reloads < MaxReloads /\ n # shape
  /\ verdict' = Verdict(shape, n, Len(hist) \in e)
  /\ verdict' # "holes"
  /\ old' = shape /\ shape' = n /\ edges' = e /\ hist' = Versions(hist, n)
  /\ state' = [m \in DOMAIN state |-> [state[m] EXCEPT !.org = m]]
  /\ attempt' = 1 /\ msgs' = <<1>> /\ answer' = "none" /\ fate' = "none"
  /\ disturbed' = FALSE /\ reloads' = reloads + 1
  /\ UNCHANGED <<alive, rerun>>

\* The suspended actor handles a change_code request, however late.
Handle ==
  /\ alive /\ msgs # <<>> /\ msgs' = Tail(msgs)
  /\ \E r \in IF Head(msgs) \in {1, 2} THEN Change(state)
              ELSE {[ok |-> b, state |-> state] : b \in BOOLEAN} :
       /\ state' = r.state
       /\ answer' = IF Head(msgs) = attempt THEN IF r.ok THEN "ok" ELSE "error" ELSE answer
       /\ disturbed' = (disturbed \/ (~r.ok /\ (Head(msgs) > 2 \/ EdgeFound)))
       /\ rerun' = (rerun \/ (r.ok /\ Head(msgs) < 3 /\ edges # {} /\ Migrated(state)))
  /\ UNCHANGED <<old, shape, hist, edges, verdict, alive, attempt, fate, reloads>>

Call(k) == attempt' = k /\ msgs' = Append(msgs, k) /\ answer' = "none"

\* try_change_code returned ok: the refresh follows, then the resume.
CallOk ==
  /\ answer = "ok"
  /\ IF attempt \in {1, 2}
     THEN Call(3) /\ UNCHANGED fate
     ELSE attempt' = 0 /\ answer' = "none" /\ fate' = "migrated" /\ UNCHANGED msgs
  /\ UNCHANGED <<old, shape, hist, edges, verdict, state, alive, disturbed, rerun, reloads>>

\* Mutant: every failed call of a live actor is repeated.
CallFailedRepeats ==
  /\ attempt # 0 /\ answer # "ok"
  /\ disturbed' = (disturbed \/ answer = "none")
  /\ IF alive
     THEN Call(attempt + 1) /\ UNCHANGED <<alive, fate>>
     ELSE /\ alive' = FALSE /\ msgs' = <<>>
          /\ attempt' = 0 /\ answer' = "none" /\ fate' = "restarted"
  /\ UNCHANGED <<old, shape, hist, edges, verdict, state, rerun, reloads>>

\* Mutant: the actor is left alone when the second call fails too.
CallFailedResumes ==
  /\ attempt # 0 /\ answer # "ok"
  /\ disturbed' = (disturbed \/ answer = "none")
  /\ IF attempt \in {1, 3} /\ alive
     THEN Call(attempt + 1) /\ UNCHANGED <<alive, fate>>
     ELSE /\ attempt' = 0 /\ answer' = "none" /\ fate' = "restarted"
          /\ UNCHANGED <<msgs, alive>>
  /\ UNCHANGED <<old, shape, hist, edges, verdict, state, rerun, reloads>>

\* It failed: an error reply, no reply in time, or a dead actor.  One retry,
\* then exit(P, kill).
CallFailed ==
  /\ attempt # 0 /\ answer # "ok"
  /\ disturbed' = (disturbed \/ answer = "none")
  /\ IF attempt \in {1, 3} /\ alive
     THEN Call(attempt + 1) /\ UNCHANGED <<alive, fate>>
     ELSE /\ alive' = FALSE /\ msgs' = <<>>
          /\ attempt' = 0 /\ answer' = "none" /\ fate' = "restarted"
  /\ UNCHANGED <<old, shape, hist, edges, verdict, state, rerun, reloads>>

ActorDie ==
  /\ alive
  /\ alive' = FALSE /\ msgs' = <<>> /\ disturbed' = TRUE
  /\ UNCHANGED <<old, shape, hist, edges, verdict, state, attempt, answer, fate, rerun,
                 reloads>>

\* The supervisor starts a replacement, which the gate admits after the reload.
Restart ==
  /\ ~alive /\ attempt = 0
  /\ alive' = TRUE /\ state' = Fresh(shape) /\ rerun' = FALSE /\ fate' = "restarted"
  /\ UNCHANGED <<old, shape, hist, edges, verdict, msgs, attempt, answer, disturbed, reloads>>

Next ==
  \/ \E n \in Shapes, e \in EdgeSets : Plan(n, e)
  \/ Handle \/ CallOk \/ CallFailed \/ ActorDie \/ Restart

Spec == Init /\ [][Next]_vars

-----------------------------------------------------------------------------
(* Properties *)

Serving == alive /\ attempt = 0

\* Every variable stays in its domain; the loader makes at most two calls of
\* each kind.
TypeOK ==
  /\ old \in Shapes /\ shape \in Shapes
  /\ \A k \in DOMAIN hist : \E s \in Shapes : hist[k] = Layout(s)
  /\ edges \subseteq DOMAIN hist /\ verdict \in {"none", "hook", "auto", "complete"}
  /\ \A n \in DOMAIN state : state[n].org \in DOMAIN state \cup Names(old) \cup
                                              {"default", "hook"}
  /\ \A i \in DOMAIN msgs : msgs[i] \in 1..4
  /\ attempt \in 0..4 /\ answer \in {"none", "ok", "error"}
  /\ fate \in {"none", "migrated", "restarted"} /\ reloads \in 0..MaxReloads
  /\ alive \in BOOLEAN /\ disturbed \in BOOLEAN /\ rerun \in BOOLEAN

\* An actor that serves requests after any chain of accepted reloads has exactly
\* the declared fields, and each holds a value of its declared type unless a user
\* hook has run on a state it had migrated before: migrate_actor repeats a
\* change_code that timed out, and the hook that is chosen by the FROM hash cannot
\* tell ("migrations are idempotent", ridge_loader.erl, is left to its author).
WellShaped ==
  Serving => /\ DOMAIN state = Names(shape)
             /\ rerun \/ \A n \in Names(shape) : state[n].ty = TypeOf(shape, n)

\* The part of WellShaped handlers rely on: no declared field is missing or holds
\* a value of another type ("then drop keys that no longer exist", ridge_rt.erl; "it
\* is never resumed with corrupt state", ridge_loader.erl).
DeclaredTypes ==
  Serving => \A n \in Names(shape) : n \in DOMAIN state /\ state[n].ty = TypeOf(shape, n)

\* An automatic migration loses and invents nothing, even when a call timed out
\* and ran again: a surviving field keeps its own value, a new one gets
\* its default or, after a rename, the value of a field that is gone.
ValuesKept ==
  Serving /\ fate = "migrated" /\ edges = {} =>
    \A n \in Names(shape) :
      IF n \in Names(old) THEN state[n].org = n
      ELSE state[n].org \in IF verdict = "auto" THEN {"default"} ELSE Names(old) \ Names(shape)

\* A change reported as automatic ("state field gets its default") or as a
\* complete plan costs no actor its state unless something went wrong on the way,
\* as long as the source has no migrate member left from an earlier edit.
PlainSurvives ==
  fate = "restarted" /\ verdict \in {"auto", "complete"} /\ edges = {} => disturbed

\* A change reported as covered by a migrate hook goes through the hook, which
\* takes precedence over the automatic instructions.
ThroughHook ==
  Serving /\ fate = "migrated" /\ verdict = "hook" =>
    \A n \in DOMAIN state : state[n].org = "hook"
=============================================================================
