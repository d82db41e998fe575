------------------------------ MODULE HotReload ------------------------------
(***************************************************************************)
(* One hot upgrade of a running Ridge node.  Four kinds of process share   *)
(* the node:                                                               *)
(*                                                                         *)
(*   actors          gen_servers whose init passes the startup gate        *)
(*                   (ridge_rt:actor_init), then serve handlers;           *)
(*   the gate        ridge_rt:startup_loop, which admits initializers and  *)
(*                   at most one reload ("writer");                        *)
(*   the owner       ridge_loader:recovery_loop, one unlinked process per  *)
(*                   reload that suspends actors and undoes or finishes    *)
(*                   the reload when the applicator dies;                  *)
(*   the applicator  ridge_loader:do_apply_owned, run by the admission     *)
(*                   server, which loads the code and migrates the actors. *)
(*                                                                         *)
(* Every request of an owner to the gate is one step of the gate that also *)
(* moves the owner on, since the owner waits for nothing but that reply.   *)
(* Requests of initializers are messages in the gate's mailbox (enters).   *)
(***************************************************************************)
EXTENDS Naturals, FiniteSets

CONSTANTS
  Actors,       \* the processes that are or may become actors
  Born,         \* the actors already serving when the behaviour starts
  Legacy,       \* the ones among them built without the startup protocol
  Changed,      \* the actors whose module has a migration entry
  None,         \* no actor
  MaxVersion,   \* bound: the code version at which reloads stop
  MaxFaults     \* bound: process deaths and infrastructure failures

ASSUME ConstantsAssumption ==
  /\ Born \subseteq Actors /\ Legacy \subseteq Born /\ Changed \subseteq Actors
  /\ None \notin Actors
  /\ MaxVersion \in Nat /\ MaxFaults \in Nat

VARIABLES
  life,      \* what each actor is doing
  spawner,   \* the actor waiting for its start, or None
  dep,       \* the actor its initializer asks, or None
  stale,     \* the parts of its state still in the form of older code
  args,      \* whether its init arguments saw a code swap
  up,        \* is the gate process alive
  enters,    \* {startup_call, _, _, enter} messages the gate has not handled
  readers,   \* initializers admitted and not yet released
  waiting,   \* initializers queued behind a granted load
  writer,    \* phase of the reload the gate has admitted, or "none"
  wlive,     \* is the process that opened it still the live owner
  marks,     \* confirmed suspensions not yet given to a resume worker
  resumes,   \* per actor, what its resume worker is doing
  aborting,  \* an abort request waits for the resume workers
  fenced,    \* the gate refuses everything until the node restarts
  opc,       \* step of the recovery owner, "none" when there is none
  phase,     \* its phase: precommit, committing, loaded
  owned,     \* its journal: restart, false, true, or "no" entry
  cand,      \* the census it took
  todo,      \* actors left in the owner's current loop
  cur,       \* the actor it is suspending
  orphan,    \* its applicator has died
  safe,      \* every actor it had to stop is confirmed stopped
  strays,    \* owners spawned by a dead applicator, not yet registered
  wpc,       \* step of the applicator
  cohort,    \* the suspended actors reported to it
  wtodo,     \* actors left in the applicator's current loop
  wcur,      \* the actor it reports ready
  result,    \* what the last finished request was answered
  fence,     \* ?ACTIVE_KEY is set
  code,      \* version of the loaded code
  vsn,       \* published version (?VSN_KEY)
  swap,      \* a finish_loading request is with the code server
  faults     \* faults so far

actorVars  == <<life, spawner, dep, stale, args>>
gateVars   == <<up, enters, readers, waiting, writer, wlive, marks, resumes,
                aborting, fenced>>
ownerVars  == <<opc, phase, owned, cand, todo, cur, orphan, safe, strays>>
workerVars == <<wpc, cohort, wtodo, wcur, result>>
nodeVars   == <<fence, code, vsn, swap>>
vars == <<actorVars, gateVars, ownerVars, workerVars, nodeVars, faults>>

-----------------------------------------------------------------------------
(* Vocabulary *)

Starting == {"entering", "waiting", "granted", "queued", "init", "leaving", "failing"}
Lives    == {"unborn", "ready", "suspended", "dead"} \cup Starting

Alive(a) == life[a] \notin {"unborn", "dead"}

\* A spawner waits for its child's init (gen_server:start is synchronous), so
\* until then it handles no message, the system messages of sys included.
Blocked(a) == \E c \in Actors : spawner[c] = a /\ life[c] \in Starting

\* exit(P, kill): P runs no further code.
Killed(S) == [a \in Actors |-> IF a \in S /\ Alive(a) THEN "dead" ELSE life[a]]

Fault == faults < MaxFaults /\ faults' = faults + 1

\* stop_recovery_actors: kill S and wait for the DOWNs; a kill not confirmed
\* in time (native code) is a fault and makes the outcome unsafe.
Stop(S) ==
  /\ life' = Killed(S)
  /\ \/ safe' = safe /\ UNCHANGED faults
     \/ (\E a \in S : Alive(a)) /\ safe' = FALSE /\ Fault

Resuming == {a \in Actors : resumes[a] # "none"}

Init ==
  /\ life = [a \in Actors |-> IF a \in Born THEN "ready" ELSE "unborn"]
  /\ spawner = [a \in Actors |-> None]
  /\ dep = [a \in Actors |-> None]
  /\ stale = [a \in Actors |-> {}]
  /\ args = [a \in Actors |-> "fresh"]
  /\ up = TRUE /\ enters = {} /\ readers = {} /\ waiting = {}
  /\ writer = "none" /\ wlive = FALSE /\ marks = {}
  /\ resumes = [a \in Actors |-> "none"] /\ aborting = FALSE /\ fenced = FALSE
  /\ opc = "none" /\ phase = "precommit" /\ owned = [a \in Actors |-> "no"]
  /\ cand = {} /\ todo = {} /\ cur = None /\ orphan = FALSE /\ safe = TRUE /\ strays = 0
  /\ wpc = "idle" /\ cohort = {} /\ wtodo = {} /\ wcur = None /\ result = "none"
  /\ fence = FALSE /\ code = 0 /\ vsn = 0 /\ swap = FALSE
  /\ faults = 0

-----------------------------------------------------------------------------
(* Actors *)

\* A process calls gen_server:start for c: an actor from a handler or from its
\* initializer, or (None) main or a supervisor.  The child asks the gate.
Spawn(c, p) ==
  /\ life[c] = "unborn"
  /\ p # None => life[p] \in {"ready", "init"} /\ ~Blocked(p)
  /\ spawner' = [spawner EXCEPT ![c] = p]
  /\ life' = [life EXCEPT ![c] = IF up THEN "entering" ELSE "dead"]
  /\ enters' = IF up THEN enters \cup {c} ELSE enters
  /\ UNCHANGED <<dep, stale, args, up, readers, waiting, writer, wlive, marks,
                 resumes, aborting, fenced, ownerVars, workerVars, nodeVars, faults>>

\* Mutant: a queued initializer runs on the arguments it was spawned with.
BeginInitUnmigrated(a) ==
  /\ life[a] \in {"granted", "queued"}
  /\ life' = [life EXCEPT ![a] = "init"]
  /\ UNCHANGED <<spawner, dep, stale, args, gateVars, ownerVars, workerVars, nodeVars, faults>>

\* The user initializer runs; it may ask an actor that serves requests.
BeginInit(a) ==
  /\ life[a] \in {"granted", "queued"}
  /\ \/ /\ life' = [life EXCEPT ![a] = "init"]
        /\ args' = [args EXCEPT ![a] = IF life[a] = "queued" THEN "fresh" ELSE @]
        /\ \E d \in {None} \cup {b \in Actors : life[b] \in {"ready", "suspended"}
                                                /\ ~Blocked(b)} :
             dep' = [dep EXCEPT ![a] = d]
     \/ /\ life[a] = "queued"           \* argument migration failed
        /\ life' = [life EXCEPT ![a] = "failing"]
        /\ UNCHANGED <<args, dep>>
  /\ UNCHANGED <<spawner, stale, gateVars, ownerVars, workerVars, nodeVars, faults>>

\* It returns once the actor it asked has answered or died; then the actor
\* publishes '__ridge_actor_ready' and only after that calls leave.
EndInit(a) ==
  /\ life[a] = "init" /\ ~Blocked(a)
  /\ dep[a] # None => life[dep[a]] = "dead" \/ (life[dep[a]] = "ready" /\ ~Blocked(dep[a]))
  /\ \/ life' = [life EXCEPT ![a] = "leaving"]
     \/ life' = [life EXCEPT ![a] = "failing"]
  /\ dep' = [dep EXCEPT ![a] = None]
  /\ UNCHANGED <<spawner, stale, args, gateVars, ownerVars, workerVars, nodeVars, faults>>

ActorCrash(a) ==
  /\ Alive(a)
  /\ life' = Killed({a})
  /\ UNCHANGED <<spawner, dep, stale, args, gateVars, ownerVars, workerVars, nodeVars, faults>>

-----------------------------------------------------------------------------
(* The startup gate *)

\* startup_fenced: without a writer a fence set in the node is one too.
StartupFenced == fenced \/ (writer = "none" /\ fence)

\* startup_resume_all: one resume worker per confirmed suspension in S.
ResumeAll(S) == [a \in Actors |-> IF a \in S THEN "pending" ELSE resumes[a]]

\* Mutant: the grant of an initializer does not cancel a preparing reload.
GateEnterUncancelled(a) ==
  /\ up /\ a \in enters /\ ~StartupFenced /\ writer # "committing"
  /\ enters' = enters \ {a} /\ readers' = readers \cup {a}
  /\ life' = [life EXCEPT ![a] = IF @ = "entering" THEN "granted" ELSE @]
  /\ UNCHANGED <<spawner, dep, stale, args, up, waiting, writer, wlive, marks, resumes,
                 aborting, fenced, ownerVars, workerVars, nodeVars, faults>>

\* startup_enter
GateEnter(a) ==
  /\ up /\ a \in enters
  /\ enters' = enters \ {a}
  /\ LET Told(l) == [life EXCEPT ![a] = IF @ = "entering" THEN l ELSE @] IN
     \/ /\ StartupFenced
        /\ life' = Told("dead")
        /\ UNCHANGED <<readers, waiting, writer, marks, resumes>>
     \/ /\ ~StartupFenced /\ writer = "committing"
        /\ life' = Told("waiting")
        /\ waiting' = waiting \cup {a}
        /\ UNCHANGED <<readers, writer, marks, resumes>>
     \/ /\ ~StartupFenced /\ writer = "preparing"
        /\ life' = Told("granted")
        /\ readers' = readers \cup {a}
        /\ writer' = "cancelled" /\ marks' = {} /\ resumes' = ResumeAll(marks)
        /\ UNCHANGED waiting
     \/ /\ ~StartupFenced /\ writer \in {"none", "cancelled"}
        /\ life' = Told("granted")
        /\ readers' = readers \cup {a}
        /\ UNCHANGED <<waiting, writer, marks, resumes>>
  /\ UNCHANGED <<spawner, dep, stale, args, up, wlive, aborting, fenced,
                 ownerVars, workerVars, nodeVars, faults>>

\* The leave clause of startup_loop; the actor then enters its receive loop.
\* Without an ok (the gate is dead, or does not know it) its init fails.
GateLeave(a) ==
  /\ life[a] \in {"leaving", "failing"}
  /\ life' = [life EXCEPT ![a] =
                IF up /\ @ = "leaving" /\ a \in readers THEN "ready" ELSE "dead"]
  /\ readers' = readers \ {a}
  /\ spawner' = [spawner EXCEPT ![a] = None]
  /\ UNCHANGED <<dep, stale, args, up, enters, waiting, writer, wlive, marks,
                 resumes, aborting, fenced, ownerVars, workerVars, nodeVars, faults>>

\* startup_down for an initializer.
GateActorDown(a) ==
  /\ up /\ life[a] = "dead" /\ a \in readers \cup waiting
  /\ readers' = readers \ {a} /\ waiting' = waiting \ {a}
  /\ UNCHANGED <<actorVars, up, enters, writer, wlive, marks, resumes, aborting,
                 fenced, ownerVars, workerVars, nodeVars, faults>>

\* A resume worker: sys:resume, and on a timeout the kill.
ResumeWorker(a) ==
  /\ resumes[a] = "pending"
  /\ \/ /\ life[a] \in {"suspended", "ready"}
        /\ life' = [life EXCEPT ![a] = "ready"]
        /\ resumes' = [resumes EXCEPT ![a] = "ok"]
     \/ /\ life[a] = "dead"
        /\ resumes' = [resumes EXCEPT ![a] = "gone"]
        /\ UNCHANGED life
     \/ /\ Alive(a)
        /\ life' = Killed({a})
        /\ resumes' = [resumes EXCEPT ![a] = "error"]
  /\ UNCHANGED <<spawner, dep, stale, args, up, enters, readers, waiting, writer, wlive,
                 marks, aborting, fenced, ownerVars, workerVars, nodeVars, faults>>

ResumeWorkerDie(a) ==
  /\ resumes[a] = "pending"
  /\ resumes' = [resumes EXCEPT ![a] = "lost"]
  /\ Fault
  /\ UNCHANGED <<actorVars, up, enters, readers, waiting, writer, wlive, marks,
                 aborting, fenced, ownerVars, workerVars, nodeVars>>

\* Where settle_precommit goes with the reply to its abort request.
AfterAbort(f) == IF f \/ ~safe THEN "finish_bad" ELSE "erase"

\* Mutant: the DOWN of a resume worker does not look for a waiting abort.
GateResumedSilent(a) ==
  /\ up /\ resumes[a] \notin {"none", "pending"}
  /\ resumes' = [resumes EXCEPT ![a] = "none"]
  /\ life' = IF resumes[a] = "lost" THEN Killed({a}) ELSE life
  /\ fenced' = (fenced \/ resumes[a] \in {"error", "lost"})
  /\ IF aborting /\ Resuming = {a} /\ resumes[a] # "lost"
     THEN aborting' = FALSE /\ opc' = AfterAbort(fenced')
     ELSE UNCHANGED <<aborting, opc>>
  /\ UNCHANGED <<spawner, dep, stale, args, up, enters, readers, waiting, writer, wlive,
                 marks, phase, owned, cand, todo, cur, orphan, safe, strays,
                 workerVars, nodeVars, faults>>

\* {startup_resumed, ...} or the DOWN of a resume worker, then
\* startup_abort_reply once none is left.
GateResumed(a) ==
  /\ up /\ resumes[a] \notin {"none", "pending"}
  /\ resumes' = [resumes EXCEPT ![a] = "none"]
  /\ life' = IF resumes[a] = "lost" THEN Killed({a}) ELSE life
  /\ fenced' = (fenced \/ resumes[a] \in {"error", "lost"})
  /\ IF aborting /\ Resuming = {a}
     THEN /\ aborting' = FALSE
          /\ opc' = IF opc = "abort_wait" THEN AfterAbort(fenced') ELSE opc
     ELSE UNCHANGED <<aborting, opc>>
  /\ UNCHANGED <<spawner, dep, stale, args, up, enters, readers, waiting, writer, wlive,
                 marks, phase, owned, cand, todo, cur, orphan, safe, strays,
                 workerVars, nodeVars, faults>>

\* Mutant: the queue is dropped without an answer to the initializers in it.
ReleaseWaitersUnanswered(Safe) ==
  /\ writer' = "none" /\ wlive' = FALSE /\ marks' = {} /\ aborting' = FALSE
  /\ fenced' = ~Safe /\ waiting' = {}
  /\ UNCHANGED <<readers, life>>

\* Mutant: the initializers are let in without becoming readers.
ReleaseWaitersUnregistered(Safe) ==
  /\ writer' = "none" /\ wlive' = FALSE /\ marks' = {} /\ aborting' = FALSE
  /\ fenced' = ~Safe
  /\ waiting' = {}
  /\ readers' = readers
  /\ life' = [a \in Actors |-> IF a \in waiting /\ life[a] = "waiting"
                               THEN IF Safe THEN "queued" ELSE "dead" ELSE life[a]]

\* startup_release_waiters
ReleaseWaiters(Safe) ==
  /\ writer' = "none" /\ wlive' = FALSE /\ marks' = {} /\ aborting' = FALSE
  /\ fenced' = ~Safe
  /\ waiting' = {}
  /\ readers' = IF Safe THEN readers \cup waiting ELSE readers
  /\ life' = [a \in Actors |-> IF a \in waiting /\ life[a] = "waiting"
                               THEN IF Safe THEN "queued" ELSE "dead" ELSE life[a]]

\* startup_down for the process that opened the reload.
GateOwnerDown ==
  /\ up /\ writer # "none" /\ ~wlive
  /\ ReleaseWaiters(~(fenced \/ fence \/ Resuming # {}))
  /\ UNCHANGED <<spawner, dep, stale, args, up, enters, resumes,
                 ownerVars, workerVars, nodeVars, faults>>

\* The gate dies and is never replaced: every initializer that waits for an
\* answer fails.
GateDie ==
  /\ up /\ Fault
  /\ up' = FALSE /\ enters' = {} /\ readers' = {} /\ waiting' = {}
  /\ writer' = "none" /\ wlive' = FALSE /\ marks' = {} /\ aborting' = FALSE
  /\ life' = Killed({a \in Actors : life[a] \in {"entering", "waiting", "leaving", "failing"}})
  /\ UNCHANGED <<spawner, dep, stale, args, resumes, fenced,
                 ownerVars, workerVars, nodeVars>>

-----------------------------------------------------------------------------
(* Admission and the recovery owner.  "wpc" tells which recovery_call of the *)
(* applicator is pending; while it is, the applicator only waits.            *)

\* {Ref, Reply} moves the applicator on, unless it is dead.
Reply(pc) == wpc' = IF orphan THEN wpc ELSE pc

\* do_apply_owned's answer to its caller, from the owner's final reply.
Outcome(ok) ==
  CASE wpc = "starting" -> "refused"
    [] wpc = "abort"    -> IF ok THEN "rejected" ELSE "required"
    [] wpc = "rejected" -> IF ok THEN "rejected" ELSE "failed"
    [] wpc = "complete" -> IF ok THEN "ok" ELSE "failed"
    [] OTHER            -> "failed"

\* The final reply; the applicator still waits for the owner's DOWN.
Answer(ok) ==
  /\ opc' = "exit"
  /\ Reply("await")
  /\ result' = IF orphan THEN result ELSE Outcome(ok)

\* The owner process is gone and its journal with it.
OwnerGone ==
  /\ opc' = "none" /\ wlive' = FALSE
  /\ owned' = [a \in Actors |-> "no"] /\ todo' = {} /\ cur' = None
  /\ phase' = "precommit" /\ orphan' = FALSE /\ safe' = TRUE

\* The applicator's variables go out of scope when it answers its caller.
WorkerDone == wpc' = "idle" /\ cohort' = {} /\ wtodo' = {} /\ wcur' = None /\ cand' = {}

NewOwner(orph) ==
  /\ opc' = "begin" /\ phase' = "precommit" /\ orphan' = orph /\ safe' = TRUE

\* handle_call, dispatch and do_apply: a fence or a registered owner refuses
\* the request, otherwise its base matches and an owner process is spawned.
Admit ==
  /\ wpc = "idle"
  /\ IF opc # "none" \/ fence
     THEN result' = "refused" /\ UNCHANGED wpc
     ELSE code < MaxVersion /\ wpc' = "spawned" /\ result' = "none"
  /\ UNCHANGED <<actorVars, gateVars, ownerVars, cohort, wtodo, wcur, nodeVars, faults>>

\* The spawned owner registers ?RECOVERY_REG, or finds it taken.
OwnerRegister ==
  /\ wpc = "spawned"
  /\ IF opc = "none"
     THEN NewOwner(FALSE) /\ wpc' = "starting" /\ UNCHANGED result
     ELSE wpc' = "idle" /\ result' = "refused" /\ UNCHANGED <<opc, phase, orphan, safe>>
  /\ UNCHANGED <<actorVars, gateVars, owned, cand, todo, cur, strays,
                 cohort, wtodo, wcur, nodeVars, faults>>

\* The same for an owner whose applicator died in between.
StrayRegister ==
  /\ strays > 0 /\ strays' = strays - 1
  /\ IF opc = "none" THEN NewOwner(TRUE) ELSE UNCHANGED <<opc, phase, orphan, safe>>
  /\ UNCHANGED <<actorVars, gateVars, owned, cand, todo, cur, workerVars, nodeVars, faults>>

\* begin_reload
GateBegin ==
  /\ opc = "begin"
  /\ IF up /\ ~StartupFenced /\ writer = "none" /\ readers = {}
     THEN /\ writer' = "preparing" /\ wlive' = TRUE /\ opc' = "census"
          /\ UNCHANGED <<wpc, result>>
     ELSE Answer(FALSE) /\ UNCHANGED <<writer, wlive>>
  /\ UNCHANGED <<actorVars, up, enters, readers, waiting, marks, resumes, aborting, fenced,
                 phase, owned, cand, todo, cur, orphan, safe, strays,
                 cohort, wtodo, wcur, nodeVars, faults>>

\* startup_actor_candidates: only actors that published readiness; an actor
\* without the startup protocol undoes the session.
Census ==
  /\ opc = "census"
  /\ IF \E a \in Legacy : Alive(a)
     THEN opc' = "abort" /\ UNCHANGED <<cand, wpc>>
     ELSE /\ opc' = "loop"
          /\ cand' = IF orphan THEN cand
                     ELSE {a \in Actors : life[a] \in {"leaving", "ready", "suspended"}}
          /\ Reply("suspend")
  /\ UNCHANGED <<actorVars, gateVars, phase, owned, todo, cur, orphan, safe, strays,
                 cohort, wtodo, wcur, result, nodeVars, faults>>

\* A suspend request: the fence first, then one actor after the other.
OwnerSuspend ==
  /\ opc = "loop" /\ ~orphan /\ wpc = "suspend"
  /\ fence' = TRUE
  /\ todo' = cand /\ opc' = "suspending"
  /\ UNCHANGED <<actorVars, gateVars, phase, owned, cand, cur, orphan, safe, strays,
                 workerVars, code, vsn, swap, faults>>

\* suspend_recovery_actors up to sys:suspend: the intent is journalled first.
SuspendNext(p) ==
  /\ opc = "suspending" /\ p \in todo
  /\ \/ /\ orphan
        /\ opc' = "stop" /\ UNCHANGED <<owned, todo, cur, wpc>>
     \/ /\ ~orphan /\ ~Alive(p)
        /\ opc' = "loop" /\ Reply("fail") /\ UNCHANGED <<owned, todo, cur>>
     \/ /\ ~orphan /\ Alive(p)
        /\ owned' = [owned EXCEPT ![p] = "restart"] /\ cur' = p
        /\ todo' = todo \ {p} /\ opc' = "suspend_call" /\ UNCHANGED wpc
  /\ UNCHANGED <<actorVars, gateVars, phase, cand, orphan, safe, strays,
                 cohort, wtodo, wcur, result, nodeVars, faults>>

\* sys:suspend: the actor suspends between two messages, or the call fails or
\* times out and the actor is killed.
SuspendCall ==
  /\ opc = "suspend_call"
  /\ \/ /\ life[cur] = "ready" /\ ~Blocked(cur)
        /\ life' = [life EXCEPT ![cur] = "suspended"]
        /\ owned' = [owned EXCEPT ![cur] = "false"]
        /\ opc' = "confirm" /\ UNCHANGED wpc
     \/ /\ life' = Killed({cur})
        /\ opc' = "loop" /\ Reply("fail") /\ UNCHANGED owned
  /\ UNCHANGED <<spawner, dep, stale, args, gateVars, phase, cand, todo, cur, orphan, safe,
                 strays, cohort, wtodo, wcur, result, nodeVars, faults>>

\* startup_writer({suspended, Pid}, ...)
GateSuspended ==
  /\ up /\ opc = "confirm"
  /\ IF writer = "preparing"
     THEN /\ marks' = marks \cup {cur} /\ opc' = "suspending"
          /\ UNCHANGED <<resumes, wpc>>
     ELSE /\ resumes' = ResumeAll(marks \cup {cur}) /\ marks' = {}
          /\ opc' = "loop" /\ Reply("abort")
  /\ UNCHANGED <<actorVars, up, enters, readers, waiting, writer, wlive, aborting, fenced,
                 phase, owned, cand, todo, cur, orphan, safe, strays,
                 cohort, wtodo, wcur, result, nodeVars, faults>>

\* All suspended: the applicator gets the cohort and asks for the commit.
SuspendDone ==
  /\ opc = "suspending" /\ todo = {}
  /\ opc' = "loop" /\ Reply("commit")
  /\ cohort' = IF orphan THEN cohort ELSE {a \in Actors : owned[a] = "false"}
  /\ UNCHANGED <<actorVars, gateVars, phase, owned, cand, todo, cur, orphan, safe, strays,
                 wtodo, wcur, result, nodeVars, faults>>

\* A commit request first pauses the purge worker, which may be unavailable.
OwnerCommit ==
  /\ opc = "loop" /\ ~orphan /\ wpc = "commit"
  /\ \/ opc' = "check" /\ UNCHANGED <<wpc, faults>>
     \/ wpc' = "fail" /\ Fault /\ UNCHANGED opc
  /\ UNCHANGED <<actorVars, gateVars, phase, owned, cand, todo, cur, orphan, safe, strays,
                 cohort, wtodo, wcur, result, nodeVars>>

\* check, then is the applicator alive, then are all owned actors alive.
GateCheck ==
  /\ up /\ opc = "check"
  /\ \/ orphan /\ opc' = "stop" /\ UNCHANGED wpc
     \/ ~orphan /\ writer # "preparing" /\ opc' = "loop" /\ wpc' = "abort"
     \/ /\ ~orphan /\ writer = "preparing"
        /\ IF \A a \in Actors : owned[a] # "no" => Alive(a)
           THEN opc' = "commit_call" /\ UNCHANGED wpc
           ELSE opc' = "loop" /\ wpc' = "fail"
  /\ UNCHANGED <<actorVars, gateVars, phase, owned, cand, todo, cur, orphan, safe, strays,
                 cohort, wtodo, wcur, result, nodeVars, faults>>

\* startup_writer(commit, ...): the load grant.
GateCommit ==
  /\ up /\ opc = "commit_call" /\ opc' = "loop"
  /\ IF writer = "preparing"
     THEN writer' = "committing" /\ phase' = "committing" /\ Reply("load")
     ELSE Reply("abort") /\ UNCHANGED <<writer, phase>>
  /\ UNCHANGED <<actorVars, up, enters, readers, waiting, wlive, marks, resumes, aborting,
                 fenced, owned, cand, todo, cur, orphan, safe, strays,
                 cohort, wtodo, wcur, result, nodeVars, faults>>

\* The loaded and {ready, Pid} clauses of recovery_loop.
OwnerLoaded ==
  /\ opc = "loop" /\ ~orphan /\ wpc = "loaded"
  /\ phase' = "loaded"
  /\ wpc' = "migrate" /\ wtodo' = cohort
  /\ UNCHANGED <<actorVars, gateVars, opc, owned, cand, todo, cur, orphan, safe, strays,
                 cohort, wcur, result, nodeVars, faults>>

OwnerReady ==
  /\ opc = "loop" /\ ~orphan /\ wpc = "ready"
  /\ owned' = [owned EXCEPT ![wcur] = "true"]
  /\ wpc' = "refresh"
  /\ UNCHANGED <<actorVars, gateVars, opc, phase, cand, todo, cur, orphan, safe, strays,
                 cohort, wtodo, wcur, result, nodeVars, faults>>

\* Mutant: the applicator's death after the load grant is undone like one before.
OwnerEndUndoes ==
  /\ opc = "loop" /\ (orphan \/ wpc \in {"complete", "rejected", "abort", "fail"})
  /\ opc' = "stop"
  /\ phase' = IF phase = "committing" THEN "precommit" ELSE phase
  /\ UNCHANGED <<actorVars, gateVars, owned, cand, todo, cur, orphan, safe, strays,
                 workerVars, nodeVars, faults>>

\* complete, rejected, abort, or the applicator's DOWN.
OwnerEnd ==
  /\ opc = "loop" /\ (orphan \/ wpc \in {"complete", "rejected", "abort", "fail"})
  /\ opc' = "stop"
  /\ phase' = IF ~orphan /\ wpc = "rejected" THEN "precommit" ELSE phase
  /\ UNCHANGED <<actorVars, gateVars, owned, cand, todo, cur, orphan, safe, strays,
                 workerVars, nodeVars, faults>>

\* The actors whose state cannot be trusted in the owner's phase: a suspension
\* never confirmed, after the grant all of them, after the load the ones whose
\* migration is not complete.
Untrusted ==
  CASE phase = "precommit"  -> {a \in Actors : owned[a] = "restart"}
    [] phase = "committing" -> {a \in Actors : owned[a] # "no"}
    [] phase = "loaded"     -> {a \in Actors : owned[a] \in {"restart", "false"}}

\* Mutant: after the load the actors not yet migrated are resumed as they are.
OwnerStopTrusting ==
  /\ opc = "stop"
  /\ Stop(IF phase = "loaded" THEN {a \in Actors : owned[a] = "restart"} ELSE Untrusted)
  /\ opc' = CASE phase = "precommit"  -> "abort"
              [] phase = "committing" -> "finish_bad"
              [] phase = "loaded"     -> "resume"
  /\ todo' = {a \in Actors : owned[a] \in {"true", "false"}}
  /\ UNCHANGED <<spawner, dep, stale, args, gateVars, phase, owned, cand, cur, orphan, strays,
                 workerVars, nodeVars>>

\* The kills of settle_precommit and settle_recovery_actors.
OwnerStop ==
  /\ opc = "stop" /\ Stop(Untrusted)
  /\ opc' = CASE phase = "precommit"  -> "abort"
              [] phase = "committing" -> "finish_bad"
              [] phase = "loaded"     -> "resume"
  /\ todo' = {a \in Actors : owned[a] = "true"}
  /\ UNCHANGED <<spawner, dep, stale, args, gateVars, phase, owned, cand, cur, orphan, strays,
                 workerVars, nodeVars>>

\* startup_writer(abort, ...): the gate resumes every confirmed suspension and
\* answers once all resume workers are done.
GateAbort ==
  /\ up /\ opc = "abort"
  /\ writer' = "cancelled" /\ marks' = {} /\ resumes' = ResumeAll(marks)
  /\ IF \A a \in Actors : resumes'[a] = "none"
     THEN opc' = AfterAbort(fenced) /\ UNCHANGED aborting
     ELSE opc' = "abort_wait" /\ aborting' = TRUE
  /\ UNCHANGED <<actorVars, up, enters, readers, waiting, wlive, fenced,
                 phase, owned, cand, todo, cur, orphan, safe, strays,
                 workerVars, nodeVars, faults>>

\* settle_recovery_actors: sys:resume of a ready actor, or its kill.
OwnerResume(p) ==
  /\ opc = "resume" /\ p \in todo
  /\ todo' = todo \ {p}
  /\ \/ ~Alive(p) /\ UNCHANGED <<life, safe, faults>>
     \/ /\ life[p] = "suspended" /\ life' = [life EXCEPT ![p] = "ready"]
        /\ UNCHANGED <<safe, faults>>
     \/ Alive(p) /\ Stop({p})
  /\ UNCHANGED <<spawner, dep, stale, args, gateVars, opc, phase, owned, cand, cur, orphan,
                 strays, workerVars, nodeVars>>

\* complete_recovery: publish, schedule the purge, drop the fence, finish.
\* An unconfirmed kill or an unavailable purge worker leaves the fence.
OwnerPublish ==
  /\ opc = "resume" /\ todo = {}
  /\ IF safe THEN vsn' = vsn + 1 /\ opc' = "schedule" /\ UNCHANGED <<wpc, result>>
             ELSE Answer(FALSE) /\ UNCHANGED vsn
  /\ UNCHANGED <<actorVars, gateVars, phase, owned, cand, todo, cur, orphan, safe, strays,
                 cohort, wtodo, wcur, fence, code, swap, faults>>

OwnerSchedule ==
  /\ opc = "schedule"
  /\ \/ opc' = "erase" /\ UNCHANGED <<wpc, result, faults>>
     \/ Answer(FALSE) /\ Fault
  /\ UNCHANGED <<actorVars, gateVars, phase, owned, cand, todo, cur, orphan, safe, strays,
                 cohort, wtodo, wcur, nodeVars>>

OwnerErase ==
  /\ opc = "erase" /\ opc' = "finish"
  /\ fence' = FALSE
  /\ UNCHANGED <<actorVars, gateVars, phase, owned, cand, todo, cur, orphan, safe, strays,
                 workerVars, code, vsn, swap, faults>>

\* Mutant: the owner answers an unsafe settlement like a safe one.
GateFinishLax ==
  /\ up /\ opc \in {"finish", "finish_bad"}
  /\ ReleaseWaiters(Resuming = {} /\ ~fenced /\ ~fence) /\ Answer(TRUE)
  /\ UNCHANGED <<spawner, dep, stale, args, up, enters, resumes,
                 phase, owned, cand, todo, cur, orphan, safe, strays,
                 cohort, wtodo, wcur, nodeVars, faults>>

\* startup_writer(finish, ...)
GateFinish ==
  /\ up /\ opc \in {"finish", "finish_bad"}
  /\ LET Safe == Resuming = {} /\ ~fenced /\ ~fence IN
       ReleaseWaiters(Safe) /\ Answer(Safe /\ opc = "finish")
  /\ UNCHANGED <<spawner, dep, stale, args, up, enters, resumes,
                 phase, owned, cand, todo, cur, orphan, safe, strays,
                 cohort, wtodo, wcur, nodeVars, faults>>

\* A gate call fails because the gate is dead: begin_reload and the finish of
\* complete_recovery catch it, everywhere else the owner crashes.
GateCalls == {"confirm", "check", "commit_call", "abort", "abort_wait", "finish", "finish_bad"}

OwnerGateLost ==
  /\ ~up /\ opc \in GateCalls
  /\ IF opc = "finish" /\ phase = "loaded"
     THEN Answer(FALSE) /\ UNCHANGED <<wlive, owned, todo, cur, phase, orphan, safe>>
     ELSE OwnerGone /\ UNCHANGED <<wpc, result>>
  /\ UNCHANGED <<actorVars, up, enters, readers, waiting, writer, marks, resumes, aborting,
                 fenced, cand, strays, cohort, wtodo, wcur, nodeVars, faults>>

\* The owner ends; the applicator's recovery_finish returns.
OwnerExit ==
  /\ opc = "exit" /\ OwnerGone
  /\ IF orphan THEN UNCHANGED <<wpc, cohort, wtodo, wcur, cand>> ELSE WorkerDone
  /\ UNCHANGED <<actorVars, up, enters, readers, waiting, writer, marks, resumes, aborting,
                 fenced, strays, result, nodeVars, faults>>

OwnerDie ==
  /\ opc # "none" /\ Fault /\ OwnerGone
  /\ UNCHANGED <<actorVars, up, enters, readers, waiting, writer, marks, resumes, aborting,
                 fenced, cand, strays, workerVars, nodeVars>>

-----------------------------------------------------------------------------
(* The applicator and the code server *)

\* load_prepared hands the whole prepared batch to the code server, which
\* finishes the request even if the applicator dies meanwhile.
LoadRequest ==
  /\ wpc = "load" /\ wpc' = "loading" /\ swap' = TRUE
  /\ UNCHANGED <<actorVars, gateVars, ownerVars, cohort, wtodo, wcur, result,
                 fence, code, vsn, faults>>

\* What the new code makes of each actor's state and of arguments in flight.
StaleAfterLoad(a) ==
  IF life[a] \notin {"init", "leaving", "ready", "suspended"} THEN {}
  ELSE {"index"} \cup {f \in {"fields"} : a \in Changed}

ArgsAfterLoad(a) ==
  CASE life[a] = "waiting" -> "parked" [] life[a] = "entering" -> "overtaken"
    [] OTHER -> args[a]

\* code:finish_loading is atomic: the whole batch or {error, _}.
CodeServer ==
  /\ swap /\ swap' = FALSE
  /\ \/ /\ code' = code + 1
        /\ stale' = [a \in Actors |-> StaleAfterLoad(a)]
        /\ args' = [a \in Actors |-> ArgsAfterLoad(a)]
        /\ wpc' = IF wpc = "loading" THEN "invalidate" ELSE wpc
     \/ /\ wpc' = IF wpc = "loading" THEN "rejected" ELSE wpc
        /\ UNCHANGED <<code, stale, args>>
  /\ UNCHANGED <<life, spawner, dep, gateVars, ownerVars, cohort, wtodo, wcur, result,
                 fence, vsn, faults>>

\* ridge_rt:invalidate_record_versions
Invalidate ==
  /\ wpc = "invalidate" /\ wpc' = "loaded"
  /\ UNCHANGED <<actorVars, gateVars, ownerVars, cohort, wtodo, wcur, result, nodeVars, faults>>

\* Mutant: an actor whose migration fails is resumed on its old state.
MigrateNextResumesOld(p) ==
  /\ wpc = "migrate" /\ p \in wtodo
  /\ wtodo' = wtodo \ {p}
  /\ \/ p \notin Changed /\ UNCHANGED <<life, stale>>
     \/ /\ p \in Changed /\ life[p] = "suspended"
        /\ stale' = [stale EXCEPT ![p] = @ \ {"fields"}]
        /\ UNCHANGED life
     \/ /\ p \in Changed /\ life[p] = "suspended"
        /\ life' = [life EXCEPT ![p] = "ready"] /\ UNCHANGED stale
  /\ UNCHANGED <<spawner, dep, args, gateVars, ownerVars, wpc, cohort, wcur, result,
                 nodeVars, faults>>

\* migrate_actors: change_code of every actor with a migration entry; failed
\* twice (or dead) the actor is gone.
MigrateNext(p) ==
  /\ wpc = "migrate" /\ p \in wtodo
  /\ wtodo' = wtodo \ {p}
  /\ \/ p \notin Changed /\ UNCHANGED <<life, stale>>
     \/ /\ p \in Changed /\ life[p] = "suspended"
        /\ stale' = [stale EXCEPT ![p] = @ \ {"fields"}]
        /\ UNCHANGED life
     \/ /\ p \in Changed
        /\ life' = Killed({p}) /\ UNCHANGED stale
  /\ UNCHANGED <<spawner, dep, args, gateVars, ownerVars, wpc, cohort, wcur, result,
                 nodeVars, faults>>

\* Mutant: only the actors with a migration entry are refreshed.
MigrateDoneChanged ==
  /\ wpc = "migrate" /\ wtodo = {}
  /\ wpc' = "refresh" /\ wtodo' = cohort \cap Changed
  /\ UNCHANGED <<actorVars, gateVars, ownerVars, cohort, wcur, result, nodeVars, faults>>

MigrateDone ==
  /\ wpc = "migrate" /\ wtodo = {}
  /\ wpc' = "refresh" /\ wtodo' = cohort
  /\ UNCHANGED <<actorVars, gateVars, ownerVars, cohort, wcur, result, nodeVars, faults>>

\* refresh_actor_collections: dead or refreshed actors are reported ready.
RefreshNext(p) ==
  /\ wpc = "refresh" /\ p \in wtodo
  /\ wtodo' = wtodo \ {p}
  /\ \/ /\ ~Alive(p)
        /\ wpc' = "ready" /\ wcur' = p /\ UNCHANGED <<life, stale>>
     \/ /\ life[p] = "suspended"
        /\ stale' = [stale EXCEPT ![p] = @ \ {"index"}]
        /\ wpc' = "ready" /\ wcur' = p /\ UNCHANGED life
     \/ /\ Alive(p)
        /\ life' = Killed({p}) /\ UNCHANGED <<stale, wpc, wcur>>
  /\ UNCHANGED <<spawner, dep, args, gateVars, ownerVars, cohort, result, nodeVars, faults>>

RefreshDone ==
  /\ wpc = "refresh" /\ wtodo = {}
  /\ wpc' = "complete"
  /\ UNCHANGED <<actorVars, gateVars, ownerVars, cohort, wtodo, wcur, result, nodeVars, faults>>

\* An exception in do_apply_owned outside a recovery_call.
WorkerRaise ==
  /\ wpc \in {"load", "invalidate", "migrate", "refresh"} /\ Fault
  /\ wpc' = "fail"
  /\ UNCHANGED <<actorVars, gateVars, ownerVars, cohort, wtodo, wcur, result, nodeVars>>

\* recovery_owner_lost: with a fence the journal is lost, so the whole census
\* is stopped.
Calls == {"starting", "suspend", "commit", "loaded", "ready", "complete", "rejected",
          "abort", "fail", "await"}

\* Mutant: the census is forgotten when the owner is lost.
OwnerLostForgets ==
  /\ wpc \in Calls /\ (opc = "none" \/ orphan)
  /\ WorkerDone
  /\ result' = IF result = "refused" THEN result ELSE "failed"
  /\ UNCHANGED <<actorVars, gateVars, opc, phase, owned, todo, cur, orphan,
                 safe, strays, nodeVars, faults>>

OwnerLost ==
  /\ wpc \in Calls /\ (opc = "none" \/ orphan)
  /\ life' = IF fence /\ wpc # "starting" THEN Killed(cand) ELSE life
  /\ WorkerDone
  /\ result' = IF result = "refused" THEN result ELSE "failed"
  /\ UNCHANGED <<spawner, dep, stale, args, gateVars, opc, phase, owned, todo, cur, orphan,
                 safe, strays, nodeVars, faults>>

\* The applicator (the admission server) dies; the next request starts a new one.
WorkerDie ==
  /\ wpc # "idle" /\ Fault
  /\ WorkerDone /\ result' = "failed"
  /\ IF wpc = "spawned"
     THEN strays' = strays + 1 /\ UNCHANGED orphan
     ELSE orphan' = (opc # "none") /\ UNCHANGED strays
  /\ UNCHANGED <<actorVars, gateVars, opc, phase, owned, todo, cur, safe, nodeVars>>

-----------------------------------------------------------------------------
ActorStep(a) ==
  \/ \E p \in Actors \cup {None} : Spawn(a, p)
  \/ BeginInit(a) \/ EndInit(a) \/ ActorCrash(a)

GateStep ==
  \/ \E a \in Actors : GateEnter(a) \/ GateLeave(a) \/ GateActorDown(a) \/ GateResumed(a)
  \/ GateOwnerDown

OwnerStep ==
  \/ OwnerRegister \/ StrayRegister \/ GateBegin \/ Census
  \/ OwnerSuspend \/ SuspendCall \/ GateSuspended \/ SuspendDone
  \/ \E p \in Actors : SuspendNext(p) \/ OwnerResume(p)
  \/ OwnerCommit \/ GateCheck \/ GateCommit \/ OwnerLoaded \/ OwnerReady \/ OwnerEnd
  \/ OwnerStop \/ GateAbort \/ OwnerPublish \/ OwnerSchedule \/ OwnerErase \/ GateFinish
  \/ OwnerGateLost \/ OwnerExit

WorkerStep ==
  \/ LoadRequest \/ CodeServer \/ Invalidate
  \/ \E p \in Actors : MigrateNext(p) \/ RefreshNext(p)
  \/ MigrateDone \/ RefreshDone \/ OwnerLost

FaultStep ==
  \/ GateDie \/ OwnerDie \/ WorkerDie \/ WorkerRaise
  \/ \E a \in Actors : ResumeWorkerDie(a)

Next ==
  \/ \E a \in Actors : ActorStep(a) \/ ResumeWorker(a)
  \/ GateStep \/ Admit \/ OwnerStep \/ WorkerStep \/ FaultStep

Spec == Init /\ [][Next]_vars

\* Every process that has something to do runs: the gate handles its
\* mailbox, the owner, the applicator, the code server and the resume
\* workers take their next step, and a user initializer returns once the actor
\* it asked has answered.  Nothing forces a spawn, a request, a crash or a fault.
Fairness ==
  /\ WF_vars(GateStep) /\ WF_vars(\E a \in Actors : GateEnter(a))
  /\ WF_vars(\E a \in Actors : BeginInit(a) \/ EndInit(a))
  /\ WF_vars(\E a \in Actors : ResumeWorker(a))
  /\ WF_vars(OwnerRegister) /\ WF_vars(StrayRegister) /\ WF_vars(OwnerStep)
  /\ WF_vars(CodeServer) /\ WF_vars(WorkerStep)

FairSpec == Spec /\ Fairness

-----------------------------------------------------------------------------
(* Properties *)

WorkerPcs == Calls \cup {"idle", "spawned", "load", "loading", "invalidate",
                         "migrate", "refresh"}
OwnerPcs == GateCalls \cup {"none", "begin", "census", "loop", "suspending", "suspend_call",
                            "stop", "resume", "schedule", "erase", "exit"}

ActorTypes ==
  /\ life \in [Actors -> Lives]
  /\ spawner \in [Actors -> Actors \cup {None}] /\ dep \in [Actors -> Actors \cup {None}]
  /\ stale \in [Actors -> SUBSET {"fields", "index"}]
  /\ args \in [Actors -> {"fresh", "parked", "overtaken"}]

\* Lives that hold a permission of the gate.
Permit == {"granted", "queued", "init", "leaving", "failing"}

GateTypes ==
  /\ enters \subseteq Actors /\ readers \subseteq Actors /\ waiting \subseteq Actors
  /\ marks \subseteq Actors
  /\ writer \in {"none", "preparing", "committing", "cancelled"}
  /\ resumes \in [Actors -> {"none", "pending", "ok", "gone", "error", "lost"}]
  /\ up => \A a \in Actors : life[a] \in Permit => a \in readers

OwnerTypes ==
  /\ opc \in OwnerPcs /\ phase \in {"precommit", "committing", "loaded"}
  /\ owned \in [Actors -> {"no", "restart", "false", "true"}]
  /\ cand \subseteq Actors /\ todo \subseteq Actors /\ cur \in Actors \cup {None}
  /\ strays \in Nat

WorkerTypes ==
  /\ wpc \in WorkerPcs /\ cohort \subseteq Actors /\ wtodo \subseteq Actors
  /\ wcur \in Actors \cup {None}
  /\ result \in {"none", "refused", "rejected", "required", "failed", "ok"}
  /\ code \in Nat /\ vsn \in Nat /\ faults \in Nat

Flags ==
  /\ up \in BOOLEAN /\ wlive \in BOOLEAN /\ aborting \in BOOLEAN /\ fenced \in BOOLEAN
  /\ orphan \in BOOLEAN /\ safe \in BOOLEAN /\ fence \in BOOLEAN /\ swap \in BOOLEAN

\* Every variable stays in its domain: the process states of ridge_rt and
\* ridge_loader are the ones their receive loops know, and the gate's readers are
\* whoever holds its permission, however it came by it.
TypeOK == ActorTypes /\ GateTypes /\ OwnerTypes /\ WorkerTypes /\ Flags

\* No actor runs user code (its initializer or a handler) on state that is
\* still in the form of older code, whatever dies in the middle of a reload
\* (hot-reload-design.md: it never resumes old state under potentially
\* different handlers).
NoStaleExecution ==
  \A a \in Actors : life[a] \in {"init", "leaving", "ready"} => stale[a] = {}

\* An initializer the gate had parked behind a load runs on migrated arguments.
ParkedArgsMigrated ==
  \A a \in Actors : life[a] = "init" => args[a] # "parked"

\* With no recovery owner and no fence the node is whole: the published version
\* is the loaded one, no load is under way and nobody is left suspended.  So a
\* node that accepts a reload or an initializer is never one that lost track.
UnfencedIsWhole ==
  opc = "none" /\ ~fence =>
    /\ vsn = code /\ ~swap
    /\ \A a \in Actors : life[a] # "suspended"

\* The two answers a client may build on are true when given: after ok and after
\* an explicit rejection the node is unfenced and its version is the loaded one.
AnswersAreTrue ==
  wpc = "idle" /\ result \in {"ok", "rejected"} => ~fence /\ vsn = code

\* No match of recovery_loop and abort_recovery can fail: loaded and {ready, Pid}
\* arrive in their phase and for a journalled actor, at complete every original
\* actor that is still alive has been reported ready, and a finish that follows a
\* safe settlement is answered ok (a failing match would kill the owner).
OwnerAssertions ==
  /\ opc = "loop" /\ ~orphan =>
       /\ wpc = "loaded" => phase = "committing"
       /\ wpc = "ready" => phase = "loaded" /\ owned[wcur] # "no"
       /\ wpc = "complete" =>
            /\ phase = "loaded"
            /\ \A a \in Actors : owned[a] # "no" /\ Alive(a) => owned[a] = "true"
  /\ opc = "finish" /\ up => Resuming = {} /\ ~fenced /\ ~fence

\* The code is swapped only while no initializer holds the gate and no actor
\* serves requests, even when the code server acts after its client died.
SwapAlone ==
  [][code' # code => \A a \in Actors :
        life[a] \notin {"granted", "queued", "init", "leaving", "failing", "ready"}]_vars

\* No actor stays suspended: with at most one fault somebody always resumes or
\* stops it.  (Two faults may strand it behind the fence, which
\* UnfencedIsWhole covers: simultaneous death of owner and applicator needs
\* the operator.)
SuspensionEnds ==
  (\E a \in Actors : life[a] = "suspended") ~> (\A a \in Actors : life[a] # "suspended")

\* Every initializer is answered and ends, although it may have to ask an actor
\* the reload has suspended, while its own spawner cannot be suspended.
StartsEnd ==
  (\E a \in Actors : life[a] \in Starting) ~> (\A a \in Actors : life[a] \notin Starting)

\* Every admitted reload is answered.
ReloadEnds == wpc # "idle" ~> wpc = "idle"

\* What the whole machinery implements: UpgradePromise, where an actor counts as
\* running from the grant of its initializer on, and the node is open when
\* neither an owner nor the fence would refuse a reload.
Running == {a \in Actors : life[a] \in {"granted", "queued", "init", "leaving", "ready"}}
Promise == INSTANCE UpgradePromise WITH
             running   <- Running,
             outdated  <- {a \in Actors : Alive(a) /\ stale[a] # {}},
             published <- vsn,
             open      <- (opc = "none" /\ ~fence)

\* The detailed specification implements the promise.
ImplementsPromise == Promise!Spec
=============================================================================
