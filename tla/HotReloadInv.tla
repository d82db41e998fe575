---------------------------- MODULE HotReloadInv ----------------------------
(***************************************************************************)
(* The inductive invariant behind the safety properties of HotReload.      *)
(***************************************************************************)
EXTENDS HotReload

\* Lives that hold a permission of the gate or run user code.
Exec   == Permit \cup {"ready"}

\* The owner holds a reload session of the gate.
Active == {"census", "loop", "suspending", "suspend_call", "confirm", "check", "commit_call",
           "stop", "abort", "abort_wait", "resume", "schedule", "erase", "finish", "finish_bad"}

\* The load may happen, is happening or has happened unconfirmed.
Loading == swap \/ wpc \in {"load", "loading", "invalidate", "loaded"}

\* ... or is confirmed and not published.
Unpublished == Loading \/ code # vsn

\* The gate admits a reload only when there is no initializer with its permission
\* and no resume worker.
GateInv ==
  /\ writer \in {"preparing", "committing"} => readers = {}
  /\ writer # "none" => up
  /\ writer = "committing" =>
       /\ opc \notin {"census", "suspending", "suspend_call", "confirm", "check", "commit_call"}
       /\ opc = "loop" => phase # "precommit"
  /\ opc \in Active /\ up /\ phase # "precommit" => writer = "committing"
  /\ opc \in {"erase", "finish"} /\ up => ~fenced /\ \A a \in Actors : resumes[a] = "none"
  /\ opc \in {"abort_wait", "erase", "finish"} /\ up => writer # "preparing"
  /\ opc = "finish" => ~fence
  /\ fenced => writer \in {"none", "cancelled"}
  /\ (\E a \in Actors : resumes[a] # "none") => writer = "cancelled" \/ fenced \/ ~up
  /\ wlive => writer # "none" /\ opc \in Active \cup {"exit"}
  /\ opc \in Active /\ up => wlive
  /\ \A a \in Actors : args[a] = "parked" => life[a] \in {"waiting", "queued", "failing", "dead"}

\* While the reload is preparing, the actors that still run are the ones the
\* suspend loop has not reached.
PrepareInv ==
  writer = "preparing" =>
    \A a \in Actors : life[a] = "ready" =>
      /\ opc = "loop" /\ ~orphan /\ wpc = "suspend" => a \in cand
      /\ opc \in {"suspending", "confirm"} => a \in todo
      /\ opc = "suspend_call" => a \in todo \cup {cur}
      /\ opc = "loop" /\ ~orphan /\ wpc = "commit" => FALSE
      /\ opc \notin {"check", "commit_call"}

\* Nothing runs while the load may happen; from the grant to the publication
\* the fence is up, the gate lets nobody in and no resume worker is at work.
LoadInv ==
  /\ Unpublished =>
       /\ fence /\ writer \in {"none", "committing"}
       /\ \A a \in Actors : resumes[a] # "pending"
       /\ opc \in {"none", "begin", "loop", "stop", "resume", "finish_bad", "exit"}
       /\ opc \in {"loop", "stop", "resume", "finish_bad"} => phase # "precommit"
  /\ Loading =>
       /\ \A a \in Actors : life[a] \notin Exec /\ owned[a] # "true"
       /\ phase = "loaded" => opc \in {"none", "begin", "exit"}
  /\ opc = "resume" => phase = "loaded"
  /\ opc = "finish_bad" => phase # "loaded"
  /\ opc \in {"schedule", "erase", "finish"} => phase # "committing"
  /\ opc = "schedule" => phase = "loaded"
  /\ opc \in {"census", "suspending", "suspend_call", "confirm", "check", "commit_call",
              "abort", "abort_wait"} => phase = "precommit"
  /\ opc = "begin" => phase = "precommit"
  /\ phase = "loaded" /\ opc \in {"loop", "stop", "resume"} => code = vsn + 1
  /\ wpc \in {"invalidate", "loaded", "migrate", "refresh", "ready"} => code = vsn + 1
  /\ swap \/ wpc \in {"load", "loading", "rejected"} => code = vsn
  /\ code \in {vsn, vsn + 1}
  /\ swap => wpc \in {"loading", "idle"}
  /\ wpc = "loading" => swap
  /\ opc = "loop" /\ ~orphan /\ wpc \in {"load", "loading", "invalidate", "loaded", "rejected"}
       => phase = "committing"
  /\ opc = "loop" /\ ~orphan /\ wpc \in {"migrate", "refresh", "ready", "complete"}
       => phase = "loaded"
  /\ opc = "loop" /\ ~orphan /\ wpc \in {"suspend", "commit", "abort"} => phase = "precommit"

\* Which applicator steps go with which owner steps, and when the fence is up.
PairInv ==
  /\ opc \in Active /\ ~orphan =>
       wpc \in Calls \cup {"load", "loading", "invalidate", "migrate", "refresh"}
  /\ opc \in Active /\ orphan =>
       wpc \notin {"commit", "load", "loading", "invalidate", "loaded", "migrate", "refresh",
                  "ready"}
  /\ opc \in {"begin", "census"} /\ ~orphan => wpc = "starting"
  /\ opc \in {"suspending", "suspend_call", "confirm"} /\ ~orphan => wpc = "suspend"
  /\ opc \in {"check", "commit_call"} /\ ~orphan => wpc = "commit"
  /\ opc \in {"stop", "abort", "abort_wait", "resume", "schedule", "erase", "finish",
              "finish_bad"} /\ ~orphan =>
       wpc \in {"starting", "abort", "fail", "rejected", "complete"}
  /\ opc = "exit" /\ ~orphan => wpc = "await"
  /\ opc = "loop" /\ ~orphan => wpc \notin {"starting", "await"}
  /\ wpc \in {"commit", "load", "loading", "invalidate", "loaded", "migrate", "refresh", "ready"}
       => fence
  /\ opc \in {"suspending", "suspend_call", "confirm", "check", "commit_call"} => fence
  /\ cur # None \/ opc \notin {"suspend_call", "confirm"}

\* State in the form of older code belongs to a halted actor, and the owner
\* resumes only converted ones.
StaleInv ==
  /\ \A a \in Actors : life[a] \notin {"suspended", "dead"} => stale[a] = {}
  /\ code = vsn => \A a \in Actors : life[a] # "dead" => stale[a] = {}
  /\ \A a \in Actors : owned[a] = "true" => phase = "loaded" /\ (life[a] = "dead" \/ stale[a] = {})
  /\ \A a \in Actors : a \notin Changed => "fields" \notin stale[a]
  /\ (\E a \in Actors : Alive(a) /\ stale[a] # {}) => \A a \in Actors : life[a] \notin Exec
  /\ wtodo \subseteq cohort
  /\ wpc \in {"idle", "spawned", "starting", "suspend"} => wtodo = {}
  /\ wpc = "migrate" =>
       \A a \in cohort \ wtodo : life[a] = "dead" \/ "fields" \notin stale[a]
  /\ wpc \in {"refresh", "ready"} =>
       \A a \in cohort : life[a] = "dead" \/ "fields" \notin stale[a]
  /\ wpc = "ready" => wcur # None /\ (life[wcur] = "dead" \/ stale[wcur] = {})

\* Who answers for a suspended actor.
SuspendInv ==
  /\ ~fence => \A a \in Actors : life[a] # "suspended"
  /\ opc \in Active => \A a \in Actors : life[a] = "suspended" => owned[a] # "no"
  /\ opc \in Active \ {"resume", "schedule", "finish_bad"} /\ up /\ phase # "loaded" =>
       \A a \in Actors : life[a] = "suspended" =>
         a \in marks \/ resumes[a] \in {"pending", "lost"} \/ (opc = "confirm" /\ a = cur)
  /\ opc = "abort_wait" => marks = {}
  /\ opc = "resume" => \A a \in Actors : life[a] = "suspended" => a \in todo
  /\ opc = "resume" => \A a \in todo : owned[a] = "true"
  /\ opc \in {"schedule", "erase", "finish"} => \A a \in Actors : life[a] # "suspended"
  /\ wpc \in {"await", "idle"} /\ result \in {"ok", "rejected"} => ~fence
  /\ opc = "none" => \A a \in Actors : owned[a] = "no"

\* The owner's journal against the cohort and the loops of the applicator.
JournalInv ==
  /\ \A a \in Actors : life[a] = "unborn" => owned[a] = "no" /\ a \notin cohort /\ a # wcur
  /\ opc \in {"begin", "census"} \/ (opc = "loop" /\ ~orphan /\ wpc = "suspend") =>
       \A a \in Actors : owned[a] = "no"
  /\ opc \in {"suspending", "confirm"} => \A a \in Actors : owned[a] \in {"no", "false"}
  /\ opc = "suspend_call" => \A a \in Actors : a # cur => owned[a] \in {"no", "false"}
  /\ ~orphan /\ (\/ opc \in {"check", "commit_call"}
                 \/ opc = "loop" /\ wpc \in {"commit", "load", "loading", "invalidate",
                                             "loaded", "migrate"}) =>
       \A a \in Actors : owned[a] = IF a \in cohort THEN "false" ELSE "no"
  /\ opc = "loop" /\ ~orphan /\ wpc \in {"refresh", "ready"} =>
       \A a \in cohort : owned[a] # "no"
  /\ wpc = "ready" => wcur \in cohort
  /\ opc = "loop" /\ ~orphan /\ wpc \in {"refresh", "ready", "complete"} =>
       \A a \in Actors : owned[a] # "no" /\ Alive(a) =>
         \/ owned[a] = "true"
         \/ wpc # "complete" /\ a \in wtodo
         \/ wpc = "ready" /\ a = wcur

IInv == TypeOK /\ GateInv /\ PrepareInv /\ LoadInv /\ PairInv /\ StaleInv /\ SuspendInv
        /\ JournalInv
=============================================================================
