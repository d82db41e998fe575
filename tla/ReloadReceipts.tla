--------------------------- MODULE ReloadReceipts ---------------------------
(***************************************************************************)
(* ridge reload --node: how a client that may crash, time out or lose an   *)
(* answer at any point finds out what became of its reload, without ever   *)
(* running it twice.                                                       *)
(*                                                                         *)
(*   clients    one workspace each: sources, a snapshot file, the journal  *)
(*              reload-pending.json and a lock, so one command at a time   *)
(*              (ridge-cli: reload.rs, reload_receipts.rs and its probe);  *)
(*   registry   the gen_server that hands out operations and keeps their   *)
(*              receipts (ridge_loader: receipt_request, receipt_event);   *)
(*   node       the admission server, reduced to what HotReload shows of   *)
(*              it: an operation raises the fence, loads, publishes and    *)
(*              drops the fence, or stops anywhere on the way.             *)
(*                                                                         *)
(* A request is a message that may be handled late or lost; its answer     *)
(* reaches the client only while the client still waits for it.            *)
(***************************************************************************)
EXTENDS Naturals, FiniteSets

CONSTANTS
  Workspaces,   \* the checkouts that reload this node
  Versions,     \* contents the sources may have; 0 runs at first
  None,         \* no journal, no operation, no snapshot
  Limit,        \* ?RECEIPT_LIMIT
  MaxOps,       \* bound: reservations
  MaxEdits,     \* bound: edits and builds by hand
  MaxFaults     \* bound: crashes, losses, expiries and failures

Ops == 1..MaxOps

\* What reload-pending.json says of an operation.
Journals == [id : Ops, inc : Nat, prev : Versions, cand : Versions \cup {None}]

\* A frozen payload, and the requests that carry one or name an operation.
Payloads == [w : Workspaces, base : Versions, new : Versions, built : Versions]
Requests == [kind : {"reserve", "query", "submit", "cancel"}, w : Workspaces, id : Ops \cup {None},
             inc : Nat, plan : Payloads \cup {None}]

\* What the registry keeps of an operation.
Statuses == {"reserved", "in_progress", "rejected", "applied", "recovery_required"}
Receipts == [status : Statuses, committed : BOOLEAN]

ASSUME ReceiptsAssumption ==
  /\ 0 \in Versions /\ None \notin Versions \cup Journals \cup Requests \cup Receipts
  /\ Limit \in Nat \ {0} /\ MaxOps \in Nat /\ MaxEdits \in Nat /\ MaxFaults \in Nat

VARIABLES
  ver,       \* ?VSN_KEY: the version the node says it runs
  code,      \* the version its code was compiled from
  fence,     \* ?ACTIVE_KEY is set or a recovery owner is registered
  gen,       \* evidence generation: loads so far
  run,       \* the admitted operation, or None
  calls,     \* per operation: calls waiting for admission
  orphans,   \* operations whose worker has died
  loads,     \* per operation: how often it has replaced code
  inc,       \* incarnation of the registry
  entries,   \* its receipts: operation -> receipt, or None
  events,    \* messages to the registry from workers and from admission
  view,      \* the receipt it is composing, with what it has read so far
  next,      \* next operation number
  plan,      \* per operation: its workspace and payload
  wire,      \* requests on the way
  src,       \* per workspace: its sources
  pc,        \* ... what its command is doing
  snap,      \* ... reload-snapshot.json: a version, or None
  journal,   \* ... reload-pending.json: a record, Torn, or None
  mem,       \* ... what the running command holds in memory
  ask,       \* ... the request it waits for, or None
  got,       \* ... the answer to it
  closed,    \* per operation: how its client has settled it
  edits,     \* edits and builds so far
  faults     \* faults so far

nodeVars   == <<ver, code, fence, gen, run, calls, orphans, loads>>
regVars    == <<inc, entries, events, view, next, plan>>
clientVars == <<src, pc, snap, journal, mem, ask, got, closed, edits>>
vars == <<nodeVars, regVars, wire, clientVars, faults>>

Fault == faults < MaxFaults /\ faults' = faults + 1

\* What the probe prints when it has no receipt.
NoReceipt == [status |-> "none"]

NoPlan == [prev |-> None, built |-> None, new |-> None, inc |-> 0, id |-> None]

\* A journal whose writing was interrupted: it does not parse.
Torn == [id |-> None, inc |-> 0, prev |-> None, cand |-> None]

Init ==
  /\ ver = 0 /\ code = 0 /\ fence = FALSE /\ gen = 0 /\ run = None
  /\ calls = [i \in Ops |-> 0] /\ orphans = {} /\ loads = [i \in Ops |-> 0]
  /\ inc = 1 /\ entries = [i \in Ops |-> None] /\ events = {} /\ view = None
  /\ next = 1 /\ plan = [i \in Ops |-> None] /\ wire = {}
  /\ src = [w \in Workspaces |-> 0] /\ pc = [w \in Workspaces |-> "idle"]
  /\ snap = [w \in Workspaces |-> 0] /\ journal = [w \in Workspaces |-> None]
  /\ mem = [w \in Workspaces |-> NoPlan] /\ ask = [w \in Workspaces |-> None]
  /\ got = [w \in Workspaces |-> NoReceipt] /\ closed = [i \in Ops |-> "open"]
  /\ edits = 0 /\ faults = 0

-----------------------------------------------------------------------------
(* The node *)

\* The worker of an operation passes the outcome on, unless it has died.
Result(i, out) == IF i \in orphans THEN {} ELSE {<<"result", i, out>>}

\* handle_call of the admission server: the call of a dead worker is skipped; a
\* reload still being recovered refuses it, a fence left behind asks for a
\* restart; a wrong base and preflight reject it.
Admit(i) ==
  /\ run = None \/ (run # None /\ run.told)
  /\ calls[i] > 0 /\ calls' = [calls EXCEPT ![i] = @ - 1]
  /\ \/ /\ i \in orphans
        /\ UNCHANGED <<run, fence, events>>
     \/ /\ i \notin orphans
        /\ events' = events \cup Result(i, IF run = None /\ fence THEN "failed" ELSE "rejected")
        /\ UNCHANGED <<run, fence>>
     \/ /\ i \notin orphans /\ run = None /\ ~fence /\ plan[i].base = ver
        /\ run' = [id |-> i, at |-> "prepared", told |-> FALSE] /\ fence' = TRUE
        /\ UNCHANGED events
  /\ UNCHANGED <<ver, code, gen, orphans, loads, inc, entries, view, next, plan, wire,
                 clientVars, faults>>

\* startup_rejected or a failed load: undone before any code was replaced.
Undo ==
  /\ run # None /\ run.at = "prepared"
  /\ run' = None /\ fence' = FALSE
  /\ events' = events \cup IF run.told THEN {} ELSE Result(run.id, "rejected")
  /\ UNCHANGED <<ver, code, gen, calls, orphans, loads, inc, entries, view, next, plan, wire,
                 clientVars, faults>>

\* load_and_invalidate.  The code server may finish the load for an applicator
\* that is gone; the owner then leaves the fence up.
Load ==
  /\ run # None /\ run.at = "prepared"
  /\ code' = plan[run.id].built /\ loads' = [loads EXCEPT ![run.id] = @ + 1]
  /\ IF run.told
     THEN run' = None /\ UNCHANGED <<gen, events>>
     ELSE /\ run' = [run EXCEPT !.at = "loaded"] /\ gen' = gen + 1
          /\ events' = events \cup {<<"committed", run.id, "none">>}
  /\ UNCHANGED <<ver, fence, calls, orphans, inc, entries, view, next, plan, wire,
                 clientVars, faults>>

\* complete_recovery publishes the version, then drops the fence.
Publish ==
  /\ run # None /\ run.at = "loaded"
  /\ ver' = plan[run.id].new /\ run' = [run EXCEPT !.at = "published"]
  /\ UNCHANGED <<code, fence, gen, calls, orphans, loads, regVars, wire, clientVars, faults>>

Unfence ==
  /\ run # None /\ run.at = "published"
  /\ fence' = FALSE /\ run' = None
  /\ events' = events \cup IF run.told THEN {} ELSE Result(run.id, "ok")
  /\ UNCHANGED <<ver, code, gen, calls, orphans, loads, inc, entries, view, next, plan, wire,
                 clientVars, faults>>

\* The applicator raises or dies; the recovery owner goes on from where it was.
ApplicatorFails ==
  /\ Fault /\ run # None /\ ~run.told
  /\ run' = [run EXCEPT !.told = TRUE]
  /\ events' = events \cup Result(run.id, "failed")
  /\ UNCHANGED <<ver, code, fence, gen, calls, orphans, loads, inc, entries, view, next, plan,
                 wire, clientVars>>

\* The owner gives up or dies as well: the fence stays until the node restarts.
RecoveryStuck ==
  /\ Fault /\ run # None
  /\ run' = None
  /\ events' = events \cup IF run.told THEN {} ELSE Result(run.id, "failed")
  /\ UNCHANGED <<ver, code, fence, gen, calls, orphans, loads, inc, entries, view, next, plan,
                 wire, clientVars>>

\* An operation's worker is killed; admission is not interrupted.
WorkerDies(i) ==
  /\ Fault /\ i \notin orphans
  /\ calls[i] > 0 \/ (run # None /\ run.id = i /\ ~run.told)
  /\ orphans' = orphans \cup {i} /\ events' = events \cup {<<"down", i, "none">>}
  /\ UNCHANGED <<ver, code, fence, gen, run, calls, loads, inc, entries, view, next, plan,
                 wire, clientVars>>

-----------------------------------------------------------------------------
(* The receipt registry *)

\* prune_receipts runs before every request: what has expired is gone, but
\* never a receipt in progress.
Expirable == {i \in Ops : entries[i] # None /\ entries[i].status # "in_progress"}

Prune(gone) == [i \in Ops |-> IF i \in gone THEN None ELSE entries[i]]

\* The answer reaches the client if it still waits for this request.
Answer(r, a) ==
  IF ask[r.w] = r
  THEN got' = [got EXCEPT ![r.w] = a] /\ ask' = [ask EXCEPT ![r.w] = None]
  ELSE UNCHANGED <<got, ask>>

\* receipt_view, first half: generation and version.
View(r, i) ==
  /\ view' = [r |-> r, id |-> i, gen |-> gen, ver |-> ver]
  /\ UNCHANGED <<got, ask>>

\* Submission and cancellation take effect on a reserved operation only.
StillReserved(e) == e.status = "reserved"

Refused(r) == Answer(r, NoReceipt) /\ UNCHANGED <<view, next, plan, calls>>

\* receipt_request, after prune_receipts has kept these receipts.
ReceiptRequest(r, kept) ==
  \/ /\ \/ r.inc # inc
        \/ r.kind = "reserve" /\ Cardinality({i \in Ops : kept[i] # None}) >= Limit
        \/ r.kind # "reserve" /\ kept[r.id] = None
     /\ Refused(r) /\ entries' = kept
  \/ /\ r.kind = "reserve" /\ r.inc = inc /\ next \in Ops
     /\ Cardinality({i \in Ops : kept[i] # None}) < Limit
     /\ next' = next + 1 /\ plan' = [plan EXCEPT ![next] = r.plan]
     /\ entries' = [kept EXCEPT ![next] = [status |-> "reserved", committed |-> FALSE]]
     /\ View(r, next) /\ UNCHANGED calls
  \/ /\ r.kind # "reserve" /\ r.inc = inc /\ kept[r.id] # None
     /\ LET acts == StillReserved(kept[r.id]) IN
        /\ entries' = [kept EXCEPT ![r.id].status =
                         IF acts /\ r.kind = "cancel" THEN "rejected"
                         ELSE IF acts /\ r.kind = "submit" THEN "in_progress" ELSE @]
        /\ calls' = IF acts /\ r.kind = "submit" THEN [calls EXCEPT ![r.id] = @ + 1] ELSE calls
     /\ View(r, r.id) /\ UNCHANGED <<next, plan>>

Handle(r) ==
  /\ view = None /\ r \in wire /\ wire' = wire \ {r}
  /\ \E gone \in SUBSET Expirable :
       /\ IF gone = {} THEN UNCHANGED faults ELSE Fault
       /\ ReceiptRequest(r, Prune(gone))
  /\ UNCHANGED <<ver, code, fence, gen, run, orphans, loads, inc, events, src, pc, snap,
                 journal, mem, closed, edits>>

\* receipt_view, second half: the fence, or a generation that has moved.
Reply ==
  /\ view # None /\ view' = None
  /\ Answer(view.r, [id |-> view.id, inc |-> inc, status |-> entries[view.id].status,
                     committed |-> entries[view.id].committed, new |-> plan[view.id].new,
                     ver |-> view.ver, fenced |-> fence \/ gen # view.gen])
  /\ UNCHANGED <<nodeVars, inc, entries, events, next, plan, wire, src, pc, snap, journal, mem,
                 closed, edits, faults>>

\* Mutant: the exit of a worker is not noticed.
SettleDeaf(e, kind, out) ==
  IF kind = "down" \/ e.status # "in_progress" THEN e
  ELSE IF kind = "committed" THEN [e EXCEPT !.committed = TRUE]
  ELSE [e EXCEPT !.status = CASE out = "ok" -> "applied" [] out = "rejected" -> "rejected"
                              [] OTHER -> "recovery_required",
                 !.committed = @ \/ out = "ok"]

\* Mutant: whatever is not a success is a rejection.
SettleOptimistic(e, kind, out) ==
  CASE kind = "committed" -> IF e.status \in {"in_progress", "recovery_required"}
                             THEN [e EXCEPT !.committed = TRUE] ELSE e
    [] OTHER -> IF e.status # "in_progress" THEN e
                ELSE [e EXCEPT !.status = IF out = "ok" THEN "applied" ELSE "rejected"]

\* receipt_event on the operation's receipt.
Settle(e, kind, out) ==
  CASE kind = "committed" -> IF e.status \in {"in_progress", "recovery_required"}
                             THEN [e EXCEPT !.committed = TRUE] ELSE e
    [] kind = "result" -> IF e.status # "in_progress" THEN e
                          ELSE [e EXCEPT !.status = CASE out = "ok" -> "applied"
                                                      [] out = "rejected" -> "rejected"
                                                      [] OTHER -> "recovery_required",
                                         !.committed = @ \/ out = "ok"]
    [] kind = "down" -> IF e.status # "in_progress" THEN e
                        ELSE [e EXCEPT !.status = "recovery_required"]

Event(m) ==
  /\ view = None /\ m \in events /\ events' = events \ {m}
  /\ entries' = [entries EXCEPT ![m[2]] = IF @ = None THEN None ELSE Settle(@, m[1], m[3])]
  /\ UNCHANGED <<nodeVars, inc, view, next, plan, wire, clientVars, faults>>

\* The registry dies; the next call starts another, with an incarnation of its own.
RegistryLost ==
  /\ Fault
  /\ inc' = inc + 1 /\ entries' = [i \in Ops |-> None] /\ events' = {} /\ view' = None
  /\ UNCHANGED <<nodeVars, next, plan, wire, clientVars>>

-----------------------------------------------------------------------------
(* The command line client *)

\* What a plan freezes, and the requests of a probe.
Payload(w) == [w |-> w, base |-> mem[w].prev, new |-> mem[w].new, built |-> mem[w].built]

Request(kind, w, i, incarnation, p) ==
  [kind |-> kind, w |-> w, id |-> i, inc |-> incarnation, plan |-> p]

Send(r) ==
  /\ wire' = wire \cup {r} /\ ask' = [ask EXCEPT ![r.w] = r]
  /\ got' = [got EXCEPT ![r.w] = NoReceipt]

Goto(w, l) == pc' = [pc EXCEPT ![w] = l]

\* Mutant: a command that ends leaves its probe waiting.
EndWaiting(w) ==
  /\ Goto(w, "idle") /\ mem' = [mem EXCEPT ![w] = NoPlan] /\ UNCHANGED <<ask, got>>

\* The command ends and releases the lock.
End(w) ==
  /\ Goto(w, "idle") /\ mem' = [mem EXCEPT ![w] = NoPlan]
  /\ ask' = [ask EXCEPT ![w] = None] /\ got' = [got EXCEPT ![w] = NoReceipt]

SetSnap(w, v) == snap' = [snap EXCEPT ![w] = v]

Pending(w) == journal[w] \notin {None, Torn}

\* Somebody edits the sources, or runs ridge build, which takes no lock.
Edit(w, v) ==
  /\ edits < MaxEdits /\ edits' = edits + 1
  /\ v # src[w] /\ src' = [src EXCEPT ![w] = v]
  /\ UNCHANGED <<nodeVars, regVars, wire, pc, snap, journal, mem, ask, got, closed, faults>>

Build(w) ==
  /\ edits < MaxEdits /\ edits' = edits + 1
  /\ snap[w] # src[w] /\ SetSnap(w, src[w])
  /\ UNCHANGED <<nodeVars, regVars, wire, src, pc, journal, mem, ask, got, closed, faults>>

\* execute_apply: a pending operation is queried first.  A journal that cannot
\* be read, or a missing baseline, ends the command.
Start(w) ==
  /\ pc[w] = "idle"
  /\ \/ /\ Pending(w)
        /\ Goto(w, "recover") /\ UNCHANGED mem
        /\ Send(Request("query", w, journal[w].id, journal[w].inc, None))
     \/ /\ journal[w] = None /\ snap[w] # None
        /\ Goto(w, "compile")
        /\ mem' = [mem EXCEPT ![w] = [NoPlan EXCEPT !.prev = snap[w], !.inc = inc]]
        /\ UNCHANGED <<wire, ask, got>>
  /\ UNCHANGED <<nodeVars, regVars, src, snap, journal, closed, edits, faults>>

\* compile_workspace writes the beams and the snapshot of what it has read.
Compile(w) ==
  /\ pc[w] = "compile"
  /\ SetSnap(w, src[w]) /\ mem' = [mem EXCEPT ![w].built = src[w]] /\ Goto(w, "plan")
  /\ UNCHANGED <<nodeVars, regVars, wire, src, journal, ask, got, closed, edits, faults>>

\* plan_reload reads the sources again: nothing to do, a rejected edit (the
\* baseline is restored), or a manifest, whose payload is frozen and reserved.
PlanReload(w) ==
  /\ pc[w] = "plan" /\ mem' = [mem EXCEPT ![w].new = src[w]]
  /\ \/ /\ src[w] = mem[w].prev
        /\ Goto(w, "nothing") /\ UNCHANGED <<wire, ask, got, snap>>
     \/ /\ src[w] # mem[w].prev
        /\ Goto(w, "rejected") /\ SetSnap(w, mem[w].prev) /\ UNCHANGED <<wire, ask, got>>
     \/ /\ src[w] # mem[w].prev
        /\ Goto(w, "reserve") /\ UNCHANGED snap
        /\ Send(Request("reserve", w, None, mem[w].inc, [Payload(w) EXCEPT !.new = src[w]]))
  /\ UNCHANGED <<nodeVars, regVars, src, journal, closed, edits, faults>>

Exit(w) ==
  /\ pc[w] \in {"nothing", "rejected"} /\ End(w)
  /\ UNCHANGED <<nodeVars, regVars, wire, src, snap, journal, closed, edits, faults>>

Reserved(w) ==
  /\ pc[w] = "reserve" /\ ask[w] = None
  /\ IF got[w].status = "reserved"
     THEN Goto(w, "save") /\ mem' = [mem EXCEPT ![w].id = got[w].id] /\ UNCHANGED <<ask, got, snap>>
     ELSE End(w) /\ SetSnap(w, mem[w].prev)
  /\ UNCHANGED <<nodeVars, regVars, wire, src, journal, closed, edits, faults>>

Record(w) == [id |-> mem[w].id, inc |-> mem[w].inc, prev |-> mem[w].prev, cand |-> snap[w]]

\* Mutant: the operation is dispatched without a journal.
SavePendingSkipped(w) ==
  /\ pc[w] = "save"
  /\ Send(Request("submit", w, mem[w].id, mem[w].inc, None)) /\ Goto(w, "await")
  /\ UNCHANGED <<nodeVars, regVars, src, snap, journal, mem, closed, edits, faults>>

\* save_pending: the candidate is the snapshot now on disk.
SavePending(w) ==
  /\ pc[w] = "save"
  /\ journal' = [journal EXCEPT ![w] = Record(w)] /\ Goto(w, "submit")
  /\ UNCHANGED <<nodeVars, regVars, wire, src, snap, mem, ask, got, closed, edits, faults>>

SaveFails(w) ==
  /\ Fault /\ pc[w] = "save"
  /\ \E j \in {None, Torn} : journal' = [journal EXCEPT ![w] = j]
  /\ End(w) /\ SetSnap(w, mem[w].prev)
  /\ UNCHANGED <<nodeVars, regVars, wire, src, closed, edits>>

Submit(w) ==
  /\ pc[w] = "submit" /\ Goto(w, "await")
  /\ Send(Request("submit", w, mem[w].id, mem[w].inc, None))
  /\ UNCHANGED <<nodeVars, regVars, src, snap, journal, mem, closed, edits, faults>>

\* The probe's Wait loop, and its cancellation of what was never submitted.
Poll(w) ==
  /\ pc[w] \in {"await", "recover"} /\ ask[w] = None
  /\ \/ /\ got[w].status = "in_progress"
        /\ Send(Request("query", w, got[w].id, got[w].inc, None))
     \/ /\ pc[w] = "recover" /\ got[w].status = "reserved"
        /\ Send(Request("cancel", w, journal[w].id, journal[w].inc, None))
  /\ UNCHANGED <<nodeVars, regVars, src, pc, snap, journal, mem, closed, edits, faults>>

\* Mutant: a receipt that is not in progress any more settles the operation.
ResolutionHasty(j, g) ==
  CASE g.status = "none" \/ g.id # j.id \/ g.inc # j.inc -> "unknown"
    [] OTHER -> IF g.status = "applied" THEN "applied"
                ELSE IF g.status \in {"rejected", "recovery_required"} THEN "rejected"
                ELSE "unknown"

Resolution(j, g) ==
  IF g.status = "none" \/ g.id # j.id \/ g.inc # j.inc THEN "unknown"
  ELSE CASE /\ g.status = "applied" /\ g.committed /\ ~g.fenced
            /\ g.new = j.cand /\ g.ver = j.cand -> "applied"
         [] g.status = "rejected" /\ ~g.committed /\ ~g.fenced /\ g.ver = j.prev -> "rejected"
         [] OTHER -> "unknown"

\* finish: restore a snapshot and unlink the journal, or invalidate the snapshot
\* and keep the journal.  A deadline may end the wait for an operation in progress.
Finish(w) ==
  /\ pc[w] \in {"await", "recover"} /\ ask[w] = None
  /\ ~(pc[w] = "recover" /\ got[w].status = "reserved")
  /\ LET r == Resolution(journal[w], got[w]) IN
     IF r = "unknown" THEN SetSnap(w, None) /\ End(w)
     ELSE /\ SetSnap(w, IF r = "applied" THEN journal[w].cand ELSE journal[w].prev)
          /\ Goto(w, "unlink") /\ UNCHANGED <<mem, ask, got>>
  /\ UNCHANGED <<nodeVars, regVars, wire, src, journal, closed, edits, faults>>

\* ... and recover_reload_snapshot, which runs after a rejected first attempt.
Unlink(w) ==
  /\ pc[w] = "unlink" /\ journal' = [journal EXCEPT ![w] = None]
  /\ LET r == Resolution(journal[w], got[w]) IN
     /\ closed' = [closed EXCEPT ![journal[w].id] = r]
     /\ IF r = "rejected" /\ mem[w].id # None THEN SetSnap(w, mem[w].prev) ELSE UNCHANGED snap
  /\ End(w)
  /\ UNCHANGED <<nodeVars, regVars, wire, src, edits, faults>>

\* The client is killed; a half-written journal stays behind.
Crash(w) ==
  /\ Fault /\ pc[w] # "idle" /\ End(w)
  /\ \E j \in {journal[w]} \cup IF pc[w] = "save" THEN {Torn} ELSE {} :
       journal' = [journal EXCEPT ![w] = j]
  /\ UNCHANGED <<nodeVars, regVars, wire, src, snap, closed, edits>>

\* The probe gives up: the request may still be handled, nobody hears of it.
Timeout(w) ==
  /\ Fault /\ ask[w] # None
  /\ ask' = [ask EXCEPT ![w] = None] /\ got' = [got EXCEPT ![w] = NoReceipt]
  /\ UNCHANGED <<nodeVars, regVars, wire, src, pc, snap, journal, mem, closed, edits>>

\* The documented way out: rebuild, restart the node, remove the journal.
Redeploy(w) ==
  /\ Fault /\ pc[w] = "idle" /\ journal[w] # None
  /\ SetSnap(w, src[w]) /\ journal' = [journal EXCEPT ![w] = None]
  /\ ver' = src[w] /\ code' = src[w] /\ fence' = FALSE /\ run' = None /\ gen' = 0
  /\ calls' = [i \in Ops |-> 0] /\ orphans' = {} /\ events' = {} /\ view' = None
  /\ inc' = inc + 1 /\ entries' = [i \in Ops |-> None]
  /\ UNCHANGED <<loads, next, plan, wire, src, pc, mem, ask, got, closed, edits>>

-----------------------------------------------------------------------------
NodeStep ==
  \/ \E i \in Ops : Admit(i) \/ WorkerDies(i)
  \/ Undo \/ Load \/ Publish \/ Unfence \/ ApplicatorFails \/ RecoveryStuck

RegistryStep ==
  \/ \E r \in wire : Handle(r)
  \/ \E m \in events : Event(m)
  \/ Reply \/ RegistryLost

ClientStep(w) ==
  \/ Start(w) \/ Compile(w) \/ PlanReload(w) \/ Exit(w) \/ Reserved(w) \/ SavePending(w)
  \/ SaveFails(w) \/ Submit(w) \/ Poll(w) \/ Finish(w) \/ Unlink(w) \/ Crash(w) \/ Timeout(w)

Next ==
  \/ NodeStep \/ RegistryStep
  \/ \E w \in Workspaces :
       \/ ClientStep(w) \/ Build(w) \/ Redeploy(w)
       \/ \E v \in Versions : Edit(w, v)

Spec == Init /\ [][Next]_vars

\* Processes that are alive take their steps, the registry's mailbox is served
\* in turn and the user repeats the command; nothing has to fail, and nobody has
\* to edit, build or redeploy.
FairSpec ==
  /\ Spec
  /\ WF_vars(Undo \/ Load \/ Publish \/ Unfence) /\ WF_vars(Reply)
  /\ WF_vars(\E i \in Ops : Admit(i)) /\ SF_vars(\E m \in events : Event(m))
  /\ \A w \in Workspaces :
       /\ SF_vars(\E r \in wire : r.w = w /\ Handle(r))
       /\ WF_vars(\/ Start(w) \/ Compile(w) \/ PlanReload(w) \/ Exit(w) \/ Reserved(w)
                  \/ SavePending(w) \/ Submit(w) \/ Poll(w) \/ Finish(w) \/ Unlink(w))

-----------------------------------------------------------------------------
(* Properties *)

\* Every variable stays in its domain.
TypeOK ==
  /\ ver \in Versions /\ code \in Versions /\ fence \in BOOLEAN /\ gen \in Nat
  /\ run = None \/ (run.id \in Ops /\ run.at \in {"prepared", "loaded", "published"})
  /\ \A i \in Ops : calls[i] \in {0, 1} /\ loads[i] \in {0, 1}
  /\ \A i \in Ops : entries[i] = None \/ entries[i].status \in Statuses
  /\ \A w \in Workspaces :
       /\ src[w] \in Versions /\ snap[w] \in Versions \cup {None}
       /\ Pending(w) => journal[w].id \in 1..next - 1 /\ plan[journal[w].id].w = w
       /\ pc[w] \in {"idle", "compile", "plan", "nothing", "rejected", "reserve", "save", "submit",
                     "await", "recover", "unlink"}
       /\ ask[w] # None => pc[w] \in {"reserve", "await", "recover"}

\* An operation that may still replace code: waiting for admission, admitted, or
\* on its way to a registry that would accept it.
InFlight(i) ==
  \/ calls[i] > 0 \/ (run # None /\ run.id = i)
  \/ \E r \in wire : /\ r.kind = "submit" /\ r.id = i /\ r.inc = inc
                     /\ entries[i] # None /\ entries[i].status = "reserved"

\* Journal before dispatch: whatever crashes, an operation that may still replace
\* code is in the journal of its workspace, so the next command asks about it
\* instead of planning another reload ("cannot cause a second application").
Journalled ==
  \A i \in Ops : InFlight(i) => Pending(plan[i].w) /\ journal[plan[i].w].id = i

\* A receipt tells the truth, however results, phases and exits overtake each
\* other: a rejected operation has not replaced code and never will, an applied
\* one has done so once and is over.
ReceiptsTrue ==
  \A i \in Ops : entries[i] # None =>
    /\ entries[i].status \in {"reserved", "rejected"} => loads[i] = 0 /\ calls[i] = 0
    /\ entries[i].status = "rejected" => ~InFlight(i)
    /\ entries[i].status = "applied" => loads[i] = 1 /\ ~InFlight(i)

\* A client settles an operation only the way it ended, also when its submission
\* is still on the wire or its receipt has expired since.
ClosedTrue ==
  \A i \in Ops : /\ closed[i] = "rejected" => loads[i] = 0 /\ ~InFlight(i)
                 /\ closed[i] = "applied" => loads[i] = 1 /\ ~InFlight(i)

\* Why a query may be unable to settle an operation: its receipt is gone,
\* recovery is required or the node has moved on.
Unprovable(w) ==
  LET j == journal[w] IN
  \/ j.inc # inc \/ entries[j.id] = None \/ fence
  \/ entries[j.id].status = "recovery_required"
  \/ entries[j.id].status = "rejected" /\ ver # j.prev
  \/ entries[j.id].status = "applied" /\ (ver # j.cand \/ plan[j.id].new # j.cand)

\* Repeating the command settles a pending operation in the end, unless its
\* outcome cannot be proved: no wait of client, registry and admission is endless.
PendingSettles ==
  \A w \in Workspaces : []<>(~Pending(w) \/ Unprovable(w))

\* "The node tracks the version of the code it runs": a node without a fence runs
\* the code its version names.
VersionIsCode == ~fence => ver = code
=============================================================================
