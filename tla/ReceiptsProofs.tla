---------------------------- MODULE ReceiptsProofs ----------------------------
(***************************************************************************)
(* Theorems about ReloadReceipts for every number of workspaces, versions, *)
(* operations and faults.  They rest on one notion: an operation is Final  *)
(* when it has replaced code n times and can do so no more.  Nothing makes *)
(* a Final operation start again, so what is said of one (an event on its  *)
(* way to the registry, a receipt, an answer a client holds, a settled     *)
(* journal) stays true however late it is read.                            *)
(***************************************************************************)
EXTENDS ReloadReceipts, FiniteSetTheorems, TLAPS

Plans == [prev : Versions \cup {None}, built : Versions \cup {None}, new : Versions \cup {None},
          inc : Nat, id : Ops \cup {None}]
Answers == [id : Ops, inc : Nat, status : Statuses, committed : BOOLEAN, new : Versions,
            ver : Versions, fenced : BOOLEAN]
Runs == [id : Ops, at : {"prepared", "loaded", "published"}, told : BOOLEAN]
Events == {"result", "committed", "down"} \X Ops \X {"ok", "rejected", "failed", "none"}
Pcs == {"idle", "compile", "plan", "nothing", "rejected", "reserve", "save", "submit",
        "await", "recover", "unlink"}

\* The operations of workspace w.
Of(w) == {i \in Ops : i < next /\ plan[i] \in Payloads /\ plan[i].w = w}

\* What r asks for exists, and belongs to the workspace that asks.
Proper(r) ==
  IF r.kind = "reserve" THEN r.plan \in Payloads /\ r.plan.w = r.w ELSE r.id \in Of(r.w)

NodeTypes ==
  /\ ver \in Versions /\ code \in Versions /\ fence \in BOOLEAN /\ gen \in Nat
  /\ run \in Runs \cup {None}
  /\ calls \in [Ops -> {0, 1}] /\ loads \in [Ops -> {0, 1}] /\ orphans \in SUBSET Ops

\* The registry composes an answer from a receipt it has.
ViewOk ==
  view # None => /\ view.r \in Requests /\ view.gen \in Nat /\ view.ver \in Versions
                 /\ entries[view.id] # None /\ view.id \in Of(view.r.w)

RegistryTypes ==
  /\ inc \in Nat /\ next \in 1..(MaxOps + 1)
  /\ entries \in [Ops -> Receipts \cup {None}]
  /\ events \in SUBSET Events
  /\ plan \in [Ops -> Payloads \cup {None}] /\ \A i \in Ops : i < next => plan[i] \in Payloads
  /\ wire \in SUBSET Requests
  /\ ViewOk

ClientTypes ==
  /\ src \in [Workspaces -> Versions] /\ pc \in [Workspaces -> Pcs]
  /\ snap \in [Workspaces -> Versions \cup {None}]
  /\ journal \in [Workspaces -> Journals \cup {None, Torn}]
  /\ mem \in [Workspaces -> Plans]
  /\ ask \in [Workspaces -> Requests \cup {None}]
  /\ got \in [Workspaces -> Answers \cup {NoReceipt}]
  /\ closed \in [Ops -> {"open", "applied", "rejected"}]
  /\ edits \in Nat /\ faults \in Nat

Types == NodeTypes /\ RegistryTypes /\ ClientTypes

Running(i) == run # None /\ run.id = i
Over(i) == calls[i] = 0 /\ ~Running(i)
Unreserved(i) == entries[i] # None => entries[i].status # "reserved"

\* Operation i is over for good, and has replaced code n times.
Final(i, n) == loads[i] = n /\ Over(i) /\ Unreserved(i)

Once ==
  \A i \in Ops :
    /\ calls[i] = 1 => loads[i] = 0 /\ ~Running(i)
    /\ Running(i) => loads[i] = IF run.at = "prepared" THEN 0 ELSE 1
    /\ ~Unreserved(i) => loads[i] = 0 /\ Over(i)
    /\ i >= next => loads[i] = 0 /\ Over(i) /\ entries[i] = None /\ closed[i] = "open"

EventsTrue ==
  \A m \in events :
    /\ m[2] < next /\ Unreserved(m[2])
    /\ m[1] = "result" /\ m[3] = "ok" => Final(m[2], 1)
    /\ m[1] = "result" /\ m[3] = "rejected" => Final(m[2], 0)

StatusTrue(i, status) ==
  (status = "applied" => Final(i, 1)) /\ (status = "rejected" => Final(i, 0))

EntriesTrue == \A i \in Ops : entries[i] # None => StatusTrue(i, entries[i].status)
ClosedFinal == \A i \in Ops : StatusTrue(i, closed[i])
WireProper == \A r \in wire : Proper(r)

\* A command at p, with journal j, memory m, request a and answer g.
ClientOk(w, p, j, m, a, g) ==
  /\ j \notin {None, Torn} => j.id \in Of(w)
  /\ a # None => Proper(a) /\ a.w = w /\ p \in {"reserve", "await", "recover"}
  /\ g.status # "none" => g.id \in Of(w) /\ StatusTrue(g.id, g.status)
  /\ p \in {"compile", "plan", "reserve", "save"} => j = None
  /\ p \in {"compile", "plan", "rejected", "reserve", "save", "submit"} => m.prev \in Versions
  /\ p = "plan" => m.built \in Versions
  /\ p \in {"save", "submit"} => m.id \in Of(w)
  /\ p \in {"submit", "await", "recover", "unlink"} => j \notin {None, Torn}
  /\ p = "submit" => j.id = m.id
  /\ p = "unlink" => Resolution(j, g) # "unknown"

ClientInv == \A w \in Workspaces : ClientOk(w, pc[w], journal[w], mem[w], ask[w], got[w])

ReceiptsInv == Types /\ Once /\ EventsTrue /\ EntriesTrue /\ ClosedFinal /\ WireProper
               /\ ClientInv /\ Journalled

-----------------------------------------------------------------------------
(* What the steps leave alone. *)

LEMMA Base == /\ Ops \subseteq Nat /\ \A i \in Ops : i >= 1 /\ i <= MaxOps
              /\ MaxOps \in Nat /\ 0 \in Versions /\ None \notin Versions /\ None \notin Journals
              /\ None \notin Requests /\ None \notin Receipts
BY ReceiptsAssumption DEF Ops

\* The commands and their users see the node through their requests only.
ClientActs(w) ==
  ClientStep(w) \/ Build(w) \/ \E v \in Versions : Edit(w, v)

LEMMA ClientsApart ==
  ASSUME NEW w \in Workspaces, ClientActs(w)
  PROVE  UNCHANGED <<ver, code, fence, gen, run, calls, orphans, loads,
                     inc, entries, events, view, next, plan>>
<1> USE DEF nodeVars, regVars
<1>1. CASE Start(w) \/ Compile(w) \/ PlanReload(w) \/ Exit(w) \/ Reserved(w)
  BY <1>1 DEF Start, Compile, PlanReload, Exit, Reserved
<1>2. CASE SavePending(w) \/ SaveFails(w) \/ Submit(w) \/ Poll(w) \/ Finish(w)
  BY <1>2 DEF SavePending, SaveFails, Submit, Poll, Finish
<1>3. CASE Unlink(w) \/ Crash(w) \/ Timeout(w) \/ Build(w) \/ \E v \in Versions : Edit(w, v)
  BY <1>3 DEF Unlink, Crash, Timeout, Build, Edit
<1> QED  BY <1>1, <1>2, <1>3 DEF ClientActs, ClientStep

LEMMA NodeApart ==
  ASSUME NodeStep
  PROVE  UNCHANGED <<inc, entries, view, next, plan, wire, clientVars>>
<1> USE DEF regVars
<1>1. CASE \E i \in Ops : Admit(i) \/ WorkerDies(i)
  BY <1>1 DEF Admit, WorkerDies
<1>2. CASE Undo \/ Load \/ Publish
  BY <1>2 DEF Undo, Load, Publish
<1>3. CASE Unfence \/ ApplicatorFails \/ RecoveryStuck
  BY <1>3 DEF Unfence, ApplicatorFails, RecoveryStuck
<1> QED  BY <1>1, <1>2, <1>3 DEF NodeStep

\* The operations the registry has handed out stay handed out.
LEMMA OfKept ==
  ASSUME Types, [Next]_vars, NEW w \in Workspaces
  PROVE  Of(w) \subseteq Of(w)'
<1>1. CASE UNCHANGED <<next, plan>>
  BY <1>1 DEF Of
<1>2. CASE \E r \in wire : Handle(r)
  <2>1. next \in Nat /\ plan \in [Ops -> Payloads \cup {None}]
    BY Base DEF Types, RegistryTypes
  <2>2. UNCHANGED <<next, plan>> \/ \E p : next' = next + 1 /\ plan' = [plan EXCEPT ![next] = p]
    BY <1>2, Zenon DEF Handle, ReceiptRequest, Refused
  <2>3. \A i \in Ops : i < next => i < next' /\ plan'[i] = plan[i]
    BY <2>1, <2>2, Base
  <2> QED  BY <2>2, <2>3 DEF Of
<1>3. CASE Reply \/ RegistryLost \/ \E m \in events : Event(m)
  BY <1>1, <1>3 DEF Reply, RegistryLost, Event
<1>4. CASE NodeStep
  BY <1>1, <1>4, NodeApart
<1>5. CASE \E v \in Workspaces : ClientActs(v)
  BY <1>1, <1>5, ClientsApart
<1>6. CASE \E v \in Workspaces : Redeploy(v)
  BY <1>1, <1>6 DEF Redeploy
<1>7. CASE UNCHANGED vars
  BY <1>1, <1>7 DEF vars, regVars
<1> QED  BY <1>2, <1>3, <1>4, <1>5, <1>6, <1>7 DEF Next, RegistryStep, ClientActs

LEMMA NextGrows ==
  ASSUME [Next]_vars
  PROVE  next' \in {next, next + 1}
<1>1. CASE \E r \in wire : Handle(r)
  BY <1>1, Zenon DEF Handle, ReceiptRequest, Refused
<1>2. CASE Reply \/ RegistryLost \/ \E m \in events : Event(m)
  BY <1>2 DEF Reply, RegistryLost, Event
<1>3. CASE NodeStep
  BY <1>3, NodeApart
<1>4. CASE \E w \in Workspaces : ClientActs(w)
  BY <1>4, ClientsApart
<1>5. CASE \E w \in Workspaces : Redeploy(w)
  BY <1>5 DEF Redeploy
<1>6. CASE UNCHANGED vars
  BY <1>6 DEF vars, regVars
<1> QED  BY <1>1, <1>2, <1>3, <1>4, <1>5, <1>6 DEF Next, RegistryStep, ClientActs

-----------------------------------------------------------------------------
(* Types. *)

LEMMA NodeStepTypes ==
  ASSUME ReceiptsInv, NodeStep
  PROVE  Types'
<1>0. Types /\ Once
  BY DEF ReceiptsInv
<1> USE DEF Types, NodeTypes
<1>1. RegistryTypes' /\ ClientTypes'
  <2>1. events' \in SUBSET Events
    <3>1. \A i \in Ops, out \in {"ok", "rejected", "failed", "none"} :
            Result(i, out) \subseteq Events
      BY DEF Result, Events
    <3>2. run # None => run.id \in Ops
      BY <1>0 DEF Runs
    <3>3. CASE \E i \in Ops : Admit(i)
      BY <1>0, <3>1, <3>3 DEF Admit, RegistryTypes
    <3>4. CASE \E i \in Ops : WorkerDies(i)
      BY <1>0, <3>4 DEF WorkerDies, RegistryTypes, Events
    <3>5. CASE Load
      BY <1>0, <3>2, <3>5 DEF Load, RegistryTypes, Events
    <3>6. CASE Undo \/ Unfence \/ ApplicatorFails \/ RecoveryStuck
      BY <1>0, <3>1, <3>2, <3>6 DEF Undo, Unfence, ApplicatorFails, RecoveryStuck, RegistryTypes
    <3>7. CASE Publish
      BY <1>0, <3>7 DEF Publish, RegistryTypes, regVars
    <3> QED  BY <1>0, <3>3, <3>4, <3>5, <3>6, <3>7 DEF NodeStep
  <2>2. UNCHANGED <<inc, entries, view, next, plan, wire, clientVars>>
    BY NodeApart
  <2>3. faults' \in Nat
    <3>1. faults' = faults \/ faults' = faults + 1
      BY DEF NodeStep, Admit, WorkerDies, Undo, Load, Publish, Unfence, ApplicatorFails,
             RecoveryStuck, Fault
    <3> QED  BY <1>0, <3>1 DEF ClientTypes
  <2> QED  BY <1>0, <2>1, <2>2, <2>3 DEF RegistryTypes, ViewOk, ClientTypes, clientVars, Of
<1>2. CASE \E i \in Ops : Admit(i)
  <2>1. PICK i \in Ops : Admit(i)
    BY <1>2
  <2>2. calls' \in [Ops -> {0, 1}]
    BY <1>0, <2>1 DEF Admit
  <2>3. run' \in Runs \cup {None} /\ fence' \in BOOLEAN
    <3>1. [id |-> i, at |-> "prepared", told |-> FALSE] \in Runs
      BY DEF Runs
    <3> QED  BY <1>0, <2>1, <3>1 DEF Admit
  <2> QED  BY <1>0, <1>1, <2>1, <2>2, <2>3 DEF Admit
<1>3. CASE \E i \in Ops : WorkerDies(i)
  BY <1>0, <1>1, <1>3 DEF WorkerDies
<1>4. CASE Undo \/ Unfence \/ ApplicatorFails \/ RecoveryStuck
  <2>1. run' \in Runs \cup {None} /\ fence' \in BOOLEAN
    BY <1>0, <1>4 DEF Undo, Unfence, ApplicatorFails, RecoveryStuck, Runs
  <2> QED  BY <1>0, <1>1, <1>4, <2>1 DEF Undo, Unfence, ApplicatorFails, RecoveryStuck
<1>5. run # None => run.id \in Ops /\ plan[run.id] \in Payloads
  <2> SUFFICES ASSUME run # None PROVE run.id \in Ops /\ plan[run.id] \in Payloads
    OBVIOUS
  <2>1. run.id \in Ops /\ next \in Nat
    BY <1>0, Base DEF Runs, RegistryTypes
  <2>2. ~(run.id >= next)
    <3>1. run.id >= next => Over(run.id)
      BY <1>0, <2>1 DEF Once
    <3> QED  BY <3>1 DEF Over, Running
  <2>3. run.id < next
    <3>1. run.id \in Nat
      BY <2>1, Base, Zenon
    <3> HIDE <1>0
    <3> QED  BY <2>1, <2>2, <3>1
  <2>4. \A i \in Ops : i < next => plan[i] \in Payloads
    BY <1>0 DEF RegistryTypes
  <2> QED  BY <2>1, <2>3, <2>4
<1>6. CASE Load
  <2>1. run' \in Runs \cup {None} /\ gen' \in Nat
    BY <1>0, <1>6 DEF Load, Runs
  <2>2. loads' \in [Ops -> {0, 1}]
    <3>1. loads[run.id] = 0
      BY <1>0, <1>5, <1>6 DEF Load, Once, Running
    <3> QED  BY <1>0, <1>5, <1>6, <3>1 DEF Load
  <2>3. code' \in Versions
    BY <1>5, <1>6 DEF Load, Payloads
  <2> QED  BY <1>0, <1>1, <1>6, <2>1, <2>2, <2>3 DEF Load
<1>7. CASE Publish
  <2>1. run' \in Runs \cup {None} /\ ver' \in Versions
    BY <1>0, <1>5, <1>7 DEF Publish, Runs, Payloads
  <2> QED  BY <1>0, <1>1, <1>7, <2>1 DEF Publish
<1> QED  BY <1>2, <1>3, <1>4, <1>6, <1>7 DEF NodeStep

\* A request is handled: some receipts have expired, and at most one operation is
\* reserved, cancelled or passed on.
LEMMA HandleEffect ==
  ASSUME Types, NEW r \in wire, Handle(r)
  PROVE  /\ UNCHANGED <<ver, code, fence, gen, run, orphans, loads, inc, events, src, pc, snap,
                        journal, mem, closed, edits>>
         /\ wire' \in SUBSET wire /\ view = None
         /\ faults' \in {faults, faults + 1}
         /\ ask' \in {ask, [ask EXCEPT ![r.w] = None]}
         /\ got' \in {got, [got EXCEPT ![r.w] = NoReceipt]}
         /\ \E kept \in [Ops -> Receipts \cup {None}] :
              /\ \A i \in Ops : kept[i] \in {entries[i], None}
              /\ \/ entries' = kept /\ UNCHANGED <<calls, next, plan, view>>
                 \/ /\ r.kind = "reserve" /\ r.inc = inc /\ next \in Ops /\ next' = next + 1
                    /\ plan' = [plan EXCEPT ![next] = r.plan]
                    /\ entries' = [kept EXCEPT ![next] = [status |-> "reserved", committed |-> FALSE]]
                    /\ View(r, next) /\ UNCHANGED calls
                 \/ /\ r.kind # "reserve" /\ r.inc = inc /\ kept[r.id] # None
                    /\ UNCHANGED <<next, plan>> /\ View(r, r.id)
                    /\ \/ entries' = kept /\ UNCHANGED calls
                       \/ /\ kept[r.id].status = "reserved" /\ r.kind = "cancel"
                          /\ entries' = [kept EXCEPT ![r.id].status = "rejected"] /\ UNCHANGED calls
                       \/ /\ kept[r.id].status = "reserved" /\ r.kind = "submit"
                          /\ entries' = [kept EXCEPT ![r.id].status = "in_progress"]
                          /\ calls' = [calls EXCEPT ![r.id] = @ + 1]
<1>1. PICK gone \in SUBSET Expirable : /\ IF gone = {} THEN UNCHANGED faults ELSE Fault
                                       /\ ReceiptRequest(r, Prune(gone))
  BY DEF Handle
<1> DEFINE kept == Prune(gone)
<1>2. kept \in [Ops -> Receipts \cup {None}] /\ \A i \in Ops : kept[i] \in {entries[i], None}
  BY DEF Prune, Types, RegistryTypes
<1>3. ReceiptRequest(r, kept)
  BY <1>1
<1>4. /\ UNCHANGED <<ver, code, fence, gen, run, orphans, loads, inc, events, src, pc, snap,
                     journal, mem, closed, edits>>
      /\ wire' \in SUBSET wire /\ view = None /\ faults' \in {faults, faults + 1}
  BY <1>1 DEF Handle, Fault
<1> HIDE DEF kept
<1>5. CASE Refused(r) /\ entries' = kept
  BY <1>2, <1>4, <1>5 DEF Refused, Answer
<1>6. CASE /\ r.kind = "reserve" /\ r.inc = inc /\ next \in Ops /\ next' = next + 1
           /\ plan' = [plan EXCEPT ![next] = r.plan]
           /\ entries' = [kept EXCEPT ![next] = [status |-> "reserved", committed |-> FALSE]]
           /\ View(r, next) /\ UNCHANGED calls
  <2>1. UNCHANGED <<ask, got>>
    BY <1>6 DEF View
  <2> QED  BY <1>2, <1>4, <1>6, <2>1
<1>7. ASSUME r.kind # "reserve", r.inc = inc, kept[r.id] # None,
             LET acts == StillReserved(kept[r.id]) IN
              /\ entries' = [kept EXCEPT ![r.id].status =
                               IF acts /\ r.kind = "cancel" THEN "rejected"
                               ELSE IF acts /\ r.kind = "submit" THEN "in_progress" ELSE @]
              /\ calls' = IF acts /\ r.kind = "submit" THEN [calls EXCEPT ![r.id] = @ + 1] ELSE calls,
             View(r, r.id), UNCHANGED <<next, plan>>
      PROVE  \/ entries' = kept /\ UNCHANGED calls
             \/ /\ kept[r.id].status = "reserved" /\ r.kind = "cancel"
                /\ entries' = [kept EXCEPT ![r.id].status = "rejected"] /\ UNCHANGED calls
             \/ /\ kept[r.id].status = "reserved" /\ r.kind = "submit"
                /\ entries' = [kept EXCEPT ![r.id].status = "in_progress"]
                /\ calls' = [calls EXCEPT ![r.id] = @ + 1]
  <2>1. CASE StillReserved(kept[r.id]) /\ r.kind = "cancel"
    BY <1>7, <2>1 DEF StillReserved
  <2>2. CASE StillReserved(kept[r.id]) /\ r.kind = "submit"
    BY <1>7, <2>2 DEF StillReserved
  <2>3. CASE ~(StillReserved(kept[r.id]) /\ r.kind \in {"cancel", "submit"})
    <3>1. entries' = [kept EXCEPT ![r.id].status = @] /\ UNCHANGED calls
      BY <1>7, <2>3
    <3>2. [kept EXCEPT ![r.id].status = @] = kept
      <4>1. CASE r.id \in Ops
        <5>1. kept[r.id] \in Receipts
          BY <1>2, <1>7, <4>1
        <5> QED  BY <1>2, <4>1, <5>1 DEF Receipts
      <4>2. CASE r.id \notin Ops
        BY <1>2, <4>2
      <4> QED  BY <4>1, <4>2
    <3> QED  BY <3>1, <3>2
  <2> QED  BY <2>1, <2>2, <2>3
<1>8. CASE r.kind # "reserve" /\ r.inc = inc /\ kept[r.id] # None /\ View(r, r.id)
           /\ UNCHANGED <<next, plan>>
           /\ LET acts == StillReserved(kept[r.id]) IN
              /\ entries' = [kept EXCEPT ![r.id].status =
                               IF acts /\ r.kind = "cancel" THEN "rejected"
                               ELSE IF acts /\ r.kind = "submit" THEN "in_progress" ELSE @]
              /\ calls' = IF acts /\ r.kind = "submit" THEN [calls EXCEPT ![r.id] = @ + 1] ELSE calls
  <2>1. UNCHANGED <<ask, got>>
    BY <1>8 DEF View
  <2> QED  BY <1>2, <1>4, <1>7, <1>8, <2>1
<1> QED  BY <1>3, <1>5, <1>6, <1>8, Zenon DEF ReceiptRequest

-----------------------------------------------------------------------------
(* A step of a command. *)

JournalStates == Journals \cup {None, Torn}

\* The command of w gets to p with journal j, memory m, request a and answer g.
Moves(w) ==
  \E p \in Pcs, j \in JournalStates, m \in Plans, a \in Requests \cup {None},
     g \in Answers \cup {NoReceipt} :
    /\ pc' = [pc EXCEPT ![w] = p] /\ journal' = [journal EXCEPT ![w] = j]
    /\ mem' = [mem EXCEPT ![w] = m] /\ ask' = [ask EXCEPT ![w] = a]
    /\ got' = [got EXCEPT ![w] = g]
    /\ ClientOk(w, p, j, m, a, g)

\* What a command writes besides.
Writes(w) ==
  /\ src' \in [Workspaces -> Versions] /\ snap' \in [Workspaces -> Versions \cup {None}]
  /\ edits' \in Nat /\ faults' \in Nat
  /\ wire' \in SUBSET Requests /\ WireProper'

LEMMA ClientAt ==
  ASSUME ReceiptsInv, NEW w \in Workspaces
  PROVE  /\ pc[w] \in Pcs /\ journal[w] \in JournalStates /\ mem[w] \in Plans
         /\ ask[w] \in Requests \cup {None} /\ got[w] \in Answers \cup {NoReceipt}
         /\ ClientOk(w, pc[w], journal[w], mem[w], ask[w], got[w])
         /\ src[w] \in Versions /\ snap[w] \in Versions \cup {None}
         /\ pc = [pc EXCEPT ![w] = pc[w]] /\ journal = [journal EXCEPT ![w] = journal[w]]
         /\ mem = [mem EXCEPT ![w] = mem[w]] /\ ask = [ask EXCEPT ![w] = ask[w]]
         /\ got = [got EXCEPT ![w] = got[w]]
BY DEF ReceiptsInv, Types, ClientTypes, ClientInv, JournalStates

LEMMA PlanTypes ==
  /\ NoPlan \in Plans /\ NoPlan.prev = None
  /\ NoReceipt.status = "none"
  /\ \A m \in Plans, v \in Versions \cup {None} :
       /\ [m EXCEPT !.new = v] \in Plans /\ [m EXCEPT !.new = v].prev = m.prev
       /\ [m EXCEPT !.built = v] \in Plans /\ [m EXCEPT !.built = v].prev = m.prev
       /\ [m EXCEPT !.built = v].built = v
  /\ \A m \in Plans, i \in Ops : /\ [m EXCEPT !.id = i] \in Plans /\ [m EXCEPT !.id = i].prev = m.prev
                                 /\ [m EXCEPT !.id = i].id = i
BY DEF NoPlan, NoReceipt, Plans

\* The command ends.
LEMMA Ends ==
  ASSUME ReceiptsInv, NEW w \in Workspaces, End(w),
         NEW j \in JournalStates, journal' = [journal EXCEPT ![w] = j],
         j \notin {None, Torn} => j.id \in Of(w)
  PROVE  Moves(w)
<1>1. ClientOk(w, "idle", j, NoPlan, None, NoReceipt)
  BY PlanTypes DEF ClientOk
<1>2. "idle" \in Pcs /\ NoPlan \in Plans
  BY PlanTypes DEF Pcs
<1> QED  BY <1>1, <1>2 DEF End, Goto, Moves

LEMMA EndsJournalled ==
  ASSUME ReceiptsInv, NEW w \in Workspaces, End(w), UNCHANGED journal
  PROVE  Moves(w)
<1>1. journal[w] \in JournalStates /\ journal' = [journal EXCEPT ![w] = journal[w]]
      /\ (journal[w] \notin {None, Torn} => journal[w].id \in Of(w))
  BY ClientAt DEF ClientOk
<1> QED  BY <1>1, Ends

\* A request is sent and the command waits for its answer.
LEMMA Sends ==
  ASSUME ReceiptsInv, NEW w \in Workspaces, NEW r \in Requests, Send(r), r.w = w, Proper(r),
         NEW p \in {"reserve", "await", "recover"}, NEW m \in Plans,
         pc' = [pc EXCEPT ![w] = p], mem' = [mem EXCEPT ![w] = m], UNCHANGED journal,
         p = "reserve" => journal[w] = None /\ m.prev \in Versions,
         p \in {"await", "recover"} => Pending(w)
  PROVE  Moves(w)
<1>1. ClientOk(w, p, journal[w], m, r, NoReceipt)
  BY ClientAt, PlanTypes DEF ClientOk, Pending
<1>2. p \in Pcs
  BY DEF Pcs
<1>3. journal' = [journal EXCEPT ![w] = journal[w]] /\ journal[w] \in JournalStates
  BY ClientAt
<1>4. ask' = [ask EXCEPT ![w] = r] /\ got' = [got EXCEPT ![w] = NoReceipt]
  BY DEF Send
<1> QED  BY <1>1, <1>2, <1>3, <1>4 DEF Moves

LEMMA SendWires ==
  ASSUME ReceiptsInv, NEW r \in Requests, Send(r), Proper(r), UNCHANGED <<next, plan>>
  PROVE  wire' \in SUBSET Requests /\ WireProper'
<1>1. wire' = wire \cup {r} /\ wire \in SUBSET Requests /\ \A q \in wire : Proper(q)
  BY DEF Send, ReceiptsInv, Types, RegistryTypes, WireProper
<1>2. \A q : Proper(q)' <=> Proper(q)
  BY DEF Proper, Of
<1> QED  BY <1>1, <1>2 DEF WireProper

LEMMA WritesSame ==
  ASSUME ReceiptsInv, UNCHANGED <<next, plan, wire>>
  PROVE  wire' \in SUBSET Requests /\ WireProper'
<1>1. \A q : Proper(q)' <=> Proper(q)
  BY DEF Proper, Of
<1> QED  BY <1>1 DEF ReceiptsInv, Types, RegistryTypes, WireProper

LEMMA SnapTypes ==
  ASSUME ReceiptsInv, NEW w \in Workspaces, NEW v \in Versions \cup {None},
         SetSnap(w, v)
  PROVE  snap' \in [Workspaces -> Versions \cup {None}]
BY DEF SetSnap, ReceiptsInv, Types, ClientTypes

LEMMA Plain ==
  ASSUME ReceiptsInv
  PROVE  /\ src \in [Workspaces -> Versions] /\ snap \in [Workspaces -> Versions \cup {None}]
         /\ edits \in Nat /\ faults \in Nat /\ inc \in Nat
         /\ mem \in [Workspaces -> Plans]
BY DEF ReceiptsInv, Types, ClientTypes, RegistryTypes

LEMMA StartKeeps ==
  ASSUME ReceiptsInv, NEW w \in Workspaces, Start(w)
  PROVE  Moves(w) /\ Writes(w)
<1>1. UNCHANGED <<next, plan, src, snap, journal, edits, faults>>
  BY DEF Start, regVars
<1>2. CASE /\ Pending(w) /\ Goto(w, "recover") /\ UNCHANGED mem
           /\ Send(Request("query", w, journal[w].id, journal[w].inc, None))
  <2> DEFINE r == Request("query", w, journal[w].id, journal[w].inc, None)
  <2>1. journal[w] \in Journals /\ journal[w].id \in Of(w)
    BY <1>2, ClientAt DEF Pending, ClientOk, JournalStates
  <2>2. r \in Requests /\ r.w = w /\ Proper(r)
    BY <2>1 DEF Request, Requests, Journals, Proper
  <2>3. mem' = [mem EXCEPT ![w] = mem[w]] /\ mem[w] \in Plans /\ pc' = [pc EXCEPT ![w] = "recover"]
    BY <1>2, ClientAt DEF Goto
  <2> HIDE DEF r
  <2>4. Send(r)
    BY <1>2 DEF r
  <2> QED  BY <1>1, <1>2, <2>2, <2>3, <2>4, Sends, SendWires, Plain DEF Writes
<1>3. CASE /\ journal[w] = None /\ snap[w] # None /\ Goto(w, "compile")
           /\ mem' = [mem EXCEPT ![w] = [NoPlan EXCEPT !.prev = snap[w], !.inc = inc]]
           /\ UNCHANGED <<wire, ask, got>> /\ pc[w] = "idle"
  <2> DEFINE m == [NoPlan EXCEPT !.prev = snap[w], !.inc = inc]
  <2>1. m \in Plans /\ m.prev \in Versions
    <3>1. snap[w] \in Versions /\ inc \in Nat
      BY <1>3, ClientAt, Plain
    <3> QED  BY <3>1 DEF NoPlan, Plans
  <2>2. ClientOk(w, "compile", None, m, ask[w], got[w])
    <3>1. ask[w] = None
      BY <1>3, ClientAt DEF ClientOk
    <3> HIDE DEF m
    <3> QED  BY <1>3, <2>1, <3>1, ClientAt DEF ClientOk
  <2>3. pc' = [pc EXCEPT ![w] = "compile"] /\ "compile" \in Pcs /\ None \in JournalStates
    BY <1>3 DEF Goto, Pcs, JournalStates
  <2>4. /\ journal' = [journal EXCEPT ![w] = None] /\ mem' = [mem EXCEPT ![w] = m]
        /\ ask' = [ask EXCEPT ![w] = ask[w]] /\ got' = [got EXCEPT ![w] = got[w]]
    BY <1>1, <1>3, ClientAt
  <2> HIDE DEF m
  <2>5. Moves(w)
    BY <2>1, <2>2, <2>3, <2>4, ClientAt DEF Moves
  <2> QED  BY <1>1, <1>3, <2>5, WritesSame, Plain DEF Writes
<1> QED  BY <1>2, <1>3 DEF Start

LEMMA CompileKeeps ==
  ASSUME ReceiptsInv, NEW w \in Workspaces, Compile(w)
  PROVE  Moves(w) /\ Writes(w)
<1>1. UNCHANGED <<next, plan, wire, src, journal, ask, got, edits, faults>>
      /\ pc[w] = "compile" /\ SetSnap(w, src[w])
      /\ pc' = [pc EXCEPT ![w] = "plan"] /\ mem' = [mem EXCEPT ![w].built = src[w]]
  BY DEF Compile, regVars, Goto
<1> DEFINE m == [mem[w] EXCEPT !.built = src[w]]
<1>2. m \in Plans /\ m.prev = mem[w].prev /\ m.built \in Versions
  <2>1. mem[w] \in Plans /\ src[w] \in Versions
    BY ClientAt
  <2> QED  BY <2>1, PlanTypes
<1>3. mem' = [mem EXCEPT ![w] = m]
  BY <1>1
<1> HIDE DEF m
<1>4. ClientOk(w, "plan", journal[w], m, ask[w], got[w])
  BY <1>1, <1>2, ClientAt DEF ClientOk
<1>5. Moves(w)
  BY <1>1, <1>2, <1>3, <1>4, ClientAt DEF Moves, Pcs
<1> QED  BY <1>1, <1>5, WritesSame, Plain, SnapTypes, ClientAt DEF Writes

LEMMA PlanReloadKeeps ==
  ASSUME ReceiptsInv, NEW w \in Workspaces, PlanReload(w)
  PROVE  Moves(w) /\ Writes(w)
<1>1. UNCHANGED <<next, plan, src, journal, edits, faults>> /\ pc[w] = "plan"
      /\ mem' = [mem EXCEPT ![w].new = src[w]]
  BY DEF PlanReload, regVars
<1> DEFINE m == [mem[w] EXCEPT !.new = src[w]]
<1>2. /\ mem[w] \in Plans /\ mem[w].prev \in Versions /\ mem[w].built \in Versions
      /\ journal[w] = None /\ ask[w] = None /\ src[w] \in Versions
  BY <1>1, ClientAt DEF ClientOk
<1>3. m \in Plans /\ m.prev \in Versions /\ mem' = [mem EXCEPT ![w] = m]
  BY <1>1, <1>2, PlanTypes
<1> HIDE DEF m
<1>4. CASE Goto(w, "nothing") /\ UNCHANGED <<wire, ask, got, snap>>
  <2>1. ClientOk(w, "nothing", journal[w], m, ask[w], got[w])
    BY <1>2, ClientAt DEF ClientOk
  <2>2. Moves(w)
    BY <1>1, <1>3, <1>4, <2>1, ClientAt DEF Moves, Pcs, Goto
  <2> QED  BY <1>1, <1>4, <2>2, WritesSame, Plain DEF Writes
<1>5. CASE Goto(w, "rejected") /\ SetSnap(w, mem[w].prev) /\ UNCHANGED <<wire, ask, got>>
  <2>1. ClientOk(w, "rejected", journal[w], m, ask[w], got[w])
    BY <1>2, <1>3, ClientAt DEF ClientOk
  <2>2. Moves(w)
    BY <1>1, <1>3, <1>5, <2>1, ClientAt DEF Moves, Pcs, Goto
  <2> QED  BY <1>1, <1>2, <1>5, <2>2, WritesSame, Plain, SnapTypes DEF Writes
<1>6. CASE /\ Goto(w, "reserve") /\ UNCHANGED snap
           /\ Send(Request("reserve", w, None, mem[w].inc, [Payload(w) EXCEPT !.new = src[w]]))
  <2> DEFINE r == Request("reserve", w, None, mem[w].inc, [Payload(w) EXCEPT !.new = src[w]])
  <2>1. [Payload(w) EXCEPT !.new = src[w]] \in Payloads
        /\ [Payload(w) EXCEPT !.new = src[w]].w = w
    BY <1>2 DEF Payload, Payloads
  <2>2. r \in Requests /\ r.w = w /\ Proper(r)
    BY <1>2, <2>1 DEF Request, Requests, Plans, Proper
  <2> HIDE DEF r
  <2>3. Send(r) /\ pc' = [pc EXCEPT ![w] = "reserve"]
    BY <1>6 DEF r, Goto
  <2>4. Moves(w)
    BY <1>1, <1>2, <1>3, <2>2, <2>3, Sends
  <2> QED  BY <1>1, <1>6, <2>2, <2>3, <2>4, SendWires, Plain DEF Writes
<1> QED  BY <1>4, <1>5, <1>6 DEF PlanReload


LEMMA ExitKeeps ==
  ASSUME ReceiptsInv, NEW w \in Workspaces, Exit(w)
  PROVE  Moves(w) /\ Writes(w)
<1>1. End(w) /\ UNCHANGED <<next, plan, wire, src, snap, journal, edits, faults>>
  BY DEF Exit, regVars
<1> QED  BY <1>1, EndsJournalled, WritesSame, Plain DEF Writes

LEMMA ReservedKeeps ==
  ASSUME ReceiptsInv, NEW w \in Workspaces, Reserved(w)
  PROVE  Moves(w) /\ Writes(w)
<1>1. UNCHANGED <<next, plan, wire, src, journal, edits, faults>>
      /\ pc[w] = "reserve" /\ ask[w] = None
  BY DEF Reserved, regVars
<1>2. /\ mem[w] \in Plans /\ mem[w].prev \in Versions /\ journal[w] = None
      /\ got[w].status # "none" => got[w].id \in Of(w)
  BY <1>1, ClientAt DEF ClientOk
<1>3. CASE got[w].status = "reserved"
  <2>1. /\ Goto(w, "save") /\ mem' = [mem EXCEPT ![w].id = got[w].id]
        /\ UNCHANGED <<ask, got, snap>>
    BY <1>3 DEF Reserved
  <2> DEFINE m == [mem[w] EXCEPT !.id = got[w].id]
  <2>2. got[w].id \in Of(w) /\ got[w].id \in Ops
    BY <1>2, <1>3 DEF Of
  <2>3. m \in Plans /\ m.prev \in Versions /\ m.id \in Of(w) /\ mem' = [mem EXCEPT ![w] = m]
    BY <1>2, <2>1, <2>2, PlanTypes
  <2> HIDE DEF m
  <2>4. ClientOk(w, "save", journal[w], m, ask[w], got[w])
    BY <1>1, <1>2, <2>3, ClientAt DEF ClientOk
  <2>5. Moves(w)
    BY <1>1, <2>1, <2>3, <2>4, ClientAt DEF Moves, Pcs, Goto
  <2> QED  BY <1>1, <2>1, <2>5, WritesSame, Plain DEF Writes
<1>4. CASE got[w].status # "reserved"
  <2>1. End(w) /\ SetSnap(w, mem[w].prev)
    BY <1>4 DEF Reserved
  <2> QED  BY <1>1, <1>2, <2>1, EndsJournalled, WritesSame, Plain, SnapTypes DEF Writes
<1> QED  BY <1>3, <1>4

LEMMA SavePendingKeeps ==
  ASSUME ReceiptsInv, NEW w \in Workspaces, SavePending(w)
  PROVE  Moves(w) /\ Writes(w)
<1>1. /\ UNCHANGED <<next, plan, wire, src, snap, mem, ask, got, edits, faults>>
      /\ pc[w] = "save" /\ pc' = [pc EXCEPT ![w] = "submit"]
      /\ journal' = [journal EXCEPT ![w] = Record(w)]
  BY DEF SavePending, regVars, Goto
<1>2. /\ mem[w] \in Plans /\ mem[w].prev \in Versions /\ mem[w].id \in Of(w)
      /\ ask[w] = None /\ snap[w] \in Versions \cup {None}
  BY <1>1, ClientAt DEF ClientOk
<1>3. Record(w) \in Journals /\ Record(w).id = mem[w].id /\ Record(w).prev = mem[w].prev
  BY <1>2 DEF Record, Journals, Plans, Of
<1>4. Record(w) \notin {None, Torn}
  BY <1>2, <1>3, Base DEF Torn
<1>5. ClientOk(w, "submit", Record(w), mem[w], ask[w], got[w])
  BY <1>2, <1>3, <1>4, ClientAt DEF ClientOk
<1>6. "submit" \in Pcs /\ Record(w) \in JournalStates
  BY <1>3 DEF Pcs, JournalStates
<1>7. Moves(w)
  BY <1>1, <1>5, <1>6, ClientAt DEF Moves
<1> QED  BY <1>1, <1>7, WritesSame, Plain DEF Writes

LEMMA FaultsGrow ==
  ASSUME ReceiptsInv, Fault
  PROVE  faults' \in Nat
BY Plain DEF Fault

LEMMA SaveFailsKeeps ==
  ASSUME ReceiptsInv, NEW w \in Workspaces, SaveFails(w)
  PROVE  Moves(w) /\ Writes(w)
<1>1. /\ UNCHANGED <<next, plan, wire, src, edits>> /\ Fault /\ pc[w] = "save"
      /\ End(w) /\ SetSnap(w, mem[w].prev)
  BY DEF SaveFails, regVars
<1>2. PICK j \in {None, Torn} : journal' = [journal EXCEPT ![w] = j]
  BY DEF SaveFails
<1>3. j \in JournalStates
  BY DEF JournalStates
<1>4. mem[w].prev \in Versions
  BY <1>1, ClientAt DEF ClientOk
<1> QED  BY <1>1, <1>2, <1>3, <1>4, Ends, WritesSame, Plain, SnapTypes, FaultsGrow DEF Writes

LEMMA SubmitKeeps ==
  ASSUME ReceiptsInv, NEW w \in Workspaces, Submit(w)
  PROVE  Moves(w) /\ Writes(w)
<1> DEFINE r == Request("submit", w, mem[w].id, mem[w].inc, None)
<1>1. /\ UNCHANGED <<next, plan, src, snap, journal, mem, edits, faults>>
      /\ pc[w] = "submit" /\ pc' = [pc EXCEPT ![w] = "await"] /\ Send(r)
  BY DEF Submit, regVars, Goto
<1>2. mem[w] \in Plans /\ mem[w].id \in Of(w) /\ Pending(w)
      /\ mem' = [mem EXCEPT ![w] = mem[w]]
  BY <1>1, ClientAt DEF ClientOk, Pending
<1>3. r \in Requests /\ r.w = w /\ Proper(r)
  BY <1>2 DEF Request, Requests, Plans, Proper
<1> HIDE DEF r
<1>4. Moves(w)
  BY <1>1, <1>2, <1>3, Sends
<1> QED  BY <1>1, <1>3, <1>4, SendWires, Plain DEF Writes

LEMMA PollKeeps ==
  ASSUME ReceiptsInv, NEW w \in Workspaces, Poll(w)
  PROVE  Moves(w) /\ Writes(w)
<1>1. UNCHANGED <<next, plan, src, pc, snap, journal, mem, edits, faults>>
      /\ pc[w] \in {"await", "recover"}
  BY DEF Poll, regVars
<1>2. /\ Pending(w) /\ journal[w] \in Journals /\ journal[w].id \in Of(w) /\ mem[w] \in Plans
      /\ mem' = [mem EXCEPT ![w] = mem[w]] /\ pc' = [pc EXCEPT ![w] = pc[w]]
      /\ got[w].status # "none" => got[w] \in Answers /\ got[w].id \in Of(w)
  BY <1>1, ClientAt, PlanTypes DEF ClientOk, Pending, JournalStates
<1>3. \E r \in Requests : r.w = w /\ Proper(r) /\ Send(r)
  <2>1. CASE got[w].status = "in_progress"
             /\ Send(Request("query", w, got[w].id, got[w].inc, None))
    <3> DEFINE r == Request("query", w, got[w].id, got[w].inc, None)
    <3>1. r \in Requests /\ r.w = w /\ Proper(r)
      BY <1>2, <2>1 DEF Request, Requests, Answers, Proper
    <3> QED  BY <2>1, <3>1
  <2>2. CASE Send(Request("cancel", w, journal[w].id, journal[w].inc, None))
    <3> DEFINE r == Request("cancel", w, journal[w].id, journal[w].inc, None)
    <3>1. r \in Requests /\ r.w = w /\ Proper(r)
      BY <1>2 DEF Request, Requests, Journals, Proper
    <3> QED  BY <2>2, <3>1
  <2> QED  BY <2>1, <2>2 DEF Poll
<1>4. PICK r \in Requests : r.w = w /\ Proper(r) /\ Send(r)
  BY <1>3
<1>5. Moves(w)
  BY <1>1, <1>2, <1>4, Sends
<1> QED  BY <1>1, <1>4, <1>5, SendWires, Plain DEF Writes


\* A command that waits for nothing new.
LEMMA Stays ==
  ASSUME ReceiptsInv, NEW w \in Workspaces, UNCHANGED <<pc, journal, mem, ask, got>>
  PROVE  Moves(w)
BY ClientAt DEF Moves

LEMMA FinishKeeps ==
  ASSUME ReceiptsInv, NEW w \in Workspaces, Finish(w)
  PROVE  Moves(w) /\ Writes(w)
<1>1. UNCHANGED <<next, plan, wire, src, journal, edits, faults>>
      /\ pc[w] \in {"await", "recover"} /\ ask[w] = None
  BY DEF Finish, regVars
<1>2. journal[w] \in Journals /\ Pending(w)
  BY <1>1, ClientAt DEF ClientOk, JournalStates, Pending
<1>3. CASE Resolution(journal[w], got[w]) = "unknown"
  <2>1. SetSnap(w, None) /\ End(w)
    BY <1>3 DEF Finish
  <2> QED  BY <1>1, <2>1, EndsJournalled, WritesSame, Plain, SnapTypes DEF Writes
<1>4. CASE Resolution(journal[w], got[w]) # "unknown"
  <2>1. /\ pc' = [pc EXCEPT ![w] = "unlink"] /\ UNCHANGED <<mem, ask, got>>
        /\ \E v \in Versions \cup {None} : SetSnap(w, v)
    <3>1. journal[w].cand \in Versions \cup {None} /\ journal[w].prev \in Versions
      BY <1>2 DEF Journals
    <3> QED  BY <1>4, <3>1 DEF Finish, Goto
  <2>2. ClientOk(w, "unlink", journal[w], mem[w], ask[w], got[w])
    <3>1. /\ journal[w] \notin {None, Torn} /\ journal[w].id \in Of(w)
          /\ got[w].status # "none" => got[w].id \in Of(w) /\ StatusTrue(got[w].id, got[w].status)
      BY <1>1, <1>2, ClientAt DEF ClientOk, Pending
    <3> QED  BY <1>1, <1>4, <3>1 DEF ClientOk
  <2>3. "unlink" \in Pcs
    BY DEF Pcs
  <2>4. Moves(w)
    BY <1>1, <2>1, <2>2, <2>3, ClientAt DEF Moves
  <2> QED  BY <1>1, <2>1, <2>4, WritesSame, Plain, SnapTypes DEF Writes
<1> QED  BY <1>3, <1>4

LEMMA UnlinkKeeps ==
  ASSUME ReceiptsInv, NEW w \in Workspaces, Unlink(w)
  PROVE  Moves(w) /\ Writes(w)
<1>1. /\ UNCHANGED <<next, plan, wire, src, edits, faults>> /\ pc[w] = "unlink"
      /\ journal' = [journal EXCEPT ![w] = None] /\ End(w)
  BY DEF Unlink, regVars
<1>2. snap' \in [Workspaces -> Versions \cup {None}]
  <2>1. mem[w].prev \in Versions \cup {None}
    BY ClientAt DEF Plans
  <2>2. SetSnap(w, mem[w].prev) \/ UNCHANGED snap
    BY DEF Unlink
  <2> QED  BY <2>1, <2>2, SnapTypes, Plain
<1>3. None \in JournalStates
  BY DEF JournalStates
<1> QED  BY <1>1, <1>2, <1>3, Ends, WritesSame, Plain DEF Writes

LEMMA CrashKeeps ==
  ASSUME ReceiptsInv, NEW w \in Workspaces, Crash(w)
  PROVE  Moves(w) /\ Writes(w)
<1>1. UNCHANGED <<next, plan, wire, src, snap, edits>> /\ Fault /\ End(w)
  BY DEF Crash, regVars
<1>2. PICK j \in {journal[w], Torn} : journal' = [journal EXCEPT ![w] = j]
  BY DEF Crash
<1>3. j \in JournalStates /\ (j \notin {None, Torn} => j.id \in Of(w))
  BY ClientAt DEF JournalStates, ClientOk
<1> QED  BY <1>1, <1>2, <1>3, Ends, WritesSame, Plain, FaultsGrow DEF Writes

LEMMA TimeoutKeeps ==
  ASSUME ReceiptsInv, NEW w \in Workspaces, Timeout(w)
  PROVE  Moves(w) /\ Writes(w)
<1>1. /\ UNCHANGED <<next, plan, wire, src, pc, snap, journal, mem, edits>> /\ Fault
      /\ ask' = [ask EXCEPT ![w] = None] /\ got' = [got EXCEPT ![w] = NoReceipt]
      /\ ask[w] # None
  BY DEF Timeout, regVars
<1>2. pc[w] \in {"reserve", "await", "recover"}
  BY <1>1, ClientAt DEF ClientOk
<1>3. ClientOk(w, pc[w], journal[w], mem[w], None, NoReceipt)
  BY <1>2, ClientAt, PlanTypes DEF ClientOk
<1>4. Moves(w)
  BY <1>1, <1>3, ClientAt DEF Moves
<1> QED  BY <1>1, <1>4, WritesSame, Plain, FaultsGrow DEF Writes

LEMMA ByHandKeeps ==
  ASSUME ReceiptsInv, NEW w \in Workspaces, Build(w) \/ \E v \in Versions : Edit(w, v)
  PROVE  Moves(w) /\ Writes(w)
<1>1. UNCHANGED <<next, plan, wire, pc, journal, mem, ask, got, faults>> /\ edits' = edits + 1
  BY DEF Build, Edit, regVars
<1>2. snap' \in [Workspaces -> Versions \cup {None}] /\ src' \in [Workspaces -> Versions]
  <2>1. CASE Build(w)
    BY <2>1, SnapTypes, ClientAt, Plain DEF Build
  <2>2. CASE \E v \in Versions : Edit(w, v)
    BY <2>2, Plain DEF Edit
  <2> QED  BY <2>1, <2>2
<1> QED  BY <1>1, <1>2, Stays, WritesSame, Plain DEF Writes

\* Every step of a command or of its user is one of these.
LEMMA ClientMoves ==
  ASSUME ReceiptsInv, NEW w \in Workspaces, ClientActs(w)
  PROVE  Moves(w) /\ Writes(w)
<1>1. CASE Start(w) \/ Compile(w) \/ PlanReload(w) \/ Exit(w) \/ Reserved(w)
  BY <1>1, StartKeeps, CompileKeeps, PlanReloadKeeps, ExitKeeps, ReservedKeeps
<1>2. CASE SavePending(w) \/ SaveFails(w) \/ Submit(w) \/ Poll(w)
  BY <1>2, SavePendingKeeps, SaveFailsKeeps, SubmitKeeps, PollKeeps
<1>3. CASE Finish(w) \/ Unlink(w) \/ Crash(w) \/ Timeout(w)
  BY <1>3, FinishKeeps, UnlinkKeeps, CrashKeeps, TimeoutKeeps
<1>4. CASE Build(w) \/ \E v \in Versions : Edit(w, v)
  BY <1>4, ByHandKeeps
<1> QED  BY <1>1, <1>2, <1>3, <1>4 DEF ClientActs, ClientStep


-----------------------------------------------------------------------------
(* What a step does to receipts and to operations that are over. *)

\* A result settles a receipt in progress, an exit leaves it to recovery, and
\* nothing turns any other receipt back.
LEMMA SettleEffect ==
  ASSUME NEW e \in Receipts, NEW m \in Events
  PROVE  /\ Settle(e, m[1], m[3]) \in Receipts
         /\ \/ Settle(e, m[1], m[3]).status = e.status
            \/ Settle(e, m[1], m[3]).status = "recovery_required"
            \/ Settle(e, m[1], m[3]).status = "applied" /\ m[1] = "result" /\ m[3] = "ok"
            \/ Settle(e, m[1], m[3]).status = "rejected" /\ m[1] = "result" /\ m[3] = "rejected"
         /\ Settle(e, m[1], m[3]).status = "reserved" => e.status = "reserved"
<1>1. m[1] \in {"result", "committed", "down"} /\ m[3] \in {"ok", "rejected", "failed", "none"}
  BY DEF Events
<1>2. CASE m[1] = "committed"
  BY <1>2 DEF Settle, Receipts, Statuses
<1>3. CASE m[1] = "down"
  BY <1>3 DEF Settle, Receipts, Statuses
<1>4. CASE m[1] = "result"
  BY <1>1, <1>4 DEF Settle, Receipts, Statuses
<1> QED  BY <1>1, <1>2, <1>3, <1>4

\* A request is refused, or the registry starts on its answer.
LEMMA HandleAnswers ==
  ASSUME NEW r \in wire, Handle(r)
  PROVE  \/ UNCHANGED <<ask, got>>
         \/ /\ ask[r.w] = r /\ ask' = [ask EXCEPT ![r.w] = None]
            /\ got' = [got EXCEPT ![r.w] = NoReceipt]
<1>1. PICK gone \in SUBSET Expirable : ReceiptRequest(r, Prune(gone))
  BY DEF Handle
<1> QED  BY <1>1 DEF ReceiptRequest, Refused, View, Answer

LEMMA EventEffect ==
  ASSUME ReceiptsInv, NEW m \in events, Event(m)
  PROVE  /\ m \in Events /\ m[2] \in Ops /\ events' \in SUBSET events
         /\ UNCHANGED <<ver, code, fence, gen, run, calls, orphans, loads, inc, view, next, plan,
                        wire, clientVars, faults>>
         /\ entries' \in [Ops -> Receipts \cup {None}]
         /\ \A i \in Ops : i # m[2] => entries'[i] = entries[i]
         /\ entries[m[2]] = None => entries'[m[2]] = None
         /\ entries[m[2]] # None => entries'[m[2]] = Settle(entries[m[2]], m[1], m[3])
<1>1. m \in Events /\ entries \in [Ops -> Receipts \cup {None}]
  BY DEF ReceiptsInv, Types, RegistryTypes
<1>2. m[2] \in Ops
  BY <1>1 DEF Events
<1>3. /\ UNCHANGED <<ver, code, fence, gen, run, calls, orphans, loads, inc, view, next, plan,
                     wire, clientVars, faults>>
      /\ events' \in SUBSET events
      /\ entries' = [entries EXCEPT ![m[2]] = IF @ = None THEN None ELSE Settle(@, m[1], m[3])]
  BY DEF Event, nodeVars
<1>4. entries[m[2]] # None => Settle(entries[m[2]], m[1], m[3]) \in Receipts
  BY <1>1, <1>2, SettleEffect
<1> QED  BY <1>1, <1>2, <1>3, <1>4


\* Whoever is counted in a new receipt or a new event is an operation handed out.
LEMMA HandedOut ==
  ASSUME ReceiptsInv, NEW i \in Ops
  PROVE  /\ calls[i] # 0 \/ Running(i) \/ entries[i] # None \/ closed[i] # "open" => i < next
         /\ i < next \/ i >= next
         /\ calls[i] # 0 => calls[i] = 1
<1>1. i \in Nat /\ next \in Nat /\ calls[i] \in {0, 1}
  BY Base DEF ReceiptsInv, Types, RegistryTypes, NodeTypes
<1>2. i < next \/ i >= next
  BY <1>1
<1>3. i >= next => Over(i) /\ entries[i] = None /\ closed[i] = "open"
  BY DEF ReceiptsInv, Once
<1> QED  BY <1>1, <1>2, <1>3 DEF Over

\* What one request does to one receipt.
LEMMA HandleEntry ==
  ASSUME ReceiptsInv, NEW r \in wire, Handle(r), NEW i \in Ops
  PROVE  /\ \/ UNCHANGED calls /\ entries'[i] \in {entries[i], None}
            \/ /\ i = next /\ r.kind = "reserve" /\ next' = next + 1 /\ UNCHANGED calls
            \/ /\ i = r.id /\ i < next /\ ~Unreserved(i) /\ entries'[i].status = "rejected"
               /\ UNCHANGED calls
            \/ /\ i = r.id /\ i < next /\ ~Unreserved(i) /\ entries'[i].status = "in_progress"
               /\ r.kind = "submit" /\ r.inc = inc
               /\ calls' = [calls EXCEPT ![i] = @ + 1]
            \/ /\ entries'[i] \in {entries[i], None} /\ calls'[i] = calls[i]
         /\ next' = next \/ (next' = next + 1 /\ UNCHANGED calls)
<1>0. Types
  BY DEF ReceiptsInv
<1>1. PICK kept \in [Ops -> Receipts \cup {None}] :
              /\ \A k \in Ops : kept[k] \in {entries[k], None}
              /\ \/ entries' = kept /\ UNCHANGED <<calls, next, plan, view>>
                 \/ /\ r.kind = "reserve" /\ r.inc = inc /\ next \in Ops /\ next' = next + 1
                    /\ plan' = [plan EXCEPT ![next] = r.plan]
                    /\ entries' = [kept EXCEPT ![next] = [status |-> "reserved", committed |-> FALSE]]
                    /\ View(r, next) /\ UNCHANGED calls
                 \/ /\ r.kind # "reserve" /\ r.inc = inc /\ kept[r.id] # None
                    /\ UNCHANGED <<next, plan>> /\ View(r, r.id)
                    /\ \/ entries' = kept /\ UNCHANGED calls
                       \/ /\ kept[r.id].status = "reserved" /\ r.kind = "cancel"
                          /\ entries' = [kept EXCEPT ![r.id].status = "rejected"] /\ UNCHANGED calls
                       \/ /\ kept[r.id].status = "reserved" /\ r.kind = "submit"
                          /\ entries' = [kept EXCEPT ![r.id].status = "in_progress"]
                          /\ calls' = [calls EXCEPT ![r.id] = @ + 1]
  BY <1>0, HandleEffect
<1>2. kept[i] \in {entries[i], None} /\ calls \in [Ops -> {0, 1}]
  BY <1>0, <1>1 DEF Types, NodeTypes
<1>3. CASE entries' = kept /\ UNCHANGED <<calls, next>>
  BY <1>2, <1>3
<1>4. CASE /\ next \in Ops /\ next' = next + 1 /\ r.kind = "reserve" /\ UNCHANGED calls
           /\ entries' = [kept EXCEPT ![next] = [status |-> "reserved", committed |-> FALSE]]
  BY <1>1, <1>2, <1>4
<1>5. ASSUME r.kind # "reserve" PROVE r.id \in Ops /\ r.id < next
  <2>1. Proper(r)
    BY DEF ReceiptsInv, WireProper
  <2> QED  BY <1>5, <2>1 DEF Proper, Of
<1>6. CASE /\ r.kind = "cancel" /\ kept[r.id] # None /\ kept[r.id].status = "reserved"
           /\ entries' = [kept EXCEPT ![r.id].status = "rejected"] /\ UNCHANGED <<calls, next>>
  <2>1. r.id \in Ops /\ r.id < next /\ kept[r.id] = entries[r.id] /\ kept[r.id] \in Receipts
    BY <1>1, <1>5, <1>6
  <2>2. CASE i = r.id
    <3>1. entries'[i].status = "rejected"
      BY <1>1, <1>6, <2>1, <2>2 DEF Receipts
    <3> QED  BY <1>6, <2>1, <2>2, <3>1 DEF Unreserved
  <2>3. CASE i # r.id
    BY <1>1, <1>2, <1>6, <2>3
  <2> QED  BY <2>2, <2>3
<1>7. CASE /\ r.kind = "submit" /\ kept[r.id] # None /\ kept[r.id].status = "reserved"
           /\ entries' = [kept EXCEPT ![r.id].status = "in_progress"] /\ UNCHANGED next
           /\ calls' = [calls EXCEPT ![r.id] = @ + 1] /\ r.inc = inc
  <2>1. r.id \in Ops /\ r.id < next /\ kept[r.id] = entries[r.id] /\ kept[r.id] \in Receipts
    BY <1>1, <1>5, <1>7
  <2>2. CASE i = r.id
    <3>1. entries'[i].status = "in_progress"
      BY <1>1, <1>7, <2>1, <2>2 DEF Receipts
    <3> QED  BY <1>7, <2>1, <2>2, <3>1 DEF Unreserved
  <2>3. CASE i # r.id
    BY <1>1, <1>2, <1>7, <2>3
  <2> QED  BY <2>2, <2>3
<1> QED  BY <1>1, <1>3, <1>4, <1>6, <1>7


\* An operation that has left its reservation never gets it back.
LEMMA UnreservedKept ==
  ASSUME ReceiptsInv, [Next]_vars, NEW i \in Ops, i < next, Unreserved(i)
  PROVE  Unreserved(i)'
<1>1. CASE UNCHANGED entries
  BY <1>1 DEF Unreserved
<1>2. CASE \E r \in wire : Handle(r)
  <2>1. PICK r \in wire : Handle(r)
    BY <1>2
  <2>2. i # next
    BY Base DEF ReceiptsInv, Types, RegistryTypes
  <2>3. \/ entries'[i] \in {entries[i], None}
        \/ entries'[i].status \in {"rejected", "in_progress"}
    BY <2>1, <2>2, HandleEntry
  <2> QED  BY <2>3 DEF Unreserved
<1>3. CASE \E m \in events : Event(m)
  <2>1. PICK m \in events : Event(m)
    BY <1>3
  <2>2. CASE i = m[2] /\ entries[i] # None
    <3>1. entries[i] \in Receipts /\ m \in Events
      BY <2>2, <2>1, EventEffect DEF ReceiptsInv, Types, RegistryTypes
    <3>2. entries'[i] = Settle(entries[i], m[1], m[3])
      BY <2>1, <2>2, EventEffect
    <3> QED  BY <2>2, <3>1, <3>2, SettleEffect DEF Unreserved
  <2>3. CASE i # m[2] \/ entries[i] = None
    <3>1. entries'[i] = entries[i] \/ entries'[i] = None
      BY <2>1, <2>3, EventEffect
    <3> QED  BY <3>1 DEF Unreserved
  <2> QED  BY <2>2, <2>3
<1>4. CASE Reply
  BY <1>1, <1>4 DEF Reply
<1>5. CASE RegistryLost \/ \E w \in Workspaces : Redeploy(w)
  BY <1>5 DEF RegistryLost, Redeploy, Unreserved
<1>6. CASE NodeStep
  BY <1>1, <1>6, NodeApart
<1>7. CASE \E w \in Workspaces : ClientActs(w)
  BY <1>1, <1>7, ClientsApart
<1>8. CASE UNCHANGED vars
  BY <1>1, <1>8 DEF vars, regVars
<1> QED  BY <1>2, <1>3, <1>4, <1>5, <1>6, <1>7, <1>8 DEF Next, RegistryStep, ClientActs

\* The node has one operation at a time and lets go of it before it is over.
LEMMA NodeOnCalls ==
  ASSUME ReceiptsInv, NodeStep, NEW i \in Ops
  PROVE  /\ \/ calls'[i] = calls[i] /\ (Running(i)' => Running(i))
            \/ calls[i] = 1 /\ calls'[i] = 0
         /\ loads'[i] = loads[i] \/ (Running(i) /\ run.at = "prepared" /\ loads'[i] = loads[i] + 1)
<1>0. calls \in [Ops -> {0, 1}] /\ loads \in [Ops -> {0, 1}] /\ run \in Runs \cup {None}
  BY DEF ReceiptsInv, Types, NodeTypes
<1>1. CASE \E j \in Ops : Admit(j)
  <2>1. PICK j \in Ops : Admit(j)
    BY <1>1
  <2>2. loads' = loads /\ calls' = [calls EXCEPT ![j] = @ - 1] /\ calls[j] > 0
        /\ (run' = run \/ run' = [id |-> j, at |-> "prepared", told |-> FALSE])
    BY <2>1 DEF Admit
  <2>3. CASE i = j
    BY <1>0, <2>2, <2>3
  <2>4. CASE i # j
    BY <1>0, <2>2, <2>4 DEF Running
  <2> QED  BY <2>3, <2>4
<1>2. CASE \E j \in Ops : WorkerDies(j)
  BY <1>2 DEF WorkerDies, Running
<1>3. CASE Undo \/ Unfence \/ RecoveryStuck
  BY <1>3 DEF Undo, Unfence, RecoveryStuck, Running
<1>4. CASE Publish \/ ApplicatorFails
  <2>1. run # None /\ run'.id = run.id /\ UNCHANGED <<calls, loads>>
    BY <1>0, <1>4 DEF Publish, ApplicatorFails, Runs
  <2> QED  BY <2>1 DEF Running
<1>5. CASE Load
  <2>1. /\ run # None /\ run.at = "prepared" /\ run.id \in Ops /\ calls' = calls
        /\ (run' = None \/ run'.id = run.id)
        /\ loads' = [loads EXCEPT ![run.id] = @ + 1]
    BY <1>0, <1>5 DEF Load, Runs
  <2> QED  BY <1>0, <2>1 DEF Running
<1> QED  BY <1>1, <1>2, <1>3, <1>4, <1>5 DEF NodeStep

LEMMA FinalKept ==
  ASSUME ReceiptsInv, [Next]_vars, NEW i \in Ops, i < next, NEW n, Final(i, n)
  PROVE  Final(i, n)'
<1>1. Unreserved(i)'
  BY UnreservedKept DEF Final
<1>2. CASE UNCHANGED <<loads, calls, run>>
  BY <1>1, <1>2 DEF Final, Over, Running
<1>3. CASE NodeStep
  <2>1. calls[i] = 0 /\ ~Running(i) /\ loads[i] = n
    BY DEF Final, Over
  <2>2. calls'[i] = 0 /\ ~Running(i)' /\ loads'[i] = n
    BY <1>3, <2>1, NodeOnCalls
  <2> QED  BY <1>1, <2>2 DEF Final, Over
<1>4. CASE \E r \in wire : Handle(r)
  <2>1. PICK r \in wire : Handle(r)
    BY <1>4
  <2>2. UNCHANGED <<loads, run>>
    BY <2>1 DEF Handle
  <2>3. i # next
    BY Base DEF ReceiptsInv, Types, RegistryTypes
  <2>4. calls'[i] = calls[i]
    BY <2>1, <2>3, HandleEntry DEF Final
  <2> QED  BY <1>1, <2>2, <2>4 DEF Final, Over, Running
<1>5. CASE Reply \/ RegistryLost
  BY <1>2, <1>5 DEF Reply, RegistryLost, nodeVars
<1>6. CASE \E m \in events : Event(m)
  BY <1>2, <1>6, EventEffect
<1>7. CASE \E w \in Workspaces : Redeploy(w)
  BY <1>1, <1>7 DEF Redeploy, Final, Over, Running
<1>8. CASE \E w \in Workspaces : ClientActs(w)
  BY <1>2, <1>8, ClientsApart
<1>9. CASE UNCHANGED vars
  BY <1>2, <1>9 DEF vars, nodeVars
<1> QED  BY <1>3, <1>4, <1>5, <1>6, <1>7, <1>8, <1>9 DEF Next, RegistryStep, ClientActs


\* A client settles the operation in its journal, by an answer that names it.
LEMMA ClosedChange ==
  ASSUME ReceiptsInv, NEW w \in Workspaces, ClientActs(w)
  PROVE  \/ UNCHANGED closed
         \/ /\ Unlink(w) /\ journal[w].id \in Of(w)
            /\ \E r \in {"applied", "rejected"} :
                 /\ StatusTrue(journal[w].id, r)
                 /\ closed' = [closed EXCEPT ![journal[w].id] = r]
<1>1. CASE Start(w) \/ Compile(w) \/ PlanReload(w) \/ Exit(w) \/ Reserved(w)
  BY <1>1 DEF Start, Compile, PlanReload, Exit, Reserved
<1>2. CASE SavePending(w) \/ SaveFails(w) \/ Submit(w) \/ Poll(w) \/ Finish(w)
  BY <1>2 DEF SavePending, SaveFails, Submit, Poll, Finish
<1>3. CASE Crash(w) \/ Timeout(w) \/ Build(w) \/ \E v \in Versions : Edit(w, v)
  BY <1>3 DEF Crash, Timeout, Build, Edit
<1>4. CASE Unlink(w)
  <2> DEFINE r == Resolution(journal[w], got[w])
  <2>1. pc[w] = "unlink" /\ closed' = [closed EXCEPT ![journal[w].id] = r]
    BY <1>4 DEF Unlink
  <2>2. /\ journal[w] \notin {None, Torn} /\ journal[w].id \in Of(w) /\ r # "unknown"
        /\ got[w].status # "none" => StatusTrue(got[w].id, got[w].status)
    BY <2>1, ClientAt DEF ClientOk
  <2>3. /\ got[w].status # "none" /\ got[w].id = journal[w].id
        /\ r \in {"applied", "rejected"} /\ got[w].status = r
    BY <2>2 DEF Resolution
  <2> HIDE DEF r
  <2>4. StatusTrue(journal[w].id, r)
    BY <2>2, <2>3
  <2> QED  BY <1>4, <2>1, <2>2, <2>3, <2>4
<1> QED  BY <1>1, <1>2, <1>3, <1>4 DEF ClientActs, ClientStep

LEMMA OnceKept ==
  ASSUME ReceiptsInv, [Next]_vars
  PROVE  Once'
<1> SUFFICES ASSUME NEW i \in Ops
             PROVE  /\ calls'[i] = 1 => loads'[i] = 0 /\ ~Running(i)'
                    /\ Running(i)' => loads'[i] = IF run'.at = "prepared" THEN 0 ELSE 1
                    /\ ~Unreserved(i)' => loads'[i] = 0 /\ Over(i)'
                    /\ i >= next' => loads'[i] = 0 /\ Over(i)' /\ entries'[i] = None
                                     /\ closed'[i] = "open"
  BY DEF Once
<1>1. /\ calls[i] = 1 => loads[i] = 0 /\ ~Running(i)
      /\ Running(i) => loads[i] = IF run.at = "prepared" THEN 0 ELSE 1
      /\ ~Unreserved(i) => loads[i] = 0 /\ Over(i)
      /\ i >= next => loads[i] = 0 /\ Over(i) /\ entries[i] = None /\ closed[i] = "open"
  BY DEF ReceiptsInv, Once
<1>2. CASE UNCHANGED <<calls, loads, run, entries, next, closed>>
  BY <1>1, <1>2 DEF Unreserved, Over, Running
<1>3. CASE NodeStep
  <2>1. /\ \/ calls'[i] = calls[i] /\ (Running(i)' => Running(i))
           \/ calls[i] = 1 /\ calls'[i] = 0
        /\ loads'[i] = loads[i] \/ (Running(i) /\ run.at = "prepared" /\ loads'[i] = loads[i] + 1)
        /\ UNCHANGED <<entries, next, closed>>
    BY <1>3, NodeOnCalls, NodeApart DEF clientVars
  <2>2. Running(i)' => loads'[i] = IF run'.at = "prepared" THEN 0 ELSE 1
    <3> SUFFICES ASSUME Running(i)' PROVE loads'[i] = IF run'.at = "prepared" THEN 0 ELSE 1
      OBVIOUS
    <3>0. calls \in [Ops -> {0, 1}] /\ loads \in [Ops -> {0, 1}] /\ run \in Runs \cup {None}
      BY DEF ReceiptsInv, Types, NodeTypes
    <3>1. CASE UNCHANGED <<run, loads>>
      BY <1>1, <3>1 DEF Running
    <3>2. CASE \E j \in Ops : Admit(j)
      <4>1. PICK j \in Ops : Admit(j)
        BY <3>2
      <4>2. calls[j] = 1 /\ loads' = loads
        BY <3>0, <4>1 DEF Admit
      <4>3. run' = run \/ (run' = [id |-> j, at |-> "prepared", told |-> FALSE])
        BY <4>1 DEF Admit
      <4> QED  BY <1>1, <3>1, <4>2, <4>3 DEF Running
    <3>3. CASE Undo \/ Unfence \/ RecoveryStuck
      BY <3>3 DEF Undo, Unfence, RecoveryStuck, Running
    <3>4. CASE Publish \/ ApplicatorFails
      <4>1. /\ loads' = loads /\ run # None /\ run'.id = run.id
            /\ (run'.at = "prepared" <=> run.at = "prepared")
        BY <3>0, <3>4 DEF Publish, ApplicatorFails, Runs
      <4> QED  BY <1>1, <4>1 DEF Running
    <3>5. CASE Load
      <4>1. /\ run # None /\ run.at = "prepared" /\ run'.id = run.id /\ run'.at = "loaded"
            /\ loads' = [loads EXCEPT ![run.id] = @ + 1]
        BY <3>0, <3>5 DEF Load, Runs, Running
      <4> QED  BY <1>1, <3>0, <4>1 DEF Running
    <3>6. CASE \E j \in Ops : WorkerDies(j)
      BY <3>1, <3>6 DEF WorkerDies
    <3> QED  BY <1>3, <3>2, <3>3, <3>4, <3>5, <3>6 DEF NodeStep
  <2>3. ~Unreserved(i)' => ~Unreserved(i)
    BY <2>1 DEF Unreserved
  <2>4. Over(i) => Over(i)' /\ loads'[i] = loads[i]
    BY <2>1 DEF Over
  <2>5. calls'[i] = 1 => loads'[i] = 0 /\ ~Running(i)'
    BY <1>1, <2>1
  <2> QED  BY <1>1, <2>1, <2>2, <2>3, <2>4, <2>5
<1>4. CASE \E r \in wire : Handle(r)
  <2>1. PICK r \in wire : Handle(r)
    BY <1>4
  <2>2. UNCHANGED <<loads, run, closed>>
    BY <2>1 DEF Handle
  <2>3. next \in Nat /\ i \in Nat /\ calls \in [Ops -> {0, 1}]
    BY Base DEF ReceiptsInv, Types, RegistryTypes, NodeTypes
  <2>4. next' = next \/ (next' = next + 1 /\ UNCHANGED calls)
    BY <2>1, HandleEntry
  <2>5. CASE entries'[i] \in {entries[i], None} /\ calls'[i] = calls[i]
    <3>1. ~Unreserved(i)' => ~Unreserved(i)
      BY <2>5 DEF Unreserved
    <3>2. i >= next' => i >= next /\ entries'[i] = None
      BY <1>1, <2>3, <2>4, <2>5
    <3> QED  BY <1>1, <2>2, <2>5, <3>1, <3>2 DEF Over, Running
  <2>6. CASE i = next /\ next' = next + 1 /\ UNCHANGED calls
    <3>1. i >= next /\ ~(i >= next')
      BY <2>3, <2>6
    <3> QED  BY <1>1, <2>2, <2>6, <3>1 DEF Over, Running
  <2>7. CASE i < next /\ ~Unreserved(i) /\ entries'[i].status = "rejected" /\ UNCHANGED calls
    <3>1. Unreserved(i)' /\ ~(i >= next')
      BY <2>3, <2>4, <2>7 DEF Unreserved
    <3> QED  BY <1>1, <2>2, <2>7, <3>1 DEF Over, Running
  <2>8. CASE /\ i < next /\ ~Unreserved(i) /\ entries'[i].status = "in_progress"
             /\ calls' = [calls EXCEPT ![i] = @ + 1]
    <3>1. Unreserved(i)' /\ ~(i >= next')
      BY <2>3, <2>4, <2>8 DEF Unreserved
    <3> QED  BY <1>1, <2>2, <2>8, <3>1 DEF Over, Running
  <2> QED  BY <2>1, <2>5, <2>6, <2>7, <2>8, HandleEntry
<1>5. CASE \E m \in events : Event(m)
  <2>1. PICK m \in events : Event(m)
    BY <1>5
  <2>2. UNCHANGED <<calls, loads, run, next, closed>> /\ (entries[i] = None => entries'[i] = None)
    BY <2>1, EventEffect DEF clientVars
  <2>3. ~Unreserved(i)' => ~Unreserved(i)
    <3>1. CASE i < next
      BY <3>1, UnreservedKept
    <3>2. CASE i >= next
      BY <1>1, <2>2, <3>2 DEF Unreserved
    <3> QED  BY <3>1, <3>2, HandedOut
  <2> QED  BY <1>1, <2>2, <2>3 DEF Over, Running
<1>6. CASE Reply
  BY <1>2, <1>6 DEF Reply, nodeVars
<1>7. CASE RegistryLost
  BY <1>1, <1>7 DEF RegistryLost, nodeVars, clientVars, Unreserved, Over, Running
<1>8. CASE \E w \in Workspaces : Redeploy(w)
  <2>1. calls'[i] = 0 /\ run' = None /\ entries'[i] = None /\ UNCHANGED <<loads, next, closed>>
    BY <1>8 DEF Redeploy
  <2> QED  BY <1>1, <2>1 DEF Unreserved, Over, Running
<1>9. CASE \E w \in Workspaces : ClientActs(w)
  <2>1. PICK w \in Workspaces : ClientActs(w)
    BY <1>9
  <2>2. UNCHANGED <<calls, loads, run, entries, next>>
    BY <2>1, ClientsApart
  <2>3. i >= next => closed'[i] = closed[i]
    <3>1. CASE UNCHANGED closed
      BY <3>1
    <3>2. CASE /\ journal[w].id \in Of(w)
               /\ \E r \in {"applied", "rejected"} : closed' = [closed EXCEPT ![journal[w].id] = r]
      <4>1. closed \in [Ops -> {"open", "applied", "rejected"}] /\ next \in Nat /\ i \in Nat
        BY Base DEF ReceiptsInv, Types, ClientTypes, RegistryTypes
      <4>2. i >= next => i # journal[w].id
        BY <3>2, <4>1 DEF Of
      <4> QED  BY <3>2, <4>1, <4>2
    <3> QED  BY <2>1, <3>1, <3>2, ClosedChange
  <2> QED  BY <1>1, <2>2, <2>3 DEF Unreserved, Over, Running
<1>10. CASE UNCHANGED vars
  BY <1>2, <1>10 DEF vars, nodeVars, regVars, clientVars
<1> QED  BY <1>3, <1>4, <1>5, <1>6, <1>7, <1>8, <1>9, <1>10 DEF Next, RegistryStep, ClientActs


\* What is true of an event stays true while it waits.
EventTrue(m) ==
  /\ m[2] < next /\ Unreserved(m[2])
  /\ m[1] = "result" /\ m[3] = "ok" => Final(m[2], 1)
  /\ m[1] = "result" /\ m[3] = "rejected" => Final(m[2], 0)

LEMMA EventKept ==
  ASSUME ReceiptsInv, [Next]_vars, NEW m \in events
  PROVE  EventTrue(m)'
<1>1. EventTrue(m) /\ m[2] \in Ops
  BY DEF ReceiptsInv, EventsTrue, EventTrue, Types, RegistryTypes, Events
<1>2. next' \in {next, next + 1} /\ next \in Nat /\ m[2] \in Nat
  <2>1. next \in Nat
    BY Base DEF ReceiptsInv, Types, RegistryTypes
  <2> QED  BY <1>1, <2>1, NextGrows, Base
<1>3. m[2] < next'
  BY <1>1, <1>2 DEF EventTrue
<1>4. Unreserved(m[2])'
  BY <1>1, UnreservedKept DEF EventTrue
<1>5. \A n : Final(m[2], n) => Final(m[2], n)'
  BY <1>1, FinalKept DEF EventTrue
<1> QED  BY <1>1, <1>3, <1>4, <1>5 DEF EventTrue

LEMMA EventsKept ==
  ASSUME ReceiptsInv, [Next]_vars
  PROVE  EventsTrue'
<1> SUFFICES ASSUME NEW m \in events' PROVE EventTrue(m)'
  BY DEF EventsTrue, EventTrue
<1>0. CASE m \in events
  BY <1>0, EventKept
<1>1. CASE events' \subseteq events
  BY <1>0, <1>1
<1> DEFINE Told(i, out) == m \in Result(i, out)
<1>2. \A i \in Ops : /\ \A out : Told(i, out) => m = <<"result", i, out>>
  BY DEF Result
<1>3. ASSUME NEW i \in Ops, NodeStep, calls[i] = 1 \/ Running(i)
      PROVE  i < next' /\ Unreserved(i)'
  <2>1. calls[i] # 0 \/ Running(i)
    BY <1>3
  <2>2. i < next
    BY <2>1, HandedOut
  <2>3. Unreserved(i)
    BY <1>3 DEF ReceiptsInv, Once, Over
  <2> QED  BY <1>3, <2>2, <2>3, NodeApart, UnreservedKept
<1>4. CASE \E i \in Ops : Admit(i) \/ WorkerDies(i)
  <2>1. PICK i \in Ops : Admit(i) \/ WorkerDies(i)
    BY <1>4
  <2>2. NodeStep
    BY <1>4 DEF NodeStep
  <2>3. CASE Admit(i)
    <3>1. calls[i] = 1 /\ calls'[i] = 0 /\ loads' = loads
      BY <2>3 DEF Admit, ReceiptsInv, Types, NodeTypes
    <3>2. loads[i] = 0 /\ ~Running(i)
      BY <3>1 DEF ReceiptsInv, Once
    <3>3. i < next' /\ Unreserved(i)'
      BY <1>3, <2>2, <3>1
    <3>4. CASE m \notin events
      <4>1. /\ m = <<"result", i, "failed">> \/ m = <<"result", i, "rejected">>
            /\ UNCHANGED run
        BY <2>3, <3>4 DEF Admit, Result
      <4>2. Final(i, 0)'
        BY <3>1, <3>2, <3>3, <4>1 DEF Final, Over, Running
      <4>3. m[2] = i /\ m[3] # "ok"
        BY <4>1
      <4> QED  BY <3>3, <4>2, <4>3 DEF EventTrue
    <3> QED  BY <1>0, <3>4
  <2>4. CASE WorkerDies(i)
    <3>1. calls[i] = 1 \/ Running(i)
      BY <2>4 DEF WorkerDies, Running, ReceiptsInv, Types, NodeTypes
    <3>2. CASE m = <<"down", i, "none">>
      BY <1>3, <2>2, <3>1, <3>2 DEF EventTrue
    <3> QED  BY <1>0, <2>4, <3>2 DEF WorkerDies
  <2> QED  BY <2>1, <2>3, <2>4
<1>5. ASSUME run # None
      PROVE  \E i \in Ops : /\ run.id = i /\ Running(i) /\ calls[i] = 0
                            /\ loads[i] = IF run.at = "prepared" THEN 0 ELSE 1
  <2>1. run.id \in Ops /\ Running(run.id) /\ calls[run.id] \in {0, 1}
    BY <1>5 DEF ReceiptsInv, Types, NodeTypes, Runs, Running
  <2> QED  BY <2>1 DEF ReceiptsInv, Once
<1>6. CASE Undo \/ Unfence \/ ApplicatorFails \/ RecoveryStuck
  <2>1. NodeStep /\ UNCHANGED <<calls, loads>> /\ run # None
    BY <1>6 DEF NodeStep, Undo, Unfence, ApplicatorFails, RecoveryStuck
  <2>2. PICK i \in Ops : /\ run.id = i /\ Running(i) /\ calls[i] = 0
                         /\ loads[i] = IF run.at = "prepared" THEN 0 ELSE 1
    BY <1>5, <2>1
  <2>3. i < next' /\ Unreserved(i)'
    BY <1>3, <2>1, <2>2
  <2>4. CASE ApplicatorFails \/ RecoveryStuck
    <3>1. CASE m = <<"result", i, "failed">>
      BY <2>3, <3>1 DEF EventTrue
    <3> QED  BY <1>0, <2>2, <2>4, <3>1 DEF ApplicatorFails, RecoveryStuck, Result
  <2>5. CASE Undo
    <3>1. Final(i, 0)'
      BY <2>1, <2>2, <2>3, <2>5 DEF Undo, Final, Over, Running
    <3>2. CASE m = <<"result", i, "rejected">>
      BY <2>3, <3>1, <3>2 DEF EventTrue
    <3> QED  BY <1>0, <2>2, <2>5, <3>2 DEF Undo, Result
  <2>6. CASE Unfence
    <3>1. Final(i, 1)'
      BY <2>1, <2>2, <2>3, <2>6 DEF Unfence, Final, Over, Running
    <3>2. CASE m = <<"result", i, "ok">>
      BY <2>3, <3>1, <3>2 DEF EventTrue
    <3> QED  BY <1>0, <2>2, <2>6, <3>2 DEF Unfence, Result
  <2> QED  BY <1>6, <2>4, <2>5, <2>6
<1>7. CASE Load
  <2>1. NodeStep /\ run # None
    BY <1>7 DEF NodeStep, Load
  <2>2. PICK i \in Ops : run.id = i /\ Running(i)
    BY <1>5, <2>1
  <2>3. i < next' /\ Unreserved(i)'
    BY <1>3, <2>1, <2>2
  <2>4. CASE m = <<"committed", i, "none">>
    BY <2>3, <2>4 DEF EventTrue
  <2> QED  BY <1>0, <1>7, <2>2, <2>4 DEF Load
<1>8. CASE Publish \/ Reply \/ RegistryLost
  BY <1>1, <1>8 DEF Publish, Reply, RegistryLost, regVars
<1>9. CASE \E r \in wire : Handle(r)
  BY <1>1, <1>9 DEF Handle
<1>10. CASE \E e \in events : Event(e)
  BY <1>1, <1>10, EventEffect
<1>11. CASE \E w \in Workspaces : Redeploy(w) \/ ClientActs(w)
  BY <1>1, <1>11, ClientsApart DEF Redeploy
<1>12. CASE UNCHANGED vars
  BY <1>1, <1>12 DEF vars, regVars
<1> QED  BY <1>4, <1>6, <1>7, <1>8, <1>9, <1>10, <1>11, <1>12
            DEF Next, NodeStep, RegistryStep, ClientActs


\* The operation just reserved is reserved.
LEMMA ReservedEntry ==
  ASSUME ReceiptsInv, NEW r \in wire, Handle(r), next' = next + 1
  PROVE  next \in Ops /\ entries'[next].status = "reserved"
<1>0. Types /\ next \in Nat
  BY Base DEF ReceiptsInv, Types, RegistryTypes
<1>1. PICK kept \in [Ops -> Receipts \cup {None}] :
        \/ UNCHANGED next
        \/ /\ next \in Ops
           /\ entries' = [kept EXCEPT ![next] = [status |-> "reserved", committed |-> FALSE]]
  BY <1>0, HandleEffect
<1> QED  BY <1>0, <1>1

LEMMA EntriesKept ==
  ASSUME ReceiptsInv, [Next]_vars
  PROVE  EntriesTrue'
<1> SUFFICES ASSUME NEW i \in Ops, entries'[i] # None
             PROVE  StatusTrue(i, entries[i].status)'
  BY DEF EntriesTrue
<1>0. CASE entries'[i] = entries[i]
  <2>1. i < next /\ StatusTrue(i, entries[i].status)
    BY <1>0, HandedOut DEF ReceiptsInv, EntriesTrue
  <2>2. \A n : Final(i, n) => Final(i, n)'
    BY <2>1, FinalKept
  <2> QED  BY <1>0, <2>1, <2>2 DEF StatusTrue
<1>1. CASE UNCHANGED entries
  BY <1>0, <1>1
<1>2. CASE \E r \in wire : Handle(r)
  <2>1. PICK r \in wire : Handle(r)
    BY <1>2
  <2>2. CASE i = next /\ next' = next + 1 /\ r.kind = "reserve"
    <3>1. entries'[i].status = "reserved"
      BY <2>1, <2>2, ReservedEntry
    <3> QED  BY <3>1 DEF StatusTrue
  <2>3. CASE i < next /\ ~Unreserved(i) /\ entries'[i].status = "rejected" /\ UNCHANGED calls
    <3>1. loads[i] = 0 /\ Over(i)
      BY <2>3 DEF ReceiptsInv, Once
    <3>2. UNCHANGED <<loads, run>>
      BY <2>1 DEF Handle
    <3> QED  BY <2>3, <3>1, <3>2 DEF StatusTrue, Final, Over, Running, Unreserved
  <2>4. CASE entries'[i].status = "in_progress"
    BY <2>4 DEF StatusTrue
  <2> QED  BY <1>0, <2>1, <2>2, <2>3, <2>4, HandleEntry
<1>3. CASE \E m \in events : Event(m)
  <2>1. PICK m \in events : Event(m)
    BY <1>3
  <2>2. CASE i # m[2]
    BY <1>0, <2>1, <2>2, EventEffect
  <2>3. CASE i = m[2]
    <3>1. entries[i] # None /\ entries'[i] = Settle(entries[i], m[1], m[3]) /\ m \in Events
      BY <2>1, <2>3, EventEffect
    <3>2. entries[i] \in Receipts
      BY <3>1 DEF ReceiptsInv, Types, RegistryTypes
    <3>3. CASE entries'[i].status = entries[i].status
      <4>1. i < next /\ StatusTrue(i, entries[i].status)
        BY <3>1, HandedOut DEF ReceiptsInv, EntriesTrue
      <4>2. \A n : Final(i, n) => Final(i, n)'
        BY <4>1, FinalKept
      <4> QED  BY <3>3, <4>1, <4>2 DEF StatusTrue
    <3>4. CASE entries'[i].status = "recovery_required"
      BY <3>4 DEF StatusTrue
    <3>5. EventTrue(m)'
      BY <2>1, EventKept
    <3>6. CASE entries'[i].status = "applied" /\ m[1] = "result" /\ m[3] = "ok"
      BY <2>3, <3>5, <3>6 DEF EventTrue, StatusTrue
    <3>7. CASE entries'[i].status = "rejected" /\ m[1] = "result" /\ m[3] = "rejected"
      BY <2>3, <3>5, <3>7 DEF EventTrue, StatusTrue
    <3> QED  BY <3>1, <3>2, <3>3, <3>4, <3>6, <3>7, SettleEffect
  <2> QED  BY <2>2, <2>3
<1>4. CASE Reply
  BY <1>1, <1>4 DEF Reply
<1>5. CASE RegistryLost \/ \E w \in Workspaces : Redeploy(w)
  BY <1>5 DEF RegistryLost, Redeploy
<1>6. CASE NodeStep
  BY <1>1, <1>6, NodeApart
<1>7. CASE \E w \in Workspaces : ClientActs(w)
  BY <1>1, <1>7, ClientsApart
<1>8. CASE UNCHANGED vars
  BY <1>1, <1>8 DEF vars, regVars
<1> QED  BY <1>2, <1>3, <1>4, <1>5, <1>6, <1>7, <1>8 DEF Next, RegistryStep, ClientActs

LEMMA ClosedKept ==
  ASSUME ReceiptsInv, [Next]_vars
  PROVE  ClosedFinal'
<1> SUFFICES ASSUME NEW i \in Ops
             PROVE  StatusTrue(i, closed[i])'
  BY DEF ClosedFinal
<1>0. CASE closed'[i] = closed[i]
  <2>1. closed[i] = "open" \/ i < next
    BY HandedOut
  <2>2. StatusTrue(i, closed[i])
    BY DEF ReceiptsInv, ClosedFinal
  <2>3. i < next => \A n : Final(i, n) => Final(i, n)'
    BY FinalKept
  <2> QED  BY <1>0, <2>1, <2>2, <2>3 DEF StatusTrue
<1>1. CASE \E w \in Workspaces : ClientActs(w)
  <2>1. PICK w \in Workspaces : ClientActs(w)
    BY <1>1
  <2>2. CASE UNCHANGED closed
    BY <1>0, <2>2
  <2>3. ASSUME journal[w].id \in Of(w), NEW r \in {"applied", "rejected"},
               StatusTrue(journal[w].id, r), closed' = [closed EXCEPT ![journal[w].id] = r]
        PROVE  StatusTrue(i, closed[i])'
    <3>1. closed \in [Ops -> {"open", "applied", "rejected"}]
      BY DEF ReceiptsInv, Types, ClientTypes
    <3>2. CASE i = journal[w].id
      <4>1. i < next /\ closed'[i] = r
        BY <2>3, <3>1, <3>2 DEF Of
      <4>2. \A n : Final(i, n) => Final(i, n)'
        BY <4>1, FinalKept
      <4> QED  BY <2>3, <3>2, <4>1, <4>2 DEF StatusTrue
    <3>3. CASE i # journal[w].id
      BY <1>0, <2>3, <3>1, <3>3
    <3> QED  BY <3>2, <3>3
  <2> QED  BY <2>1, <2>2, <2>3, ClosedChange
<1>2. CASE NodeStep
  BY <1>0, <1>2, NodeApart DEF clientVars
<1>3. CASE RegistryStep \/ \E w \in Workspaces : Redeploy(w)
  <2>1. UNCHANGED closed
    BY <1>3 DEF RegistryStep, Handle, Event, Reply, RegistryLost, Redeploy, clientVars
  <2> QED  BY <1>0, <2>1
<1>4. CASE UNCHANGED vars
  BY <1>0, <1>4 DEF vars, clientVars
<1> QED  BY <1>1, <1>2, <1>3, <1>4 DEF Next, ClientActs


-----------------------------------------------------------------------------
(* Types, requests and what commands hold, after any step. *)

LEMMA ProperKept ==
  ASSUME ReceiptsInv, [Next]_vars, NEW r \in Requests, Proper(r)
  PROVE  Proper(r)'
<1>1. r.w \in Workspaces
  BY DEF Requests
<1>2. Of(r.w) \subseteq Of(r.w)'
  BY <1>1, OfKept DEF ReceiptsInv
<1>3. CASE r.kind = "reserve"
  BY <1>3 DEF Proper
<1>4. CASE r.kind # "reserve"
  BY <1>2, <1>4 DEF Proper
<1> QED  BY <1>3, <1>4

LEMMA WireKept ==
  ASSUME ReceiptsInv, [Next]_vars
  PROVE  WireProper' /\ wire' \in SUBSET Requests
<1>1. wire \in SUBSET Requests /\ \A r \in wire : Proper(r)
  BY DEF ReceiptsInv, WireProper, Types, RegistryTypes
<1>2. CASE wire' \subseteq wire
  BY <1>1, <1>2, ProperKept DEF WireProper
<1>3. CASE \E w \in Workspaces : ClientActs(w)
  BY <1>3, ClientMoves DEF Writes
<1>4. CASE NodeStep
  BY <1>2, <1>4, NodeApart
<1>5. CASE RegistryStep \/ \E w \in Workspaces : Redeploy(w)
  BY <1>2, <1>5 DEF RegistryStep, Handle, Event, Reply, RegistryLost, Redeploy
<1>6. CASE UNCHANGED vars
  BY <1>2, <1>6 DEF vars
<1> QED  BY <1>3, <1>4, <1>5, <1>6 DEF Next, ClientActs

\* What a command holds stays true while the node and the registry go on.
LEMMA OkKept ==
  ASSUME ReceiptsInv, [Next]_vars, NEW w \in Workspaces, NEW p, NEW j, NEW m \in Plans,
         NEW a \in Requests \cup {None}, NEW g \in Answers \cup {NoReceipt},
         ClientOk(w, p, j, m, a, g)
  PROVE  ClientOk(w, p, j, m, a, g)'
<1>1. Of(w) \subseteq Of(w)'
  BY OfKept DEF ReceiptsInv
<1>2. a # None => Proper(a)'
  BY ProperKept DEF ClientOk
<1>3. g.status # "none" => g.id \in Of(w)' /\ StatusTrue(g.id, g.status)'
  <2> SUFFICES ASSUME g.status # "none" PROVE g.id \in Of(w)' /\ StatusTrue(g.id, g.status)'
    OBVIOUS
  <2>1. g.id \in Of(w) /\ g.id \in Ops /\ g.id < next /\ StatusTrue(g.id, g.status)
    BY DEF ClientOk, Of
  <2>2. \A n : Final(g.id, n) => Final(g.id, n)'
    BY <2>1, FinalKept
  <2> QED  BY <1>1, <2>1, <2>2 DEF StatusTrue
<1> QED  BY <1>1, <1>2, <1>3 DEF ClientOk

\* The registry answers with a receipt, which is true, about an operation of the
\* workspace that asks.
LEMMA AnswerTrue ==
  ASSUME ReceiptsInv, Reply
  PROVE  \E w \in Workspaces, a \in Answers :
           /\ a.id \in Of(w) /\ StatusTrue(a.id, a.status)
           /\ \/ UNCHANGED <<got, ask>>
              \/ /\ ask[w] # None /\ got' = [got EXCEPT ![w] = a] /\ ask' = [ask EXCEPT ![w] = None]
<1> DEFINE a == [id |-> view.id, inc |-> inc, status |-> entries[view.id].status,
                 committed |-> entries[view.id].committed, new |-> plan[view.id].new,
                 ver |-> view.ver, fenced |-> fence \/ gen # view.gen]
           w == view.r.w
<1>1. /\ view # None /\ view.r \in Requests /\ view.ver \in Versions /\ entries[view.id] # None
      /\ view.id \in Of(w) /\ w \in Workspaces
  BY DEF Reply, ReceiptsInv, Types, RegistryTypes, ViewOk, Requests
<1>2. /\ view.id \in Ops /\ plan[view.id] \in Payloads /\ entries[view.id] \in Receipts
      /\ inc \in Nat
  BY <1>1 DEF Of, ReceiptsInv, Types, RegistryTypes
<1>3. a \in Answers /\ a.id = view.id /\ a.status = entries[view.id].status
  BY <1>1, <1>2 DEF Answers, Receipts, Payloads
<1>4. StatusTrue(a.id, a.status)
  BY <1>1, <1>2, <1>3 DEF ReceiptsInv, EntriesTrue
<1>5. \/ UNCHANGED <<got, ask>>
      \/ /\ ask[w] = view.r /\ got' = [got EXCEPT ![w] = a] /\ ask' = [ask EXCEPT ![w] = None]
  BY DEF Reply, Answer
<1>6. view.r # None
  BY <1>1, Base
<1> HIDE DEF a
<1> QED  BY <1>1, <1>3, <1>4, <1>5, <1>6


ClientHeld(w) == ClientOk(w, pc[w], journal[w], mem[w], ask[w], got[w])

LEMMA ClientHeldKept ==
  ASSUME ReceiptsInv, [Next]_vars, NEW w \in Workspaces,
         UNCHANGED <<pc[w], journal[w], mem[w], ask[w], got[w]>>
  PROVE  ClientHeld(w)'
BY ClientAt, OkKept DEF ClientHeld

\* An answer, or none, reaches a command that waits.
LEMMA AnswerHeld ==
  ASSUME ReceiptsInv, [Next]_vars, NEW w \in Workspaces, NEW g \in Answers \cup {NoReceipt},
         g.status # "none" => g.id \in Of(w) /\ StatusTrue(g.id, g.status),
         ask[w] # None, ask' = [ask EXCEPT ![w] = None], got' = [got EXCEPT ![w] = g],
         UNCHANGED <<pc, journal, mem>>
  PROVE  ClientInv' /\ ask' \in [Workspaces -> Requests \cup {None}]
         /\ got' \in [Workspaces -> Answers \cup {NoReceipt}]
<1>1. /\ ask \in [Workspaces -> Requests \cup {None}]
      /\ got \in [Workspaces -> Answers \cup {NoReceipt}]
  BY DEF ReceiptsInv, Types, ClientTypes
<1>2. ClientHeld(w)'
  <2>1. ClientOk(w, pc[w], journal[w], mem[w], None, g)
    BY ClientAt DEF ClientOk
  <2>2. ClientOk(w, pc[w], journal[w], mem[w], None, g)'
    BY <2>1, ClientAt, OkKept
  <2>3. ask'[w] = None /\ got'[w] = g
    BY <1>1
  <2> QED  BY <2>2, <2>3 DEF ClientHeld
<1>3. ASSUME NEW v \in Workspaces, v # w PROVE ClientHeld(v)'
  BY <1>1, <1>3, ClientHeldKept
<1>4. \A v \in Workspaces : ClientHeld(v)'
  BY <1>2, <1>3
<1> QED  BY <1>1, <1>4 DEF ClientInv, ClientHeld

\* The type of what clients hold, the outcome of settled operations included.
Held ==
  /\ pc \in [Workspaces -> Pcs] /\ journal \in [Workspaces -> JournalStates]
  /\ mem \in [Workspaces -> Plans] /\ ask \in [Workspaces -> Requests \cup {None}]
  /\ got \in [Workspaces -> Answers \cup {NoReceipt}]

LEMMA HeldNow ==
  ASSUME ReceiptsInv
  PROVE  Held
BY DEF ReceiptsInv, Types, ClientTypes, Held, JournalStates

LEMMA HeldKept ==
  ASSUME ReceiptsInv, [Next]_vars
  PROVE  Held' /\ ClientInv'
<1>0. Held
  BY HeldNow
<1>1. CASE UNCHANGED <<pc, journal, mem, ask, got>>
  <2>1. \A w \in Workspaces : ClientHeld(w)'
    BY <1>1, ClientHeldKept
  <2> QED  BY <1>0, <1>1, <2>1 DEF Held, ClientInv, ClientHeld
<1>2. CASE \E w \in Workspaces : ClientActs(w)
  <2>1. PICK w \in Workspaces : ClientActs(w)
    BY <1>2
  <2>2. PICK p \in Pcs, j \in JournalStates, m \in Plans, a \in Requests \cup {None},
             g \in Answers \cup {NoReceipt} :
          /\ pc' = [pc EXCEPT ![w] = p] /\ journal' = [journal EXCEPT ![w] = j]
          /\ mem' = [mem EXCEPT ![w] = m] /\ ask' = [ask EXCEPT ![w] = a]
          /\ got' = [got EXCEPT ![w] = g]
          /\ ClientOk(w, p, j, m, a, g)
    BY <2>1, ClientMoves DEF Moves
  <2>3. Held'
    BY <1>0, <2>2 DEF Held
  <2>4. ClientOk(w, p, j, m, a, g)'
    BY <2>2, OkKept
  <2>5. pc'[w] = p /\ journal'[w] = j /\ mem'[w] = m /\ ask'[w] = a /\ got'[w] = g
    BY <1>0, <2>2 DEF Held
  <2>6. ClientHeld(w)'
    BY <2>4, <2>5 DEF ClientHeld
  <2>7. ASSUME NEW v \in Workspaces, v # w PROVE ClientHeld(v)'
    <3>1. UNCHANGED <<pc[v], journal[v], mem[v], ask[v], got[v]>>
      BY <1>0, <2>2, <2>7 DEF Held
    <3> QED  BY <3>1, ClientHeldKept
  <2>8. \A v \in Workspaces : ClientHeld(v)'
    BY <2>6, <2>7
  <2> QED  BY <2>3, <2>8 DEF ClientInv, ClientHeld
<1>3. CASE NodeStep
  BY <1>1, <1>3, NodeApart DEF clientVars
<1>4. CASE \E r \in wire : Handle(r)
  <2>1. PICK r \in wire : Handle(r)
    BY <1>4
  <2>2. r.w \in Workspaces /\ r # None
    BY Base DEF ReceiptsInv, Types, RegistryTypes, Requests
  <2>3. UNCHANGED <<pc, journal, mem>>
    BY <2>1 DEF Handle
  <2>4. CASE /\ ask[r.w] = r /\ ask' = [ask EXCEPT ![r.w] = None]
             /\ got' = [got EXCEPT ![r.w] = NoReceipt]
    BY <1>0, <2>2, <2>3, <2>4, PlanTypes, AnswerHeld DEF Held
  <2> QED  BY <1>1, <2>1, <2>3, <2>4, HandleAnswers
<1>5. CASE Reply
  <2>1. UNCHANGED <<pc, journal, mem>>
    BY <1>5 DEF Reply
  <2>2. PICK w \in Workspaces, a \in Answers :
           /\ a.id \in Of(w) /\ StatusTrue(a.id, a.status)
           /\ \/ UNCHANGED <<got, ask>>
              \/ /\ ask[w] # None /\ got' = [got EXCEPT ![w] = a] /\ ask' = [ask EXCEPT ![w] = None]
    BY <1>5, AnswerTrue
  <2>3. CASE ask[w] # None /\ got' = [got EXCEPT ![w] = a] /\ ask' = [ask EXCEPT ![w] = None]
    BY <1>0, <2>1, <2>2, <2>3, AnswerHeld DEF Held
  <2> QED  BY <1>1, <2>1, <2>2, <2>3
<1>6. CASE RegistryLost \/ \E m \in events : Event(m)
  BY <1>1, <1>6, EventEffect DEF RegistryLost, clientVars
<1>7. CASE \E w \in Workspaces : Redeploy(w)
  <2>1. PICK w \in Workspaces : Redeploy(w)
    BY <1>7
  <2>2. pc[w] = "idle" /\ journal' = [journal EXCEPT ![w] = None] /\ UNCHANGED <<pc, mem, ask, got>>
    BY <2>1 DEF Redeploy
  <2>3. Held'
    BY <1>0, <2>2 DEF Held, JournalStates
  <2>4. ClientOk(w, pc[w], None, mem[w], ask[w], got[w])
    BY <2>2, ClientAt DEF ClientOk
  <2>5. ClientOk(w, pc[w], None, mem[w], ask[w], got[w])'
    BY <2>2, <2>4, ClientAt, OkKept
  <2>6. ClientHeld(w)'
    BY <1>0, <2>2, <2>5 DEF ClientHeld, Held
  <2>7. ASSUME NEW v \in Workspaces, v # w PROVE ClientHeld(v)'
    BY <1>0, <2>2, <2>7, ClientHeldKept DEF Held
  <2>8. \A v \in Workspaces : ClientHeld(v)'
    BY <2>6, <2>7
  <2> QED  BY <2>3, <2>8 DEF ClientInv, ClientHeld
<1>8. CASE UNCHANGED vars
  BY <1>1, <1>8 DEF vars, clientVars
<1> QED  BY <1>2, <1>3, <1>4, <1>5, <1>6, <1>7, <1>8 DEF Next, RegistryStep, ClientActs


\* The registry's own state, for every step of its own.
LEMMA HandleTypes ==
  ASSUME ReceiptsInv, NEW r \in wire, Handle(r)
  PROVE  RegistryTypes' /\ NodeTypes' /\ faults' \in Nat
<1>0. Types /\ calls \in [Ops -> {0, 1}] /\ next \in Nat /\ r \in Requests
  BY Base DEF ReceiptsInv, Types, NodeTypes, RegistryTypes
<1>1. PICK kept \in [Ops -> Receipts \cup {None}] :
              /\ \A i \in Ops : kept[i] \in {entries[i], None}
              /\ \/ entries' = kept /\ UNCHANGED <<calls, next, plan, view>>
                 \/ /\ r.kind = "reserve" /\ r.inc = inc /\ next \in Ops /\ next' = next + 1
                    /\ plan' = [plan EXCEPT ![next] = r.plan]
                    /\ entries' = [kept EXCEPT ![next] = [status |-> "reserved", committed |-> FALSE]]
                    /\ View(r, next) /\ UNCHANGED calls
                 \/ /\ r.kind # "reserve" /\ r.inc = inc /\ kept[r.id] # None
                    /\ UNCHANGED <<next, plan>> /\ View(r, r.id)
                    /\ \/ entries' = kept /\ UNCHANGED calls
                       \/ /\ kept[r.id].status = "reserved" /\ r.kind = "cancel"
                          /\ entries' = [kept EXCEPT ![r.id].status = "rejected"] /\ UNCHANGED calls
                       \/ /\ kept[r.id].status = "reserved" /\ r.kind = "submit"
                          /\ entries' = [kept EXCEPT ![r.id].status = "in_progress"]
                          /\ calls' = [calls EXCEPT ![r.id] = @ + 1]
  BY <1>0, HandleEffect
<1>2. /\ UNCHANGED <<ver, code, fence, gen, run, orphans, loads, inc, events>> /\ view = None
      /\ wire' \in SUBSET wire
  BY <1>0, HandleEffect
<1>3. faults' \in Nat
  BY <1>0, HandleEffect, Plain
<1>4. Proper(r)
  BY DEF ReceiptsInv, WireProper
<1>5. /\ entries' \in [Ops -> Receipts \cup {None}] /\ calls' \in [Ops -> {0, 1}]
      /\ next' \in 1..(MaxOps + 1) /\ plan' \in [Ops -> Payloads \cup {None}]
      /\ \A i \in Ops : i < next' => plan'[i] \in Payloads
  <2>1. CASE entries' = kept /\ UNCHANGED <<calls, next, plan, view>>
    BY <1>0, <1>1, <2>1 DEF Types, RegistryTypes
  <2>2. CASE /\ r.kind = "reserve" /\ next \in Ops /\ next' = next + 1 /\ UNCHANGED calls
             /\ plan' = [plan EXCEPT ![next] = r.plan]
             /\ entries' = [kept EXCEPT ![next] = [status |-> "reserved", committed |-> FALSE]]
    <3>1. [status |-> "reserved", committed |-> FALSE] \in Receipts
      BY DEF Receipts, Statuses
    <3>2. r.plan \in Payloads
      BY <1>4, <2>2 DEF Proper
    <3>3. \A i \in Ops : i < next' => i = next \/ i < next
      BY <1>0, <2>2, Base
    <3>4. plan \in [Ops -> Payloads \cup {None}] /\ \A i \in Ops : i < next => plan[i] \in Payloads
      BY <1>0 DEF Types, RegistryTypes
    <3>5. next' \in 1..(MaxOps + 1)
      BY <2>2, Base
    <3>6. plan' \in [Ops -> Payloads \cup {None}] /\ \A i \in Ops : i < next' => plan'[i] \in Payloads
      BY <2>2, <3>2, <3>3, <3>4
    <3> QED  BY <1>0, <2>2, <3>1, <3>5, <3>6
  <2>3. CASE /\ r.kind # "reserve" /\ kept[r.id] # None /\ UNCHANGED <<next, plan>>
             /\ \/ entries' = kept /\ UNCHANGED calls
                \/ entries' = [kept EXCEPT ![r.id].status = "rejected"] /\ UNCHANGED calls
                \/ /\ kept[r.id].status = "reserved"
                   /\ entries' = [kept EXCEPT ![r.id].status = "in_progress"]
                   /\ calls' = [calls EXCEPT ![r.id] = @ + 1]
    <3>1. r.id \in Ops /\ kept[r.id] \in Receipts /\ kept[r.id] = entries[r.id]
      BY <1>1, <1>4, <2>3 DEF Proper, Of
    <3>2. [kept[r.id] EXCEPT !.status = "rejected"] \in Receipts
          /\ [kept[r.id] EXCEPT !.status = "in_progress"] \in Receipts
      BY <3>1 DEF Receipts, Statuses
    <3>3. entries' \in [Ops -> Receipts \cup {None}]
      BY <2>3, <3>1, <3>2
    <3>4. kept[r.id].status = "reserved" => calls[r.id] = 0
      BY <2>3, <3>1 DEF ReceiptsInv, Once, Unreserved, Over
    <3>5. calls' \in [Ops -> {0, 1}]
      BY <1>0, <2>3, <3>1, <3>4
    <3> QED  BY <1>0, <2>3, <3>3, <3>5 DEF Types, RegistryTypes
  <2> QED  BY <1>1, <2>1, <2>2, <2>3
<1>6. ViewOk'
  <2>1. gen' \in Nat /\ ver' \in Versions /\ gen \in Nat /\ ver \in Versions
    BY <1>0, <1>2 DEF Types, NodeTypes
  <2>2. CASE view' = None
    BY <2>2 DEF ViewOk
  <2>3. ASSUME NEW i \in Ops, View(r, i), entries'[i] # None, i \in Of(r.w)'
        PROVE  ViewOk'
    BY <1>0, <2>1, <2>3 DEF View, ViewOk
  <2>4. CASE /\ r.kind = "reserve" /\ next \in Ops /\ next' = next + 1 /\ View(r, next)
             /\ plan' = [plan EXCEPT ![next] = r.plan]
             /\ entries' = [kept EXCEPT ![next] = [status |-> "reserved", committed |-> FALSE]]
    <3>1. [status |-> "reserved", committed |-> FALSE] \in Receipts
      BY DEF Receipts, Statuses
    <3>2. entries'[next] # None
      BY <2>4, <3>1, Base
    <3>3. r.plan \in Payloads /\ r.plan.w = r.w
      BY <1>4, <2>4 DEF Proper
    <3>4. plan'[next] = r.plan /\ next < next'
      BY <1>0, <2>4 DEF Types, RegistryTypes
    <3>5. next \in Of(r.w)'
      BY <2>4, <3>3, <3>4 DEF Of
    <3> QED  BY <2>3, <2>4, <3>2, <3>5
  <2>5. CASE /\ r.kind # "reserve" /\ kept[r.id] # None /\ UNCHANGED <<next, plan>> /\ View(r, r.id)
             /\ entries' \in {kept, [kept EXCEPT ![r.id].status = "rejected"],
                             [kept EXCEPT ![r.id].status = "in_progress"]}
    <3>1. r.id \in Ops /\ r.id \in Of(r.w) /\ kept[r.id] \in Receipts
      BY <1>1, <1>4, <2>5 DEF Proper, Of
    <3>2. [kept[r.id] EXCEPT !.status = "rejected"] \in Receipts
          /\ [kept[r.id] EXCEPT !.status = "in_progress"] \in Receipts
      BY <3>1 DEF Receipts, Statuses
    <3>3. entries'[r.id] \in Receipts
      BY <2>5, <3>1, <3>2
    <3>4. r.id \in Of(r.w)'
      BY <2>5, <3>1 DEF Of
    <3> QED  BY <2>3, <2>5, <3>1, <3>3, <3>4, Base
  <2>6. CASE entries' = kept /\ UNCHANGED view
    BY <1>2, <2>2, <2>6
  <2> QED  BY <1>1, <2>4, <2>5, <2>6
<1>7. RegistryTypes'
  <2>1. inc' \in Nat /\ events' \in SUBSET Events /\ wire' \in SUBSET Requests
    BY <1>0, <1>2 DEF Types, RegistryTypes
  <2> QED  BY <1>5, <1>6, <2>1 DEF RegistryTypes
<1>8. NodeTypes'
  BY <1>0, <1>2, <1>5 DEF Types, NodeTypes
<1> QED  BY <1>3, <1>7, <1>8


LEMMA HandleUnseen ==
  ASSUME NEW r \in wire, Handle(r)
  PROVE  UNCHANGED <<run, loads, inc, src, snap, journal, closed, edits>>
BY DEF Handle

LEMMA TypesKept ==
  ASSUME ReceiptsInv, [Next]_vars
  PROVE  Types'
<1>0. Types
  BY DEF ReceiptsInv
<1>1. \A i \in Ops : (i < next => plan[i] \in Payloads)
  BY <1>0 DEF Types, RegistryTypes
<1>2. /\ pc' \in [Workspaces -> Pcs] /\ journal' \in [Workspaces -> Journals \cup {None, Torn}]
      /\ mem' \in [Workspaces -> Plans] /\ ask' \in [Workspaces -> Requests \cup {None}]
      /\ got' \in [Workspaces -> Answers \cup {NoReceipt}]
  BY HeldKept DEF Held, JournalStates
<1>3. ASSUME UNCHANGED <<src, snap, closed, edits>>, faults' \in Nat PROVE ClientTypes'
  BY <1>0, <1>2, <1>3 DEF Types, ClientTypes
<1>4. CASE NodeStep
  BY <1>4, NodeStepTypes
<1>5. CASE \E r \in wire : Handle(r)
  <2>1. PICK r \in wire : Handle(r)
    BY <1>5
  <2>2. UNCHANGED <<src, snap, closed, edits>>
    BY <2>1, HandleUnseen
  <2> QED  BY <1>3, <2>1, <2>2, HandleTypes DEF Types
<1>6. CASE \E m \in events : Event(m)
  <2>1. PICK m \in events : Event(m)
    BY <1>6
  <2>2. /\ UNCHANGED <<ver, code, fence, gen, run, calls, orphans, loads, inc, view, next, plan,
                       wire, clientVars, faults>>
        /\ entries' \in [Ops -> Receipts \cup {None}] /\ events' \in SUBSET events
    BY <2>1, EventEffect
  <2>3. view' = None
    BY <2>1 DEF Event
  <2>4. RegistryTypes' /\ NodeTypes'
    BY <1>0, <2>2, <2>3 DEF Types, RegistryTypes, NodeTypes, ViewOk
  <2> QED  BY <1>0, <1>3, <2>2, <2>4 DEF Types, clientVars, ClientTypes
<1>7. CASE Reply
  <2>1. UNCHANGED <<nodeVars, inc, entries, events, next, plan, wire, src, snap, closed, edits, faults>>
        /\ view' = None
    BY <1>7 DEF Reply
  <2>2. RegistryTypes' /\ NodeTypes'
    BY <1>0, <2>1 DEF Types, RegistryTypes, NodeTypes, nodeVars, ViewOk
  <2> QED  BY <1>0, <1>3, <2>1, <2>2 DEF Types, ClientTypes
<1>8. CASE RegistryLost
  <2>1. /\ UNCHANGED <<nodeVars, next, plan, wire, clientVars>> /\ inc' = inc + 1 /\ view' = None
        /\ entries' = [i \in Ops |-> None] /\ events' = {} /\ faults' = faults + 1
    BY <1>8 DEF RegistryLost, Fault
  <2>2. RegistryTypes' /\ NodeTypes'
    BY <1>0, <2>1 DEF Types, RegistryTypes, NodeTypes, nodeVars, ViewOk
  <2> QED  BY <1>0, <1>3, <2>1, <2>2 DEF Types, clientVars, ClientTypes
<1>9. CASE \E w \in Workspaces : Redeploy(w)
  <2>1. PICK w \in Workspaces : Redeploy(w)
    BY <1>9
  <2>2. /\ SetSnap(w, src[w]) /\ faults' = faults + 1
        /\ ver' = src[w] /\ code' = src[w] /\ fence' = FALSE /\ run' = None /\ gen' = 0
        /\ calls' = [i \in Ops |-> 0] /\ orphans' = {} /\ events' = {} /\ view' = None
        /\ inc' = inc + 1 /\ entries' = [i \in Ops |-> None]
        /\ UNCHANGED <<loads, next, plan, wire, src, closed, edits>>
    BY <2>1 DEF Redeploy, Fault
  <2>3. src[w] \in Versions
    BY ClientAt
  <2>4. NodeTypes' /\ RegistryTypes'
    <3>1. NodeTypes'
      BY <1>0, <2>2, <2>3 DEF Types, NodeTypes
    <3>2. RegistryTypes'
      BY <1>0, <2>2 DEF Types, RegistryTypes, ViewOk
    <3> QED  BY <3>1, <3>2
  <2>5. snap' \in [Workspaces -> Versions \cup {None}]
    BY <2>2, <2>3, SnapTypes
  <2> QED  BY <1>0, <1>2, <2>2, <2>4, <2>5 DEF Types, ClientTypes
<1>10. CASE \E w \in Workspaces : ClientActs(w)
  <2>1. PICK w \in Workspaces : ClientActs(w)
    BY <1>10
  <2>2. UNCHANGED <<ver, code, fence, gen, run, calls, orphans, loads,
                    inc, entries, events, view, next, plan>>
    BY <2>1, ClientsApart
  <2>3. /\ src' \in [Workspaces -> Versions] /\ snap' \in [Workspaces -> Versions \cup {None}]
        /\ edits' \in Nat /\ faults' \in Nat /\ wire' \in SUBSET Requests
    BY <2>1, ClientMoves DEF Writes
  <2>4. closed' \in [Ops -> {"open", "applied", "rejected"}]
    <3>1. closed \in [Ops -> {"open", "applied", "rejected"}]
      BY <1>0 DEF Types, ClientTypes
    <3> QED  BY <2>1, <3>1, ClosedChange
  <2>5. NodeTypes'
    BY <1>0, <2>2 DEF Types, NodeTypes
  <2>6. ViewOk'
    BY <1>0, <2>2 DEF Types, RegistryTypes, ViewOk, Of
  <2>7. RegistryTypes'
    BY <1>0, <2>2, <2>3, <2>6 DEF Types, RegistryTypes
  <2> QED  BY <1>2, <2>3, <2>4, <2>5, <2>7 DEF Types, ClientTypes
<1>11. CASE UNCHANGED vars
  <2>1. NodeTypes'
    BY <1>0, <1>11 DEF vars, nodeVars, Types, NodeTypes
  <2>2. UNCHANGED <<inc, entries, events, view, next, plan, wire>>
    BY <1>11 DEF vars, regVars
  <2>3. ViewOk'
    BY <1>0, <1>11, <2>1, <2>2 DEF vars, nodeVars, Types, RegistryTypes, ViewOk, Of
  <2>4. RegistryTypes'
    BY <1>0, <2>2, <2>3 DEF Types, RegistryTypes
  <2>5. ClientTypes'
    BY <1>0, <1>11 DEF vars, clientVars, Types, ClientTypes
  <2> QED  BY <2>1, <2>4, <2>5 DEF Types
<1> QED  BY <1>4, <1>5, <1>6, <1>7, <1>8, <1>9, <1>10, <1>11 DEF Next, RegistryStep, ClientActs

-----------------------------------------------------------------------------
(* Journal before dispatch. *)

LEMMA InFlightKnown ==
  ASSUME ReceiptsInv, NEW i \in Ops, InFlight(i)
  PROVE  i < next /\ plan[i] \in Payloads /\ plan[i].w \in Workspaces
         /\ Pending(plan[i].w) /\ journal[plan[i].w].id = i
<1>1. i < next
  <2>1. calls[i] \in {0, 1}
    BY DEF ReceiptsInv, Types, NodeTypes
  <2>2. calls[i] # 0 \/ Running(i) \/ entries[i] # None
    BY <2>1 DEF InFlight, Running
  <2> QED  BY <2>2, HandedOut
<1>2. plan[i] \in Payloads
  BY <1>1 DEF ReceiptsInv, Types, RegistryTypes
<1> QED  BY <1>1, <1>2 DEF ReceiptsInv, Journalled, Payloads

LEMMA FinalLanded ==
  ASSUME NEW i \in Ops, NEW n, Final(i, n), calls[i] \in {0, 1}
  PROVE  ~InFlight(i)
BY DEF Final, Over, Unreserved, Running, InFlight

\* A command writes its journal when nothing of its workspace is in flight, and
\* removes it when the operation is over.
LEMMA JournalStays ==
  ASSUME ReceiptsInv, NEW w \in Workspaces, ClientActs(w), NEW i \in Ops, InFlight(i)
  PROVE  journal'[plan[i].w] = journal[plan[i].w]
<1>0. Held /\ Pending(plan[i].w) /\ journal[plan[i].w].id = i /\ plan[i].w \in Workspaces
  BY HeldNow, InFlightKnown
<1>1. CASE UNCHANGED journal
  BY <1>1
<1>2. ASSUME NEW j, journal' = [journal EXCEPT ![w] = j], journal[w] = None
      PROVE  journal'[plan[i].w] = journal[plan[i].w]
  BY <1>0, <1>2 DEF Held, Pending
<1>3. CASE SavePending(w) \/ SaveFails(w)
  BY <1>2, <1>3, ClientAt DEF SavePending, SaveFails, ClientOk
<1>4. CASE Crash(w)
  <2>1. CASE pc[w] = "save"
    BY <1>2, <1>4, <2>1, ClientAt DEF Crash, ClientOk
  <2>2. CASE pc[w] # "save"
    BY <1>1, <1>4, <2>2, ClientAt DEF Crash
  <2> QED  BY <2>1, <2>2
<1>5. CASE Unlink(w)
  <2>1. journal' = [journal EXCEPT ![w] = None] /\ pc[w] = "unlink"
    BY <1>5 DEF Unlink
  <2>2. CASE plan[i].w = w
    <3>1. Resolution(journal[w], got[w]) # "unknown" /\ got[w].status # "none" =>
            StatusTrue(got[w].id, got[w].status)
      BY <2>1, ClientAt DEF ClientOk
    <3>2. got[w].id = i /\ got[w].status \in {"applied", "rejected"}
      BY <1>0, <2>1, <2>2, ClientAt DEF ClientOk, Resolution
    <3>3. \E n : Final(i, n)
      BY <3>1, <3>2, <2>1, ClientAt DEF ClientOk, StatusTrue
    <3>4. calls[i] \in {0, 1}
      BY DEF ReceiptsInv, Types, NodeTypes
    <3> QED  BY <3>3, <3>4, FinalLanded
  <2>3. CASE plan[i].w # w
    BY <1>0, <2>1, <2>3 DEF Held
  <2> QED  BY <2>2, <2>3
<1>6. CASE Start(w) \/ Compile(w) \/ PlanReload(w) \/ Exit(w) \/ Reserved(w)
  BY <1>1, <1>6 DEF Start, Compile, PlanReload, Exit, Reserved
<1>7. CASE Submit(w) \/ Poll(w) \/ Finish(w) \/ Timeout(w) \/ Build(w) \/ \E v \in Versions : Edit(w, v)
  BY <1>1, <1>7 DEF Submit, Poll, Finish, Timeout, Build, Edit
<1> QED  BY <1>3, <1>4, <1>5, <1>6, <1>7 DEF ClientActs, ClientStep

\* Only a command whose journal names an operation submits it.
LEMMA Dispatches ==
  ASSUME ReceiptsInv, NEW w \in Workspaces, ClientActs(w), NEW i \in Ops, InFlight(i)'
  PROVE  InFlight(i) \/ (plan[i].w = w /\ Pending(w) /\ journal[w].id = i /\ UNCHANGED journal)
<1>0. UNCHANGED <<calls, run, inc, entries>>
  BY ClientsApart
<1>1. CASE wire' \subseteq wire \cup {r \in wire' : r.kind # "submit"}
  BY <1>0, <1>1 DEF InFlight
<1>2. CASE Submit(w)
  <2> DEFINE r == Request("submit", w, mem[w].id, mem[w].inc, None)
  <2>1. wire' = wire \cup {r} /\ r.id = mem[w].id /\ UNCHANGED journal /\ pc[w] = "submit"
    BY <1>2 DEF Submit, Send, Request
  <2>2. /\ mem[w].id \in Of(w) /\ journal[w] \notin {None, Torn} /\ journal[w].id = mem[w].id
    BY <2>1, ClientAt DEF ClientOk
  <2> HIDE DEF r
  <2>3. InFlight(i) \/ i = mem[w].id
    BY <1>0, <2>1 DEF InFlight
  <2> QED  BY <2>1, <2>2, <2>3 DEF Of, Pending
<1>3. CASE Start(w) \/ PlanReload(w) \/ Poll(w)
  <2>1. UNCHANGED wire \/ \E r : wire' = wire \cup {r} /\ r.kind # "submit"
    BY <1>3 DEF Start, PlanReload, Poll, Send, Request
  <2> QED  BY <1>1, <2>1
<1>4. CASE UNCHANGED wire
  BY <1>1, <1>4
<1>5. CASE Compile(w) \/ Exit(w) \/ Reserved(w) \/ SavePending(w) \/ SaveFails(w)
  BY <1>4, <1>5 DEF Compile, Exit, Reserved, SavePending, SaveFails
<1>6. CASE Finish(w) \/ Unlink(w) \/ Crash(w) \/ Timeout(w) \/ Build(w) \/ \E v \in Versions : Edit(w, v)
  BY <1>4, <1>6 DEF Finish, Unlink, Crash, Timeout, Build, Edit
<1> QED  BY <1>2, <1>3, <1>5, <1>6 DEF ClientActs, ClientStep


LEMMA JournalledKept ==
  ASSUME ReceiptsInv, [Next]_vars
  PROVE  Journalled'
<1> SUFFICES ASSUME NEW i \in Ops, InFlight(i)'
             PROVE  (Pending(plan[i].w) /\ journal[plan[i].w].id = i)'
  BY DEF Journalled
<1>1. ASSUME InFlight(i), plan'[i] = plan[i], journal'[plan[i].w] = journal[plan[i].w]
      PROVE  (Pending(plan[i].w) /\ journal[plan[i].w].id = i)'
  BY <1>1, InFlightKnown DEF Pending
<1>2. CASE NodeStep
  <2>1. InFlight(i)
    <3>1. UNCHANGED <<inc, entries, wire>> /\ calls \in [Ops -> {0, 1}]
      BY <1>2, NodeApart DEF ReceiptsInv, Types, NodeTypes
    <3>2. calls'[i] > 0 => calls[i] > 0
      BY <1>2, <3>1, NodeOnCalls
    <3>3. Running(i)' => Running(i) \/ calls[i] > 0
      BY <1>2, NodeOnCalls
    <3> QED  BY <3>1, <3>2, <3>3 DEF InFlight, Running
  <2> QED  BY <1>1, <1>2, <2>1, NodeApart DEF clientVars
<1>3. CASE \E r \in wire : Handle(r)
  <2>1. PICK r \in wire : Handle(r)
    BY <1>3
  <2>2. UNCHANGED <<run, inc, journal>> /\ wire' \subseteq wire /\ Types
    BY <2>1, HandleEffect DEF ReceiptsInv
  <2>3. Proper(r) /\ \A q \in wire : Proper(q)
    BY DEF ReceiptsInv, WireProper
  <2>4. next \in Nat /\ i \in Nat /\ calls \in [Ops -> {0, 1}]
    BY Base DEF ReceiptsInv, Types, RegistryTypes, NodeTypes
  <2>5. ASSUME entries'[i] \in {entries[i], None}, calls'[i] = calls[i]
        PROVE  InFlight(i)
    BY <2>2, <2>5 DEF InFlight
  <2>6. ASSUME i = next PROVE FALSE
    <3>1. ~(i < next) /\ i >= next
      BY <2>4, <2>6
    <3>2. calls[i] = 0 /\ ~Running(i)
      BY <3>1 DEF ReceiptsInv, Once, Over
    <3>3. calls'[i] = 0
      BY <2>1, <3>1, <3>2, HandleEntry
    <3>4. \A q \in wire : q.kind = "submit" => q.id # i
      BY <2>3, <3>1 DEF Proper, Of
    <3> QED  BY <2>2, <3>2, <3>3, <3>4 DEF InFlight, Running
  <2>7. ASSUME ~Unreserved(i), entries'[i].status = "rejected", UNCHANGED calls PROVE InFlight(i)
    BY <2>2, <2>7 DEF InFlight
  <2>8. ASSUME i = r.id, ~Unreserved(i), r.kind = "submit", r.inc = inc PROVE InFlight(i)
    BY <2>8 DEF InFlight, Unreserved
  <2>9. InFlight(i)
    BY <2>1, <2>5, <2>6, <2>7, <2>8, HandleEntry
  <2>10. plan'[i] = plan[i]
    <3>1. UNCHANGED plan \/ \E p : plan' = [plan EXCEPT ![next] = p]
      BY <2>1, <2>2, HandleEffect
    <3> QED  BY <2>2, <2>6, <3>1 DEF Types, RegistryTypes
  <2> QED  BY <1>1, <2>2, <2>9, <2>10
<1>4. CASE \E m \in events : Event(m)
  <2>1. PICK m \in events : Event(m)
    BY <1>4
  <2>2. UNCHANGED <<run, calls, inc, wire, plan, journal>>
    BY <2>1, EventEffect DEF clientVars
  <2>3. CASE i = m[2] /\ entries[i] # None
    <3>1. entries[i] \in Receipts /\ m \in Events /\ entries'[i] = Settle(entries[i], m[1], m[3])
      BY <2>1, <2>3, EventEffect DEF ReceiptsInv, Types, RegistryTypes
    <3>2. entries'[i].status = "reserved" => entries[i].status = "reserved"
      BY <3>1, SettleEffect
    <3> QED  BY <1>1, <2>2, <2>3, <3>2 DEF InFlight
  <2>4. CASE i # m[2] \/ entries[i] = None
    <3>1. entries'[i] = entries[i] \/ entries'[i] = None
      BY <2>1, <2>4, EventEffect
    <3> QED  BY <1>1, <2>2, <3>1 DEF InFlight
  <2> QED  BY <2>3, <2>4
<1>5. CASE Reply
  BY <1>1, <1>5 DEF Reply, InFlight, nodeVars
<1>6. CASE RegistryLost
  BY <1>1, <1>6 DEF RegistryLost, InFlight, nodeVars, clientVars
<1>7. CASE \E w \in Workspaces : Redeploy(w)
  BY <1>7 DEF Redeploy, InFlight
<1>8. CASE \E w \in Workspaces : ClientActs(w)
  <2>1. PICK w \in Workspaces : ClientActs(w)
    BY <1>8
  <2>2. UNCHANGED plan
    BY <2>1, ClientsApart
  <2>3. CASE InFlight(i)
    BY <1>1, <2>1, <2>2, <2>3, JournalStays
  <2>4. CASE plan[i].w = w /\ Pending(w) /\ journal[w].id = i /\ UNCHANGED journal
    BY <2>2, <2>4 DEF Pending
  <2> QED  BY <2>1, <2>3, <2>4, Dispatches
<1>9. CASE UNCHANGED vars
  BY <1>1, <1>9 DEF vars, nodeVars, regVars, clientVars, InFlight
<1> QED  BY <1>2, <1>3, <1>4, <1>5, <1>6, <1>7, <1>8, <1>9 DEF Next, RegistryStep, ClientActs

-----------------------------------------------------------------------------
(* The invariant and the theorems. *)

LEMMA InitReceipts ==
  ASSUME Init
  PROVE  ReceiptsInv
<1> USE DEF Init
<1>1. NodeTypes
  BY Base DEF NodeTypes
<1>2. RegistryTypes
  BY Base DEF RegistryTypes, ViewOk
<1>3. ClientTypes
  BY Base, PlanTypes DEF ClientTypes, Pcs
<1>4. Once
  BY DEF Once, Unreserved, Over, Running
<1>5. EventsTrue /\ EntriesTrue /\ ClosedFinal /\ WireProper
  BY DEF EventsTrue, EntriesTrue, ClosedFinal, WireProper, StatusTrue
<1>6. ClientInv
  BY PlanTypes DEF ClientInv, ClientOk
<1>7. Journalled
  BY DEF Journalled, InFlight
<1> QED  BY <1>1, <1>2, <1>3, <1>4, <1>5, <1>6, <1>7 DEF ReceiptsInv, Types

LEMMA ReceiptsInductive ==
  ASSUME ReceiptsInv, [Next]_vars
  PROVE  ReceiptsInv'
BY TypesKept, OnceKept, EventsKept, EntriesKept, ClosedKept, WireKept, HeldKept, JournalledKept
   DEF ReceiptsInv

LEMMA Settled ==
  ASSUME ReceiptsInv, NEW i \in Ops, NEW status, StatusTrue(i, status)
  PROVE  /\ status = "rejected" => loads[i] = 0 /\ calls[i] = 0 /\ ~InFlight(i)
         /\ status = "applied" => loads[i] = 1 /\ ~InFlight(i)
<1>1. calls[i] \in {0, 1}
  BY DEF ReceiptsInv, Types, NodeTypes
<1> QED  BY <1>1, FinalLanded DEF StatusTrue, Final, Over

LEMMA ReceiptsInvType ==
  ASSUME ReceiptsInv
  PROVE  TypeOK
<1>1. /\ ver \in Versions /\ code \in Versions /\ fence \in BOOLEAN /\ gen \in Nat
      /\ run = None \/ (run.id \in Ops /\ run.at \in {"prepared", "loaded", "published"})
      /\ \A i \in Ops : calls[i] \in {0, 1} /\ loads[i] \in {0, 1}
  BY DEF ReceiptsInv, Types, NodeTypes, Runs
<1>2. \A i \in Ops : entries[i] = None \/ entries[i].status \in Statuses
  BY DEF ReceiptsInv, Types, RegistryTypes, Receipts
<1>3. ASSUME NEW w \in Workspaces
      PROVE  /\ src[w] \in Versions /\ snap[w] \in Versions \cup {None}
             /\ Pending(w) => journal[w].id \in 1..next - 1 /\ plan[journal[w].id].w = w
             /\ pc[w] \in Pcs
             /\ ask[w] # None => pc[w] \in {"reserve", "await", "recover"}
  <2>1. Pending(w) => journal[w].id \in Of(w)
    BY ClientAt DEF ClientOk, Pending
  <2>2. next \in Nat
    BY Base DEF ReceiptsInv, Types, RegistryTypes
  <2>3. \A i \in Of(w) : i \in 1..next - 1 /\ plan[i].w = w
    BY <2>2, Base DEF Of
  <2> QED  BY <2>1, <2>3, ClientAt DEF ClientOk
<1> QED  BY <1>1, <1>2, <1>3 DEF TypeOK, Pcs

\* Every variable stays in its domain: in particular an operation replaces code
\* at most once, and a journal names an operation of its own workspace.
THEOREM ReceiptsTypeCorrect == Spec => []TypeOK
<1>1. Spec => []ReceiptsInv
  BY InitReceipts, ReceiptsInductive, PTL DEF Spec
<1> QED  BY <1>1, ReceiptsInvType, PTL

\* Journal before dispatch (save_pending before submit): whatever is killed, lost
\* or expires, an operation that may still replace code is in the journal of its
\* workspace.
THEOREM JournalBeforeDispatch == Spec => []Journalled
<1>1. Spec => []ReceiptsInv
  BY InitReceipts, ReceiptsInductive, PTL DEF Spec
<1>2. ReceiptsInv => Journalled
  BY DEF ReceiptsInv
<1> QED  BY <1>1, <1>2, PTL

\* A receipt tells the truth (receipt_event): rejected operations have not
\* replaced code and never will, applied ones have done so once and are over.
THEOREM ReceiptsTellTheTruth == Spec => []ReceiptsTrue
<1>1. Spec => []ReceiptsInv
  BY InitReceipts, ReceiptsInductive, PTL DEF Spec
<1>2. ASSUME ReceiptsInv PROVE ReceiptsTrue
  <2> SUFFICES ASSUME NEW i \in Ops, entries[i] # None
               PROVE  /\ entries[i].status \in {"reserved", "rejected"} => loads[i] = 0 /\ calls[i] = 0
                      /\ entries[i].status = "rejected" => ~InFlight(i)
                      /\ entries[i].status = "applied" => loads[i] = 1 /\ ~InFlight(i)
    BY DEF ReceiptsTrue
  <2>1. StatusTrue(i, entries[i].status)
    BY <1>2 DEF ReceiptsInv, EntriesTrue
  <2>2. entries[i].status = "reserved" => loads[i] = 0 /\ calls[i] = 0
    BY <1>2 DEF ReceiptsInv, Once, Unreserved, Over
  <2> QED  BY <1>2, <2>1, <2>2, Settled
<1> QED  BY <1>1, <1>2, PTL

\* A client settles an operation only the way it ended (resolution), also when
\* the submission is still on the wire or the receipt has expired since.
THEOREM SettledTruly == Spec => []ClosedTrue
<1>1. Spec => []ReceiptsInv
  BY InitReceipts, ReceiptsInductive, PTL DEF Spec
<1>2. ASSUME ReceiptsInv PROVE ClosedTrue
  <2>1. \A i \in Ops : StatusTrue(i, closed[i])
    BY <1>2 DEF ReceiptsInv, ClosedFinal
  <2> QED  BY <1>2, <2>1, Settled DEF ClosedTrue
<1> QED  BY <1>1, <1>2, PTL
=============================================================================
