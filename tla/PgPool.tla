------------------------------- MODULE PgPool -------------------------------
(* ridge_pg.erl: one pool manager lends connection processes to the callers of a *)
(* handle.  The manager takes one message at a time from one mailbox: checkouts, *)
(* checkins, the DOWN of a connection, waiter timers, the maintenance tick and   *)
(* the results of health checks.  A caller borrows a connection for one verb, or *)
(* pins it from the outermost begin to the matching commit or rollback.          *)
EXTENDS Naturals, Sequences, FiniteSets, SequencesExt

CONSTANTS
  Callers,
  None,
  Ping,              \* stands for the helper process of a health check
  MaxConns,          \* pool_size
  MaxQueue,          \* max_queue: 0 leaves the wait queue unbounded
  MaxOpened,         \* bound: connections opened in all; the next is refused
  MaxNest,           \* bound: nested transactions
  MaxVerbs,          \* bound: verbs the callers start
  MaxErrors,         \* bound: SQL errors, broken sockets, refused connects
  MaxLapses,         \* bound: request timeouts and deaths of callers
  MaxTicks           \* bound: maintenance ticks, and checkins past max-lifetime

ASSUME PoolAssumption ==
  /\ MaxConns \in Nat \ {0} /\ MaxQueue \in Nat /\ MaxOpened \in Nat \ {0}
  /\ MaxNest \in Nat \ {0} /\ MaxVerbs \in Nat
  /\ MaxErrors \in Nat /\ MaxLapses \in Nat /\ MaxTicks \in Nat
  /\ None \notin Callers /\ Ping \notin Callers /\ None # Ping
  /\ None \notin 1..MaxOpened

VARIABLES
  up,                \* the manager runs
  mbox,              \* its mailbox
  pool,              \* its State: idle, busy, mons, checking, waiters
  timers,            \* callers whose waiter timer is armed
  st,                \* each connection process: none, up, closing or dead
  todo,              \* its mailbox
  session,           \* the server's side: who began the open transaction, if any
  pings,             \* connections whose health check awaits an answer
  cl,                \* each caller
  suspect,           \* connections on which a request timed out
  spent              \* what was used of each bound

poolVars == <<pool, timers>>
connVars == <<st, todo, session>>
vars == <<up, mbox, poolVars, connVars, pings, cl, suspect, spent>>

Conns == 1..MaxOpened

Closed == [owner |-> None, failed |-> FALSE]

Init ==
  /\ up = TRUE /\ mbox = <<>>
  /\ pool = [idle |-> <<1>>, busy |-> {}, mons |-> {1}, checking |-> {}, waiters |-> <<>>]
  /\ timers = {}
  /\ st = [w \in Conns |-> IF w = 1 THEN "up" ELSE "none"]
  /\ todo = [w \in Conns |-> <<>>]
  /\ session = [w \in Conns |-> Closed]
  /\ pings = {}
  /\ cl = [c \in Callers |-> [pc |-> "rest", verb |-> None, conn |-> None, depth |-> 0]]
  /\ suspect = {}
  /\ spent = [verbs |-> 0, errors |-> 0, lapses |-> 0, ticks |-> 0]

\* is_process_alive: still true while a process that met a broken socket closes it.
Alive(w) == st[w] \in {"up", "closing"}

Msg(kind, who, ok) == [kind |-> kind, who |-> who, ok |-> ok]

\* A message to a manager that is gone is lost.
Tell(m) == mbox' = IF up THEN Append(mbox, m) ELSE mbox

Spend(what, max) ==
  /\ spent[what] < max
  /\ spent' = [spent EXCEPT ![what] = @ + 1]

Free == UNCHANGED spent

------------------------------------------------------------------------------
(* Callers.                                                                     *)

Request(c, verb) == [by |-> c, verb |-> verb, waits |-> TRUE]

\* worker_request: nothing tells the caller that the process is gone.
Ask(c, w, verb) ==
  /\ todo' = IF Alive(w) THEN [todo EXCEPT ![w] = Append(@, Request(c, verb))] ELSE todo
  /\ cl' = [cl EXCEPT ![c].pc = "asked", ![c].verb = verb, ![c].conn = w]

\* A verb outside a transaction, or the outermost begin: pool_checkout.
Checkout(c) ==
  /\ cl[c].pc = "rest" /\ cl[c].depth = 0
  /\ Spend("verbs", MaxVerbs)
  /\ cl' = [cl EXCEPT ![c].pc = "checkout"]
  /\ Tell(Msg("checkout", c, TRUE))
  /\ UNCHANGED <<up, poolVars, connVars, pings, suspect>>

\* The reply of the manager: the verb goes straight to the connection.  Which verb
\* it is makes no difference before.
Borrow(c) ==
  /\ cl[c].pc = "lent"
  /\ \E verb \in {"call", "begin"} : Ask(c, cl[c].conn, verb)
  /\ UNCHANGED <<up, mbox, poolVars, st, session, pings, suspect, spent>>

\* A verb inside a transaction runs on the pinned connection.
PinnedVerb(c) ==
  /\ cl[c].pc = "rest" /\ cl[c].depth > 0
  /\ Spend("verbs", MaxVerbs)
  /\ \/ Ask(c, cl[c].conn, "call")
     \/ cl[c].depth < MaxNest /\ Ask(c, cl[c].conn, "savepoint")
     \/ cl[c].depth > 1 /\ \E verb \in {"release", "rollback_to"} : Ask(c, cl[c].conn, verb)
     \/ cl[c].depth = 1 /\ \E verb \in {"commit", "rollback"} : Ask(c, cl[c].conn, verb)
  /\ UNCHANGED <<up, mbox, poolVars, st, session, pings, suspect>>

\* Mutant: a commit or rollback of a nested transaction gives the connection back.
PinnedFlat(c, verb, ok) ==
  CASE verb = "begin" -> IF ok THEN 1 ELSE 0
    [] verb = "savepoint" -> IF ok THEN cl[c].depth + 1 ELSE cl[c].depth
    [] verb \in {"release", "rollback_to", "commit", "rollback"} -> 0
    [] OTHER -> cl[c].depth

\* What a caller does with the outcome of a verb: the pin, and the checkin.
Pinned(c, verb, ok) ==
  CASE verb = "begin" -> IF ok THEN 1 ELSE 0
    [] verb = "savepoint" -> IF ok THEN cl[c].depth + 1 ELSE cl[c].depth
    [] verb \in {"release", "rollback_to"} -> cl[c].depth - 1
    [] verb \in {"commit", "rollback"} -> 0
    [] OTHER -> cl[c].depth

Outcome(c, ok) ==
  LET depth == Pinned(c, cl[c].verb, ok) IN
  /\ cl' = [cl EXCEPT ![c] = [pc |-> "rest", verb |-> None, depth |-> depth,
                              conn |-> IF depth = 0 THEN None ELSE @.conn]]
  /\ IF depth = 0 THEN Tell(Msg("checkin", cl[c].conn, TRUE)) ELSE mbox' = mbox

\* The connection may still run the request, or has it queued: its reference will
\* match nothing.
Timeout(c) ==
  /\ cl[c].pc = "asked"
  /\ Spend("lapses", MaxLapses)
  /\ todo' = [todo EXCEPT ![cl[c].conn] =
                [i \in DOMAIN @ |-> IF @[i].by = c THEN [@[i] EXCEPT !.waits = FALSE] ELSE @[i]]]
  /\ suspect' = suspect \union {cl[c].conn}
  /\ Outcome(c, FALSE)
  /\ UNCHANGED <<up, poolVars, st, session, pings>>

\* A request to a connection that is gone always ends that way.
Unanswered(c) ==
  /\ cl[c].pc = "asked" /\ ~Alive(cl[c].conn)
  /\ Outcome(c, FALSE)
  /\ UNCHANGED <<up, poolVars, connVars, pings, suspect, spent>>

\* The monitor of pool_checkout, when the manager is gone.
PoolGone(c) ==
  /\ cl[c].pc = "checkout" /\ ~up
  /\ cl' = [cl EXCEPT ![c].pc = "rest"]
  /\ UNCHANGED <<up, mbox, poolVars, connVars, pings, suspect, spent>>

\* A caller dies: nobody monitors it.
Die(c) ==
  /\ cl[c].pc # "dead"
  /\ Spend("lapses", MaxLapses)
  /\ cl' = [cl EXCEPT ![c].pc = "dead"]
  /\ UNCHANGED <<up, mbox, poolVars, connVars, pings, suspect>>

CloseHandle(c) ==
  /\ cl[c].pc = "rest" /\ up
  /\ \A i \in DOMAIN mbox : mbox[i].kind # "close"
  /\ Spend("verbs", MaxVerbs)
  /\ Tell(Msg("close", None, TRUE))
  /\ UNCHANGED <<up, poolVars, connVars, pings, cl, suspect>>

------------------------------------------------------------------------------
(* pg_conn_loop and the server's session (external).                            *)

\* Statements the server refuses because of the state of the session.
Refuses(s, verb) ==
  \/ s.failed /\ verb \notin {"commit", "rollback", "rollback_to"}
  \/ s.owner = None /\ verb \in {"savepoint", "release", "rollback_to"}

After(s, r) ==
  CASE r.verb = "begin" -> [s EXCEPT !.owner = IF @ = None THEN r.by ELSE @]
    [] r.verb \in {"commit", "rollback"} -> Closed
    [] r.verb = "rollback_to" -> [s EXCEPT !.failed = FALSE]
    [] OTHER -> s

\* A statement that fails aborts the transaction it is in; COMMIT ends it even so,
\* and ROLLBACK does not fail.
Aborted(s, r) ==
  IF r.verb = "commit" THEN Closed ELSE [s EXCEPT !.failed = s.owner # None]

\* The answer, to a caller or to the helper of a health check.
Answer(w, r, ok) ==
  IF r.by = Ping
    THEN IF w \in pings
           THEN Tell(Msg("ping_done", w, ok)) /\ pings' = pings \ {w} /\ cl' = cl
           ELSE UNCHANGED <<mbox, pings, cl>>
    ELSE /\ pings' = pings
         /\ IF r.waits /\ cl[r.by].pc = "asked"
              THEN Outcome(r.by, ok)
              ELSE UNCHANGED <<mbox, cl>>

Takes(w) ==
  /\ st[w] = "up" /\ todo[w] # <<>>
  /\ todo' = [todo EXCEPT ![w] = Tail(@)]
  /\ UNCHANGED <<up, poolVars, suspect>>

Serve(w) ==
  /\ Takes(w)
  /\ LET r == Head(todo[w]) IN
     \/ /\ ~Refuses(session[w], r.verb) /\ Free
        /\ session' = [session EXCEPT ![w] = After(@, r)]
        /\ Answer(w, r, TRUE)
     \/ /\ r.verb # "rollback"
        /\ IF Refuses(session[w], r.verb) THEN Free ELSE Spend("errors", MaxErrors)
        /\ session' = [session EXCEPT ![w] = Aborted(@, r)]
        /\ Answer(w, r, FALSE)
  /\ st' = st

\* pg_fatal: answered once, then the socket is closed.
Breaks(w) ==
  /\ Takes(w)
  /\ Spend("errors", MaxErrors)
  /\ Answer(w, Head(todo[w]), FALSE)
  /\ session' = [session EXCEPT ![w] = Closed]
  /\ st' = [st EXCEPT ![w] = "closing"]

Gone(w) ==
  /\ st' = [st EXCEPT ![w] = "dead"]
  /\ todo' = [todo EXCEPT ![w] = <<>>]
  /\ session' = [session EXCEPT ![w] = Closed]

\* The process ends: after the close, or for a reply it cannot decode, with no answer.
Exits(w) ==
  /\ \/ st[w] = "closing" /\ Free
     \/ st[w] = "up" /\ todo[w] # <<>> /\ Spend("errors", MaxErrors)
  /\ Gone(w)
  /\ IF w \in pool.mons THEN Tell(Msg("DOWN", w, TRUE)) ELSE mbox' = mbox
  /\ UNCHANGED <<up, poolVars, pings, cl, suspect>>

\* The helper of a health check gives up.
PingTimeout(w) ==
  /\ w \in pings
  /\ IF Alive(w) THEN Spend("lapses", MaxLapses) ELSE Free
  /\ Tell(Msg("ping_done", w, FALSE))
  /\ pings' = pings \ {w}
  /\ UNCHANGED <<up, poolVars, connVars, cl, suspect>>

------------------------------------------------------------------------------
(* pool_loop: each handler is one step.                                         *)

Receives(kind) == up /\ mbox # <<>> /\ Head(mbox).kind = kind
From == Head(mbox).who

\* The reply {ok, Worker} is on its way; a dead caller never takes it, and keeps it.
Lend(c, w) ==
  cl' = [cl EXCEPT ![c].pc = IF @ = "dead" THEN @ ELSE "lent", ![c].conn = w]

Refused(callers) ==
  cl' = [c \in Callers |->
           IF c \in callers /\ cl[c].pc # "dead" THEN [cl[c] EXCEPT !.pc = "rest"]
           ELSE cl[c]]

\* open_worker for caller c, when the State is p and the processes are ps.
OpenFor(p, ps, c) ==
  LET new == {w \in Conns : st[w] = "none"} IN
  \/ /\ new # {} /\ Free
     /\ LET w == Min(new) IN
          /\ st' = [ps EXCEPT ![w] = "up"]
          /\ pool' = [p EXCEPT !.busy = @ \union {w}, !.mons = @ \union {w}]
          /\ Lend(c, w)
  \/ /\ IF new = {} THEN Free ELSE Spend("errors", MaxErrors)
     /\ pool' = p /\ st' = ps
     /\ Refused({c})

\* Mutant: one connection too many.
HasRoomLax(p) == Cardinality(p.mons) <= MaxConns

HasRoom(p) == Cardinality(p.mons) < MaxConns

\* serve_waiter: a replacement for the oldest waiter.
ServeWaiter(p, ps) ==
  IF p.waiters = <<>> \/ ~HasRoom(p)
    THEN pool' = p /\ st' = ps /\ UNCHANGED <<timers, cl, spent>>
    ELSE /\ timers' = timers \ {Head(p.waiters)}
         /\ OpenFor([p EXCEPT !.waiters = Tail(@)], ps, Head(p.waiters))

\* Mutant: the timer of a waiter that is served stays armed.
HandOverArmed(w) ==
  LET c == Head(pool.waiters) IN
  /\ timers' = timers
  /\ pool' = [pool EXCEPT !.waiters = Tail(@), !.busy = @ \union {w}, !.checking = @ \ {w}]
  /\ Lend(c, w)

\* Mutant: it goes to the idle list whoever waits.
HandOverToIdle(w) ==
  /\ pool' = [pool EXCEPT !.busy = @ \ {w}, !.checking = @ \ {w}, !.idle = <<w>> \o @]
  /\ UNCHANGED <<timers, cl>>

\* A connection that is free again goes to the oldest waiter.
HandOver(w) ==
  LET c == Head(pool.waiters) IN
  /\ timers' = timers \ {c}
  /\ pool' = [pool EXCEPT !.waiters = Tail(@), !.busy = @ \union {w}, !.checking = @ \ {w}]
  /\ Lend(c, w)

\* What is left of q when the elements of S are taken out: the k-th of the places
\* that stay, for every k.
Without(q, S) ==
  LET I == {i \in DOMAIN q : q[i] \notin S}
      nth(k) == CHOOSE i \in I : Cardinality({j \in I : j <= i}) = k
  IN [k \in 1..Cardinality(I) |-> q[nth(k)]]

\* retire, for each of a set: demonitor with flush, then exit.
Retired(p, ws) ==
  [p EXCEPT !.idle = Without(@, ws),
            !.busy = @ \ ws, !.mons = @ \ ws, !.checking = @ \ ws]

\* Mutant: the connection is forgotten and lives on.
KilledSpared(ws) == st

Killed(ws) == [w \in Conns |-> IF w \in ws \intersect pool.mons THEN "dead" ELSE st[w]]
Emptied(ws) == [w \in Conns |-> IF w \in ws \intersect pool.mons THEN <<>> ELSE todo[w]]
Ended(ws) ==
  session' = [w \in Conns |-> IF w \in ws \intersect pool.mons THEN Closed ELSE session[w]]
Flush(ws) ==
  mbox' = Without(Tail(mbox), {Msg("DOWN", w, TRUE) : w \in ws})

Taken == mbox' = Tail(mbox)
SameConns == UNCHANGED connVars
Quiet == UNCHANGED <<up, suspect>>

\* take_live, open_worker, enqueue_waiter or an error, in that order.
HandleCheckout ==
  LET c == From
      live == {i \in DOMAIN pool.idle : Alive(pool.idle[i])}
      none == [pool EXCEPT !.idle = <<>>]
      room == MaxQueue = 0 \/ Len(pool.waiters) < MaxQueue
  IN
  /\ Receives("checkout") /\ Taken /\ Quiet /\ UNCHANGED <<todo, session, pings>>
  /\ \/ /\ live # {}
        /\ LET i == Min(live) IN
             /\ pool' = [pool EXCEPT !.idle = SubSeq(@, i + 1, Len(@)),
                                    !.busy = @ \union {pool.idle[i]}]
             /\ Lend(c, pool.idle[i])
        /\ UNCHANGED <<st, timers, spent>>
     \/ /\ live = {} /\ HasRoom(pool)
        /\ OpenFor(none, st, c)
        /\ timers' = timers
     \/ /\ live = {} /\ ~HasRoom(pool) /\ room
        /\ pool' = [none EXCEPT !.waiters = Append(@, c)]
        /\ timers' = timers \union {c}
        /\ UNCHANGED <<st, cl, spent>>
     \/ /\ live = {} /\ ~HasRoom(pool) /\ ~room
        /\ pool' = none
        /\ Refused({c})
        /\ UNCHANGED <<st, timers, spent>>

HandleCheckin ==
  LET w == From IN
  /\ Receives("checkin") /\ Quiet /\ pings' = pings
  /\ \/ /\ w \notin pool.busy
        /\ Taken /\ SameConns /\ Free /\ UNCHANGED <<poolVars, cl>>
     \/ /\ w \in pool.busy /\ ~Alive(w)
        /\ pool' = [pool EXCEPT !.busy = @ \ {w}]
        /\ Taken /\ SameConns /\ Free /\ UNCHANGED <<timers, cl>>
     \/ /\ w \in pool.busy /\ Alive(w) /\ pool.waiters # <<>>
        /\ HandOver(w)
        /\ Taken /\ SameConns /\ Free
     \/ /\ w \in pool.busy /\ Alive(w) /\ pool.waiters = <<>>
        /\ pool' = [pool EXCEPT !.busy = @ \ {w}, !.idle = <<w>> \o @]
        /\ Taken /\ SameConns /\ Free /\ UNCHANGED <<timers, cl>>
     \/ /\ w \in pool.busy /\ Alive(w) /\ pool.waiters = <<>>
        /\ Spend("ticks", MaxTicks)
        /\ pool' = Retired(pool, {w})
        /\ st' = Killed({w}) /\ todo' = Emptied({w}) /\ Ended({w}) /\ Flush({w})
        /\ UNCHANGED <<timers, cl>>

\* Mutant: nobody looks at the waiters when a connection is gone.
HandleDownDeaf ==
  /\ Receives("DOWN") /\ Taken /\ Quiet /\ UNCHANGED <<todo, session, pings>>
  /\ pool' = Retired(pool, {From})
  /\ UNCHANGED <<st, timers, cl, spent>>

HandleDown ==
  /\ Receives("DOWN") /\ Taken /\ Quiet /\ UNCHANGED <<todo, session, pings>>
  /\ ServeWaiter(Retired(pool, {From}), st)

\* Mutant: the waiter is dropped without an answer.
WaiterTimeoutSilent ==
  /\ Receives("waiter_timeout") /\ Taken /\ Quiet /\ SameConns
  /\ pool' = [pool EXCEPT !.waiters = Without(@, {From})]
  /\ UNCHANGED <<timers, pings, cl, spent>>

\* timeout_waiter: a waiter already served is not found.
WaiterTimeout ==
  /\ Receives("waiter_timeout") /\ Taken /\ Quiet /\ SameConns
  /\ UNCHANGED <<timers, pings, spent>>
  /\ IF Contains(pool.waiters, From)
       THEN /\ pool' = [pool EXCEPT !.waiters = Without(@, {From})]
            /\ Refused({From})
       ELSE UNCHANGED <<pool, cl>>

\* Mutant: a connection stays in the idle list while it is checked.
StaysIdleChecked(f) == f # "retire"

StaysIdle(f) == f = "keep"

\* run_maintenance: which windows have passed is the clock's choice.
Maintenance ==
  /\ Receives("maintenance") /\ Quiet /\ UNCHANGED <<timers, cl, spent>>
  /\ \E fate \in [ToSet(pool.idle) -> {"retire", "ping", "keep"}] :
       LET of(f) == {w \in ToSet(pool.idle) : fate[w] = f}
           kept  == Without(pool.idle, {w \in ToSet(pool.idle) : ~StaysIdle(fate[w])})
       IN /\ pool' = [Retired(pool, of("retire")) EXCEPT
                        !.idle = Reverse(kept), !.checking = @ \union of("ping")]
          /\ pings' = pings \union of("ping")
          /\ st' = Killed(of("retire"))
          /\ todo' = [w \in Conns |->
                        IF w \in of("ping") /\ Alive(w)
                          THEN Append(todo[w], Request(Ping, "ping"))
                          ELSE Emptied(of("retire"))[w]]
          /\ Ended(of("retire")) /\ Flush(of("retire"))

\* finish_ping and requeue_idle.
PingDone ==
  LET w == From
      ok == Head(mbox).ok
      p == [pool EXCEPT !.checking = @ \ {w}]
      back == w \in pool.mons /\ Alive(w)
  IN
  /\ Receives("ping_done") /\ Quiet /\ pings' = pings
  /\ \/ /\ w \notin pool.checking
        /\ Taken /\ SameConns /\ UNCHANGED <<poolVars, cl, spent>>
     \/ /\ w \in pool.checking /\ ok
        /\ \/ back /\ pool.waiters # <<>> /\ HandOver(w)
           \/ back /\ pool.waiters = <<>>
              /\ pool' = [p EXCEPT !.idle = <<w>> \o @] /\ UNCHANGED <<timers, cl>>
           \/ ~back /\ pool' = p /\ UNCHANGED <<timers, cl>>
        /\ Taken /\ SameConns /\ Free
     \/ /\ w \in pool.checking /\ ~ok
        /\ todo' = Emptied({w}) /\ Ended({w}) /\ Flush({w})
        /\ ServeWaiter(Retired(p, {w}), Killed({w}))

\* close_all; the mailbox dies with the manager.
Close ==
  /\ Receives("close")
  /\ up' = FALSE /\ mbox' = <<>> /\ timers' = {}
  /\ pool' = [idle |-> <<>>, busy |-> {}, mons |-> {}, checking |-> {}, waiters |-> <<>>]
  /\ st' = Killed(pool.mons) /\ todo' = Emptied(pool.mons) /\ Ended(pool.mons)
  /\ Refused(ToSet(pool.waiters))
  /\ UNCHANGED <<pings, suspect, spent>>

\* The runtime's timers put a message in the mailbox.
TimerFires(c) ==
  /\ c \in timers
  /\ timers' = timers \ {c}
  /\ Tell(Msg("waiter_timeout", c, TRUE))
  /\ UNCHANGED <<up, pool, connVars, pings, cl, suspect, spent>>

Tick ==
  /\ up /\ \A i \in DOMAIN mbox : mbox[i].kind # "maintenance"
  /\ Spend("ticks", MaxTicks)
  /\ Tell(Msg("maintenance", None, TRUE))
  /\ UNCHANGED <<up, poolVars, connVars, pings, cl, suspect>>

------------------------------------------------------------------------------

Manager ==
  \/ HandleCheckout \/ HandleCheckin \/ HandleDown \/ WaiterTimeout
  \/ Maintenance \/ PingDone \/ Close

Caller(c) ==
  \/ Checkout(c) \/ Borrow(c) \/ PinnedVerb(c) \/ Timeout(c) \/ Unanswered(c)
  \/ PoolGone(c) \/ Die(c) \/ CloseHandle(c)

Conn(w) == Serve(w) \/ Breaks(w) \/ Exits(w) \/ PingTimeout(w)

Next ==
  \/ Manager
  \/ \E c \in Callers : Caller(c) \/ TimerFires(c)
  \/ \E w \in Conns : Conn(w)
  \/ Tick

Spec == Init /\ [][Next]_vars

\* The manager takes its next message, its timers fire, and the runtime tells a
\* caller that the manager is gone.  Callers and connections may stop for ever.
FairSpec ==
  /\ Spec
  /\ WF_vars(Manager)
  /\ \A c \in Callers : WF_vars(TimerFires(c)) /\ WF_vars(PoolGone(c))

------------------------------------------------------------------------------
(* Properties.                                                                  *)

Pcs == {"rest", "checkout", "lent", "asked", "dead"}

Kinds == {"checkout", "checkin", "DOWN", "waiter_timeout", "maintenance", "ping_done", "close"}
Verbs == {"call", "begin", "savepoint", "release", "rollback_to", "commit", "rollback", "ping"}

\* The State of the manager, in which a timer is armed only for a parked waiter, and
\* what the other processes hold.
TypeOK ==
  /\ up \in BOOLEAN
  /\ pool \in [idle : Seq(Conns), busy : SUBSET Conns, mons : SUBSET Conns,
               checking : SUBSET Conns, waiters : Seq(Callers)]
  /\ timers \in SUBSET ToSet(pool.waiters)
  /\ \A i \in DOMAIN mbox :
       mbox[i] \in [kind : Kinds, who : Callers \union Conns \union {None}, ok : BOOLEAN]
  /\ st \in [Conns -> {"none", "up", "closing", "dead"}]
  /\ \A w \in Conns : \A i \in DOMAIN todo[w] :
       todo[w][i] \in [by : Callers \union {Ping}, verb : Verbs, waits : BOOLEAN]
  /\ session \in [Conns -> [owner : Callers \union {None}, failed : BOOLEAN]]
  /\ pings \in SUBSET Conns /\ suspect \in SUBSET Conns
  /\ cl \in [Callers -> [pc : Pcs, verb : Verbs \union {None},
                         conn : Conns \union {None}, depth : 0..MaxNest]]

\* A connection whose checkin is on its way.
Returning(w) == \E i \in DOMAIN mbox : mbox[i].kind = "checkin" /\ mbox[i].who = w

Holds(c, w) == cl[c].conn = w

\* A connection is lent to one caller at a time, and one that is held or on its way
\* back is neither idle nor being checked: no two processes use one socket.
OneBorrower ==
  \A w \in Conns :
    /\ \A c, d \in Callers : Holds(c, w) /\ Holds(d, w) => c = d
    /\ (\E c \in Callers : Holds(c, w)) \/ Returning(w)
         => w \notin ToSet(pool.idle) \union pool.checking
    /\ ~((\E c \in Callers : Holds(c, w)) /\ Returning(w))

\* Nothing falls out of the pool's bookkeeping: a live connection is monitored, and
\* idle once, being checked with an answer to come, or busy and somebody's, a dead
\* caller's at worst; so a pool that was closed leaves no connection behind.
Accounted ==
  \A w \in Conns : Alive(w) =>
    /\ up /\ w \in pool.mons
    /\ \/ Cardinality({i \in DOMAIN pool.idle : pool.idle[i] = w}) = 1
          /\ w \notin pool.busy \union pool.checking
       \/ w \in pool.checking \ pool.busy
          /\ \/ w \in pings
             \/ \E i \in DOMAIN mbox : mbox[i].kind = "ping_done" /\ mbox[i].who = w
       \/ w \in pool.busy \ pool.checking
          /\ \/ \E c \in Callers : Holds(c, w)
             \/ Returning(w)

\* pool_size bounds the connections, alive or not yet reported dead.
WithinMax == Cardinality(pool.mons) <= MaxConns

\* No caller waits beside an idle connection, whatever order checkouts, checkins,
\* health checks and DOWNs arrive in.
WaitsForAReason == pool.waiters # <<>> => pool.idle = <<>>

\* Callers wait while there is room for another connection.
BesideRoom == pool.waiters # <<>> /\ HasRoom(pool)

\* The oldest waiter is answered that no connection could be opened for it.
TurnsAway ==
  /\ pool.waiters # <<>> /\ pool'.waiters = Tail(pool.waiters)
  /\ cl'[Head(pool.waiters)].pc \in {"rest", "dead"} /\ pool'.busy \subseteq pool.busy

\* A place that becomes free goes to the oldest waiter: callers come to wait beside
\* room only in a step that tries to open a connection for the oldest of them and
\* fails (serve_waiter answers that one and leaves the rest parked).
RoomIsOffered == [][BesideRoom' => BesideRoom \/ TurnsAway]_vars

\* A connection comes back to the pool with its transaction closed, whatever failed
\* in it, unless a request on it timed out.
ReturnedClean ==
  \A w \in Conns :
    session[w].owner # None =>
      w \in suspect \/ Holds(session[w].owner, w)

\* pool_checkout: "The manager enforces the configured checkout timeout and always
\* replies", also through DOWNs, refused connects, health checks and the close.
CheckoutEnds ==
  \A c \in Callers : cl[c].pc = "checkout" ~> cl[c].pc # "checkout"

\* pg_call: a transaction's connection "stays borrowed for the transaction's whole
\* span", so nobody works in a transaction that another caller opened.
NoForeignTx ==
  \A c \in Callers, w \in Conns :
    Holds(c, w) => session[w].owner \in {None, c}
=============================================================================
