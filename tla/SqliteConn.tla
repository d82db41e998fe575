------------------------------ MODULE SqliteConn ------------------------------
(* ridge_sqlite.erl: a handle is an id in a registry, the id of a worker process *)
(* that owns the native connection and serves one request at a time.  Clients    *)
(* are processes that run the verbs of std.data, alone or inside Repo.transaction*)
(* (begin, a body, and commit or rollback), on one handle that any of them opens *)
(* and all of them may use.                                                      *)
EXTENDS SqliteNif, SequencesExt

CONSTANTS
  Clients,           \* processes that use the handle
  Worker,            \* the process of worker_loop
  DefaultLevel,      \* isolation level of a plain begin: "ru" or "ser"
  Explicit,          \* levels that transactionWith asks for
  MaxNest,           \* bound: transactions a client nests
  MaxVerbs           \* bound: requests that are sent

ASSUME ConnAssumption ==
  /\ Worker \notin Clients
  /\ Procs = Clients \union {Worker}
  /\ None \notin Writes \union Clients \union {"ru", "ser"}
  /\ DefaultLevel \in {"ru", "ser"} /\ Explicit \subseteq {"ru", "ser"}
  /\ MaxNest \in Nat /\ MaxVerbs \in Nat

VARIABLES
  reg,               \* the registry maps the id to the worker
  wrk,               \* the worker: "none", "run" or "dead"
  inbox,             \* its mailbox
  cur,               \* the request it serves and the native call it waits for
  depth, level, ruOn,\* worker_loop's State
  torn,              \* depth counts a transaction that SQLite has taken back
  cl,                \* each client: where it is, and its open transactions
  fresh,             \* writes nobody has tried yet
  told,              \* writes a client was told are committed
  kept,              \* of these, the ones whose client was in step with the worker
  undone,            \* writes rolled back by a client that was in step
  unrestored,        \* the pragma that ends relaxed reads failed, which is ignored
  sent               \* requests sent

adapterVars == <<reg, wrk, inbox, cur, depth, level, ruOn, torn>>
ghostVars == <<told, kept, undone>>
inputVars == <<fresh, sent, unrestored>>
vars == <<nifVars, adapterVars, cl, ghostVars, inputVars>>

Levels == {"ru", "ser"}
Values == {"SqlInt", "SqlBig", "SqlNested"}

Rests == [req |-> None, stage |-> "rest"]

ConnInit ==
  /\ NifInit
  /\ reg = FALSE
  /\ wrk = "none"
  /\ inbox = <<>>
  /\ cur = Rests
  /\ depth = 0 /\ level = None /\ ruOn = FALSE /\ torn = FALSE
  /\ cl = [c \in Clients |-> [pc |-> "idle", frames |-> <<>>]]
  /\ fresh = Writes
  /\ told = {} /\ kept = {} /\ undone = {}
  /\ unrestored = FALSE
  /\ sent = 0

------------------------------------------------------------------------------
(* sqlite_connect, in the process that opens the handle.                         *)

Connect(c) ==
  /\ cl[c].pc = "idle"
  /\ wrk = "none" /\ conn.res = "none"
  /\ \A d \in Clients : cl[d].pc = "idle"
  /\ cl' = [cl EXCEPT ![c].pc = "opening"]
  /\ call' = [call EXCEPT ![c] = OpenCall]
  /\ UNCHANGED <<conn, closes, stmts, db, faults, adapterVars, ghostVars, inputVars>>

\* nif_open has answered; apply_pragmas is one statement.
Opened(c) ==
  /\ cl[c].pc = "opening"
  /\ call[c].pc = "ret"
  /\ IF call[c].ret = "ok"
       THEN /\ cl' = [cl EXCEPT ![c].pc = "pragmas"]
            /\ call' = [call EXCEPT ![c] = Exec(Sql("pragma", None))]
       ELSE /\ cl' = [cl EXCEPT ![c].pc = "idle"]
            /\ call' = [call EXCEPT ![c] = Idle]
  /\ UNCHANGED <<conn, closes, stmts, db, faults, adapterVars, ghostVars, inputVars>>

\* The worker is started and registered, or the connection is closed again.
Ready(c) ==
  /\ cl[c].pc = "pragmas"
  /\ call[c].pc = "ret"
  /\ IF call[c].ret = "ok"
       THEN /\ cl' = [cl EXCEPT ![c].pc = "idle"]
            /\ call' = [call EXCEPT ![c] = Idle]
            /\ wrk' = "run" /\ reg' = TRUE
       ELSE /\ cl' = [cl EXCEPT ![c].pc = "abandon"]
            /\ call' = [call EXCEPT ![c] = CloseCall]
            /\ UNCHANGED <<wrk, reg>>
  /\ UNCHANGED <<conn, closes, stmts, db, faults, inbox, cur, depth, level, ruOn, torn, ghostVars,
                 inputVars>>

Abandoned(c) ==
  /\ cl[c].pc = "abandon"
  /\ call[c].pc = "ret"
  /\ cl' = [cl EXCEPT ![c].pc = "idle"]
  /\ call' = [call EXCEPT ![c] = Idle]
  /\ UNCHANGED <<conn, closes, stmts, db, faults, adapterVars, ghostVars, inputVars>>

------------------------------------------------------------------------------
(* The clients' side of a verb: lookup, monitor, send, receive.                  *)

Request(c, verb, arg, val) == [from |-> c, verb |-> verb, arg |-> arg, val |-> val]

\* A message to a worker that is gone is lost; the monitor will tell.
Send(c, verb, arg, val) ==
  /\ reg
  /\ sent < MaxVerbs /\ sent' = sent + 1
  /\ cl[c].pc = "idle"
  /\ cl' = [cl EXCEPT ![c].pc = verb]
  /\ inbox' = IF wrk = "run" THEN Append(inbox, Request(c, verb, arg, val)) ELSE inbox
  /\ UNCHANGED <<nifVars, reg, wrk, cur, depth, level, ruOn, torn, ghostVars, unrestored>>

Waiting == {"insert", "query", "migrations", "begin", "commit", "rollback", "close"}

InTx(c) == cl[c].frames # <<>>

Insert(c, w, v) == w \in fresh /\ Send(c, "insert", w, v) /\ fresh' = fresh \ {w}
Read(c) == \E verb \in {"query", "migrations"} : Send(c, verb, None, None) /\ UNCHANGED fresh
Begin(c) ==
  /\ Len(cl[c].frames) < MaxNest
  /\ \E l \in Explicit \union {None} : Send(c, "begin", l, None)
  /\ UNCHANGED fresh
End(c) ==
  /\ InTx(c)
  /\ \E verb \in {"commit", "rollback"} : Send(c, verb, None, None)
  /\ UNCHANGED fresh
CloseHandle(c) == Send(c, "close", None, None) /\ UNCHANGED fresh

\* What client c has open after verb was answered, ok or not.  inStep says that
\* the connection was at the nesting level c believes in, in a transaction that is
\* still there.
Frames(c, verb, arg, ok, inStep) ==
  LET fs == [i \in DOMAIN cl[c].frames |->
               [cl[c].frames[i] EXCEPT !.sound = @ /\ inStep]]
      n  == Len(fs)
  IN CASE verb = "begin" /\ ok -> Append(fs, [ws |-> {}, sound |-> inStep])
       [] verb = "insert" /\ ok /\ n > 0 -> [fs EXCEPT ![n].ws = @ \union {arg}]
       [] verb = "commit" /\ ok /\ n > 1 ->
            Front([fs EXCEPT ![n - 1].ws = @ \union fs[n].ws])
       [] verb = "commit" /\ ~(ok /\ n > 1) /\ n > 0 -> Front(fs)
       [] verb = "rollback" /\ n > 0 -> Front(fs)
       [] OTHER -> fs

\* The client goes on with the answer.
Answered(c, verb, arg, ok) ==
  LET fs == cl[c].frames
      inStep == depth = Len(fs) /\ ~torn
      sound == inStep /\ (fs # <<>> => Last(fs).sound)
      done == CASE verb = "insert" /\ ok /\ fs = <<>> -> {arg}
                [] verb = "commit" /\ ok /\ Len(fs) = 1 -> fs[1].ws
                [] OTHER -> {}
  IN /\ cl' = [cl EXCEPT ![c] = [pc |-> IF verb = "close" THEN "unregister" ELSE "idle",
                                  frames |-> Frames(c, verb, arg, ok, inStep)]]
     /\ told' = told \union done
     /\ kept' = IF sound THEN kept \union done ELSE kept
     /\ undone' = IF verb = "rollback" /\ ok /\ sound /\ fs # <<>>
                    THEN undone \union Last(fs).ws ELSE undone

\* The reference of a request that its client gave up matches nothing any more.
Orphan(c, r) == IF r.from = c THEN [r EXCEPT !.from = None] ELSE r

GaveUp(c) ==
  /\ inbox' = [i \in DOMAIN inbox |-> Orphan(c, inbox[i])]
  /\ cur' = IF cur.stage = "rest" THEN cur ELSE [cur EXCEPT !.req = Orphan(c, @)]

\* A lookup that finds nothing, the worker's DOWN, or the timeout: an error.
NotFound(c, verb) ==
  /\ ~reg /\ wrk # "none"
  /\ cl[c].pc = "idle"
  /\ verb \in {"commit", "rollback"} /\ InTx(c)
  /\ Answered(c, verb, None, FALSE)
  /\ UNCHANGED <<nifVars, adapterVars, inputVars>>

Down(c) ==
  /\ cl[c].pc \in Waiting
  /\ wrk = "dead"
  /\ Answered(c, cl[c].pc, None, FALSE)
  /\ UNCHANGED <<nifVars, adapterVars, inputVars>>

Timeout(c) ==
  /\ cl[c].pc \in Waiting
  /\ wrk = "run"
  /\ Fails
  /\ Answered(c, cl[c].pc, None, FALSE)
  /\ GaveUp(c)
  /\ UNCHANGED <<conn, closes, stmts, call, db, reg, wrk, depth, level, ruOn, torn, fresh,
                 sent, unrestored>>

\* sqlite_close forgets the id, whatever became of the request.
Unregister(c) ==
  /\ cl[c].pc = "unregister"
  /\ cl' = [cl EXCEPT ![c].pc = "idle"]
  /\ reg' = FALSE
  /\ UNCHANGED <<nifVars, wrk, inbox, cur, depth, level, ruOn, torn, ghostVars, inputVars>>

\* A client dies, and nobody tells the worker.
Die(c) ==
  /\ cl[c].pc \in Waiting \union {"idle", "unregister"}
  /\ wrk # "none"
  /\ Fails
  /\ cl' = [cl EXCEPT ![c] = [pc |-> "dead", frames |-> <<>>]]
  /\ GaveUp(c)
  /\ UNCHANGED <<conn, closes, stmts, call, db, reg, wrk, depth, level, ruOn, torn, fresh,
                 sent, unrestored, ghostVars>>

------------------------------------------------------------------------------
(* worker_loop.                                                                  *)

\* to_cell: the storage class of a value; an array in an array has none.
ToCell(v) == IF v = "SqlBig" THEN "big" ELSE "int"

LevelOf(r) == IF r.arg = None THEN DefaultLevel ELSE r.arg

\* The worker goes on to stage with another native call.
Runs(stage, r, nif) ==
  /\ cur' = [req |-> r, stage |-> stage]
  /\ call' = [call EXCEPT ![Worker] = nif]
  /\ UNCHANGED <<cl, ghostVars>>

\* From ! {Ref, Reply}, and the next receive.
Reply(r, ok) ==
  /\ cur' = Rests
  /\ call' = [call EXCEPT ![Worker] = Idle]
  /\ IF r.from = None THEN UNCHANGED <<cl, ghostVars>>
     ELSE Answered(r.from, r.verb, r.arg, ok)

TxState(d, l, ru) == depth' = d /\ level' = l /\ ruOn' = ru /\ torn' = (torn /\ d > 0)

\* handle_request up to its first native call.
StartBegin(r) ==
  \/ depth = 0 /\ LevelOf(r) = "ru" /\ Runs("relax", r, Exec(Sql("relax", None)))
  \/ depth = 0 /\ LevelOf(r) # "ru" /\ Runs("begin", r, Exec(Sql("begin", None)))
  \/ depth > 0 /\ r.arg \in {None, level} /\ Runs("nest", r, Exec(Sql("savepoint", depth)))
  \/ depth > 0 /\ r.arg \notin {None, level} /\ Reply(r, FALSE)

\* Mutant: RELEASE and ROLLBACK TO are swapped.
StartEndSwapped(r) ==
  \/ depth = 0 /\ Reply(r, TRUE)
  \/ depth = 1 /\ Runs("end", r, Exec(Sql(r.verb, None)))
  \/ depth > 1 /\ Runs("unnest", r,
       Exec(Sql(IF r.verb = "commit" THEN "rollback_to" ELSE "release", depth - 1)))

StartEnd(r) ==
  \/ depth = 0 /\ Reply(r, TRUE)
  \/ depth = 1 /\ Runs("end", r, Exec(Sql(r.verb, None)))
  \/ depth > 1 /\ Runs("unnest", r,
       Exec(Sql(IF r.verb = "commit" THEN "release" ELSE "rollback_to", depth - 1)))

StartOther(r) ==
  \/ r.verb = "insert" /\ r.val # "SqlNested"
     /\ Runs("run", r, Exec([kind |-> "insert", arg |-> r.arg, cell |-> ToCell(r.val)]))
  \/ r.verb = "query" /\ Runs("run", r, Query)
  \/ r.verb = "migrations" /\ Runs("create", r, Exec(Sql("create", None)))
  \/ r.verb = "close" /\ Runs("close", r, CloseCall)

Take ==
  /\ wrk = "run" /\ cur = Rests /\ inbox # <<>>
  /\ LET r == Head(inbox) IN
       \/ r.verb = "begin" /\ StartBegin(r)
       \/ r.verb \in {"commit", "rollback"} /\ StartEnd(r)
       \/ StartOther(r)
  /\ inbox' = Tail(inbox)
  /\ UNCHANGED <<conn, closes, stmts, db, faults, reg, wrk, depth, level, ruOn, torn, inputVars>>

\* The worker is gone with everything in its mailbox; DOWN tells who waits.
WorkerEnds ==
  /\ wrk' = "dead"
  /\ inbox' = <<>>

\* A value to_cell has no clause for, or a badarg of the native call.
Crash ==
  /\ wrk = "run"
  /\ \/ /\ cur = Rests /\ inbox # <<>>
        /\ Head(inbox).verb = "insert" /\ Head(inbox).val = "SqlNested"
     \/ call[Worker].pc = "ret" /\ call[Worker].ret = "badarg"
  /\ WorkerEnds
  /\ cur' = Rests
  /\ call' = [call EXCEPT ![Worker] = Idle]
  /\ UNCHANGED <<conn, closes, stmts, db, faults, reg, depth, level, ruOn, torn, cl, ghostVars,
                 inputVars>>

Ok == call[Worker].ret = "ok"

Result(stage) ==
  /\ wrk = "run"
  /\ cur.stage = stage
  /\ call[Worker].pc = "ret" /\ call[Worker].ret # "badarg"
  /\ unrestored' = IF stage \in {"undo", "restore"} THEN ~Ok ELSE unrestored
  /\ UNCHANGED <<conn, closes, stmts, db, faults, reg, fresh, sent>>

SameTx == UNCHANGED <<depth, level, ruOn, torn>>
Stays == UNCHANGED <<wrk, inbox>>

RunDone == Result("run") /\ Reply(cur.req, Ok) /\ SameTx /\ Stays

CreateDone ==
  /\ Result("create")
  /\ IF Ok THEN Runs("run", cur.req, Query) ELSE Reply(cur.req, FALSE)
  /\ SameTx /\ Stays

\* open_tx: the pragma, BEGIN, and the pragma back when BEGIN fails.
RelaxDone ==
  /\ Result("relax")
  /\ IF Ok THEN Runs("begin", cur.req, Exec(Sql("begin", None))) ELSE Reply(cur.req, FALSE)
  /\ SameTx /\ Stays

\* Mutant: a failed BEGIN leaves the pragma on.
BeginDoneKeepsRelaxed ==
  /\ Result("begin")
  /\ \/ Ok /\ TxState(1, LevelOf(cur.req), LevelOf(cur.req) = "ru") /\ Reply(cur.req, TRUE)
     \/ ~Ok /\ SameTx /\ Reply(cur.req, FALSE)
  /\ Stays

BeginDone ==
  /\ Result("begin")
  /\ \/ Ok /\ TxState(1, LevelOf(cur.req), LevelOf(cur.req) = "ru") /\ Reply(cur.req, TRUE)
     \/ ~Ok /\ LevelOf(cur.req) = "ru" /\ SameTx
        /\ Runs("undo", cur.req, Exec(Sql("restore", None)))
     \/ ~Ok /\ LevelOf(cur.req) # "ru" /\ SameTx /\ Reply(cur.req, FALSE)
  /\ Stays

UndoDone == Result("undo") /\ Reply(cur.req, FALSE) /\ SameTx /\ Stays

\* Mutant: the depth moves even when the statement fails.
NestDoneUnchecked ==
  /\ \/ Result("nest") /\ TxState(depth + 1, level, ruOn)
     \/ Result("unnest") /\ TxState(depth - 1, level, ruOn)
  /\ Reply(cur.req, Ok)
  /\ Stays

\* run_tx.
NestDone ==
  /\ \/ Result("nest") /\ TxState(IF Ok THEN depth + 1 ELSE depth, level, ruOn)
     \/ Result("unnest") /\ TxState(IF Ok THEN depth - 1 ELSE depth, level, ruOn)
  /\ Reply(cur.req, Ok)
  /\ Stays

\* close_tx: nothing changes when COMMIT or ROLLBACK fails.
EndDone ==
  /\ Result("end")
  /\ \/ Ok /\ ruOn /\ Runs("restore", cur.req, Exec(Sql("restore", None))) /\ SameTx
     \/ Ok /\ ~ruOn /\ Reply(cur.req, TRUE) /\ TxState(0, None, FALSE)
     \/ ~Ok /\ Reply(cur.req, FALSE) /\ SameTx
  /\ Stays

\* Mutant: the level of the transaction outlives it.
RestoreDoneKeepsLevel ==
  Result("restore") /\ Reply(cur.req, TRUE) /\ TxState(0, level, FALSE) /\ Stays

RestoreDone == Result("restore") /\ Reply(cur.req, TRUE) /\ TxState(0, None, FALSE) /\ Stays

\* The worker answers and exits, whatever nif_close said.
CloseDone ==
  /\ Result("close")
  /\ Reply(cur.req, TRUE)
  /\ WorkerEnds
  /\ SameTx

------------------------------------------------------------------------------

\* A statement of the worker failed and SQLite took the transaction back: the worker
\* sees an error like any other, and its depth stays.
Tears == db.saves # <<>> /\ db'.saves = <<>> /\ call'[Worker].ret = "sqlite_error"

Native ==
  /\ \E p \in Procs : NifStep(p)
  /\ torn' = (torn \/ Tears)
  /\ UNCHANGED <<reg, wrk, inbox, cur, depth, level, ruOn, cl, ghostVars, inputVars>>

\* No process holds the resource any more.
Collect ==
  /\ wrk # "run"
  /\ \A c \in Clients : cl[c].pc \notin {"opening", "pragmas", "abandon"}
  /\ ConnDtor
  /\ UNCHANGED <<adapterVars, cl, ghostVars, inputVars>>

WorkerStep ==
  \/ Take \/ Crash \/ RunDone \/ CreateDone \/ RelaxDone \/ BeginDone \/ UndoDone
  \/ NestDone \/ EndDone \/ RestoreDone \/ CloseDone

ClientStep(c) ==
  \/ Connect(c) \/ Opened(c) \/ Ready(c) \/ Abandoned(c)
  \/ \E w \in Writes, v \in Values : Insert(c, w, v)
  \/ Read(c) \/ Begin(c) \/ End(c) \/ CloseHandle(c)
  \/ \E verb \in {"commit", "rollback"} : NotFound(c, verb)
  \/ Down(c) \/ Timeout(c) \/ Unregister(c) \/ Die(c)

Next == Native \/ Collect \/ WorkerStep \/ \E c \in Clients : ClientStep(c)

Spec == ConnInit /\ [][Next]_vars

------------------------------------------------------------------------------
(* Properties.                                                                  *)

\* The worker's State, where tx_level and ru_on belong to an open transaction, its
\* mailbox and what the clients believe.
ConnTypeOK ==
  /\ NifTypeOK
  /\ reg \in BOOLEAN /\ wrk \in {"none", "run", "dead"}
  /\ ruOn \in BOOLEAN /\ torn \in BOOLEAN
  /\ depth \in Nat /\ level \in Levels \union {None}
  /\ (level = None <=> depth = 0) /\ (ruOn => level = "ru")
  /\ \A i \in DOMAIN inbox : inbox[i].from \in Clients \union {None} /\ inbox[i].verb \in Waiting
  /\ \A c \in Clients : \A i \in DOMAIN cl[c].frames :
       cl[c].frames[i] \in [ws : SUBSET Writes, sound : BOOLEAN]
  /\ told \in SUBSET Writes /\ kept \in SUBSET Writes /\ undone \in SUBSET Writes

\* A client whose every verb found the connection at the nesting level it believes
\* in gets transactions: what it was told is committed is on disk, what it rolled
\* back is nowhere, whatever other clients, timeouts and failed statements did before,
\* between or after (worker_loop serialises the verbs, depth names the savepoints).
\* A transaction that SQLite took back is at no such level until the worker ends it.
InStepAtomic ==
  /\ kept \subseteq db.durable
  /\ undone \intersect (db.visible \union db.durable) = {}

\* open_tx, close_tx: "the connection never keeps relaxed reads without an open
\* transaction", also when BEGIN or COMMIT fails halfway, as long as SQLite takes the
\* pragma that restores them (maybe_restore_ru ignores its answer) and does not take
\* the transaction back (close_tx then leaves the pragma on).
RelaxedOnlyInTx ==
  wrk = "run" /\ cur = Rests => (db.relaxed => db.saves # <<>> \/ unrestored \/ torn)

\* The statement the worker waits for has taken effect.
Took == call[Worker].pc = "ret" /\ Ok

\* The nesting of the connection itself, ahead of the worker's depth between a
\* statement and its answer.
Nesting ==
  CASE cur.stage = "begin" /\ Took -> 1
    [] cur.stage = "nest" /\ Took -> depth + 1
    [] cur.stage = "unnest" /\ Took -> depth - 1
    [] cur.stage = "end" /\ Took -> 0
    [] cur.stage = "restore" -> 0
    [] OTHER -> depth

\* The savepoints that ROLLBACK TO leaves behind belong to no open transaction; a
\* level without a savepoint would be no transaction at all.
OpenTx ==
  IF db.saves = <<>> THEN <<>>
  ELSE [k \in 1..Nesting |->
          IF LastSave(k - 1) = 0 THEN Writes ELSE db.saves[LastSave(k - 1)].snap]

Promise == INSTANCE NestedTx WITH
  durable <- db.durable, visible <- db.visible,
  open <- IF torn THEN <<>> ELSE OpenTx, broken <- torn

\* The connection behind a handle is a nested-transaction connection: BEGIN and
\* SAVEPOINT ridge_sp_N open, COMMIT and RELEASE keep, ROLLBACK and ROLLBACK TO
\* take back exactly one level, and closing or crashing loses what is not durable.
\* From when SQLite takes a transaction back until the worker's depth is 0 again it
\* only loses nothing that was durable.
ImplementsNestedTx == Promise!TxSpec

\* Repo.transaction "commits and returns the value when the body answers `Ok`", and
\* a write outside a transaction is committed by itself: what a client was told is
\* committed is durable.
OkMeansDurable == told \subseteq db.durable

\* The same of a client whose commit finds the depth it believes in: it was told what
\* became of every verb before.
CommitMeansDurable ==
  [][\A c \in Clients :
       cl[c].pc = "commit" /\ cl'[c].pc = "idle" /\ depth = Len(cl[c].frames)
         => told' \ told \subseteq db.durable]_vars
=============================================================================
