------------------------------ MODULE SqliteNif ------------------------------
(* sqlite_nif.c, the native bridge of the SQLite adapter, over one connection.  *)
(* A native call runs on a dirty scheduler and takes no lock of its own, so it  *)
(* is as many steps as it makes calls into SQLite, and the calls of different   *)
(* processes interleave.  What SQLite does with a statement is external and is  *)
(* reduced to transactions: rows are the writes that are visible.               *)
EXTENDS Naturals, Sequences, FiniteSets

CONSTANTS
  Procs,             \* processes that can make native calls
  Writes,            \* rows that can be inserted
  None,
  FirstCap,          \* first capacity of the row array (16 in the code)
  MaxFaults          \* bound: what fails, times out or dies

ASSUME NifAssumption == FirstCap \in Nat \ {0} /\ MaxFaults \in Nat

VARIABLES
  conn,              \* conn_t: is there a resource, is db non-NULL, and closed
  closes,            \* sqlite3_close_v2 calls made on the open handle
  stmts,             \* processes whose call has a prepared statement
  call,              \* the native call of each process
  db,                \* SQLite: the writes, the savepoint stack, the pragma
  faults

nifVars == <<conn, closes, stmts, call, db, faults>>

------------------------------------------------------------------------------
(* SQLite (external).  saves is the transaction stack: BEGIN has name 0.        *)

Names == Nat

Sql(kind, arg) == [kind |-> kind, arg |-> arg, cell |-> None]

LastSave(n) == LET at == {i \in DOMAIN db.saves : db.saves[i].name = n}
               IN  IF at = {} THEN 0 ELSE CHOOSE i \in at : \A j \in at : j <= i

\* Statements SQLite refuses because of the state of the transaction stack.
Legal(sql) ==
  CASE sql.kind = "begin" -> db.saves = <<>>
    [] sql.kind \in {"commit", "rollback"} -> db.saves # <<>>
    [] sql.kind \in {"release", "rollback_to"} -> LastSave(sql.arg) # 0
    [] OTHER -> TRUE

Push(n) == [db EXCEPT !.saves = Append(@, [name |-> n, snap |-> db.visible])]

After(sql) ==
  CASE sql.kind = "insert" ->
         [db EXCEPT !.visible = @ \union {sql.arg},
                    !.durable = IF db.saves = <<>> THEN @ \union {sql.arg} ELSE @]
    [] sql.kind = "begin" -> Push(0)
    [] sql.kind = "savepoint" -> Push(sql.arg)
    [] sql.kind = "commit" -> [db EXCEPT !.durable = db.visible, !.saves = <<>>]
    [] sql.kind = "rollback" -> [db EXCEPT !.visible = db.durable, !.saves = <<>>]
    [] sql.kind = "release" ->
         LET i == LastSave(sql.arg) IN
         [db EXCEPT !.saves = SubSeq(@, 1, i - 1),
                    !.durable = IF i = 1 THEN db.visible ELSE @]
    [] sql.kind = "rollback_to" ->
         LET i == LastSave(sql.arg) IN
         [db EXCEPT !.saves = SubSeq(@, 1, i), !.visible = db.saves[i].snap]
    [] sql.kind = "relax" -> [db EXCEPT !.relaxed = TRUE]
    [] sql.kind = "restore" -> [db EXCEPT !.relaxed = FALSE]
    [] OTHER -> db

\* A handle is released when it is closed and has no statement left, and takes
\* an open transaction with it.
Released(d, n, left) ==
  IF n > 0 /\ left = {}
    THEN [d EXCEPT !.visible = d.durable, !.saves = <<>>, !.relaxed = FALSE]
    ELSE d

\* What SQLite itself does to the open transaction when a statement fails: nothing,
\* or, on a full disk, an I/O error, no memory, or a COMMIT that fails with anything
\* but a lock, it takes it back (sqlite3VdbeHalt).  The caller learns of an error.
RolledBack ==
  IF db.saves = <<>> THEN db ELSE [db EXCEPT !.visible = db.durable, !.saves = <<>>]

\* Something failed that may fail: a locked database, a full disk, no memory.
Fails == faults < MaxFaults /\ faults' = faults + 1
Works == faults' = faults

------------------------------------------------------------------------------
(* Calls.                                                                       *)

Idle == [pc |-> "idle", sql |-> None, nrows |-> 0, cap |-> 0, ret |-> None]

Exec(sql) == [Idle EXCEPT !.pc = "enter", !.sql = sql]
Query == Exec(Sql("select", None))
OpenCall == [Idle EXCEPT !.pc = "open"]
CloseCall == [Idle EXCEPT !.pc = "close"]

IsQuery(p) == call[p].sql.kind = "select"

Goto(p, pc) == call' = [call EXCEPT ![p].pc = pc]

\* The call returns; the row array, if any, has been freed.
Return(p, r) ==
  call' = [call EXCEPT ![p].pc = "ret", ![p].ret = r, ![p].nrows = 0, ![p].cap = 0]

Finalize(p) ==
  /\ stmts' = stmts \ {p}
  /\ db' = Released(db, closes, stmts \ {p})

\* get_conn: both fields are read without a lock.
GetConn(p) ==
  /\ call[p].pc = "enter"
  /\ IF conn.closed \/ ~conn.db THEN Return(p, "closed") ELSE Goto(p, "prepare")
  /\ UNCHANGED <<conn, closes, stmts, db, faults>>

\* bind_one: every cell but an integer that does not fit 64 bits.
BindOne(cell) == cell # "big"

\* Mutant: a parameter that does not bind leaves the statement.
PrepareLeaks(p) ==
  /\ call[p].pc = "prepare"
  /\ \/ Fails /\ UNCHANGED <<stmts, db>> /\ Return(p, "sqlite_error")
     \/ ~BindOne(call[p].sql.cell) /\ Works /\ stmts' = stmts \union {p} /\ db' = db
        /\ Return(p, "bad_param")
     \/ BindOne(call[p].sql.cell) /\ Works /\ stmts' = stmts \union {p} /\ db' = db
        /\ Goto(p, "step")
  /\ UNCHANGED <<conn, closes>>

\* sqlite3_prepare_v2, bind_params, and for a query the names of its columns: each
\* error after the first finalizes the statement.
Prepare(p) ==
  /\ call[p].pc = "prepare"
  /\ \/ Fails /\ UNCHANGED <<stmts, db>> /\ Return(p, "sqlite_error")
     \/ ~BindOne(call[p].sql.cell) /\ Works /\ Finalize(p) /\ Return(p, "bad_param")
     \/ IsQuery(p) /\ Fails /\ Finalize(p) /\ Return(p, "badarg")
     \/ BindOne(call[p].sql.cell) /\ Works /\ stmts' = stmts \union {p} /\ db' = db
        /\ Goto(p, "step")
  /\ UNCHANGED <<conn, closes>>

\* The statement fails, and is finalized.
StatementFails(p) ==
  /\ stmts' = stmts \ {p}
  /\ \E d \in {db, RolledBack} : db' = Released(d, closes, stmts \ {p})
  /\ Return(p, "sqlite_error")

\* The step loop of exec_nif, and the finalize that follows it in every case.
ExecStep(p) ==
  /\ call[p].pc = "step"
  /\ ~IsQuery(p)
  /\ \/ /\ Legal(call[p].sql) /\ Works /\ Return(p, "ok")
        /\ stmts' = stmts \ {p}
        /\ db' = Released(After(call[p].sql), closes, stmts \ {p})
     \/ ~Legal(call[p].sql) /\ Works /\ Finalize(p) /\ Return(p, "sqlite_error")
     \/ Legal(call[p].sql) /\ Fails /\ StatementFails(p)
  /\ UNCHANGED <<conn, closes>>

Grown(cap) == IF cap = 0 THEN FirstCap ELSE 2 * cap

\* One row of query_nif: its cells, room for it in the array, its place there.
RowStep(p) ==
  /\ call[p].pc = "step"
  /\ IsQuery(p)
  /\ call[p].nrows < Cardinality(db.visible)
  /\ \/ /\ Works
        /\ call' = [call EXCEPT ![p].nrows = @ + 1,
                      ![p].cap = IF @ = call[p].nrows THEN Grown(@) ELSE @]
        /\ UNCHANGED <<stmts, db>>
     \/ Fails /\ Finalize(p) /\ Return(p, "badarg")
  /\ UNCHANGED <<conn, closes>>

\* The loop ends: the rows become a list and the array is freed, in every case.
RowsEnd(p) ==
  /\ call[p].pc = "step"
  /\ IsQuery(p)
  /\ \/ call[p].nrows = Cardinality(db.visible) /\ Works /\ Finalize(p) /\ Return(p, "ok")
     \/ Fails /\ StatementFails(p)
  /\ UNCHANGED <<conn, closes>>

\* open_nif: on an error the half-open handle is closed at once.
Open(p) ==
  /\ call[p].pc = "open"
  /\ \/ Works /\ conn' = [res |-> "live", db |-> TRUE, closed |-> FALSE] /\ Return(p, "ok")
     \/ Fails /\ conn' = conn /\ Return(p, "sqlite_error")
  /\ UNCHANGED <<closes, stmts, db>>

\* close_nif: the check, then the close and the two stores.
CloseCheck(p) ==
  /\ call[p].pc = "close"
  /\ IF conn.closed \/ ~conn.db THEN Return(p, "closed") ELSE Goto(p, "closing")
  /\ UNCHANGED <<conn, closes, stmts, db, faults>>

CloseDb == closes' = closes + 1 /\ db' = Released(db, closes + 1, stmts)

\* Mutant: the connection still looks open to the destructor.
CloseForgets(p) ==
  /\ call[p].pc = "closing"
  /\ CloseDb
  /\ Return(p, "ok")
  /\ UNCHANGED <<conn, stmts, faults>>

Close(p) ==
  /\ call[p].pc = "closing"
  /\ CloseDb
  /\ conn' = [conn EXCEPT !.db = FALSE, !.closed = TRUE]
  /\ Return(p, "ok")
  /\ UNCHANGED <<stmts, faults>>

\* conn_dtor, when the collector finds the resource unreferenced.
ConnDtor ==
  /\ conn.res = "live"
  /\ IF conn.db /\ ~conn.closed THEN CloseDb ELSE UNCHANGED <<closes, db>>
  /\ conn' = [res |-> "gone", db |-> FALSE, closed |-> TRUE]
  /\ UNCHANGED <<stmts, call, faults>>

NifInit ==
  /\ conn = [res |-> "none", db |-> FALSE, closed |-> FALSE]
  /\ closes = 0
  /\ stmts = {}
  /\ call = [p \in Procs |-> Idle]
  /\ db = [durable |-> {}, visible |-> {}, saves |-> <<>>, relaxed |-> FALSE]
  /\ faults = 0

NifStep(p) ==
  \/ GetConn(p) \/ Prepare(p) \/ ExecStep(p) \/ RowStep(p) \/ RowsEnd(p)
  \/ Open(p) \/ CloseCheck(p) \/ Close(p)

------------------------------------------------------------------------------
(* Properties.                                                                  *)

Inside == {"prepare", "step", "closing"}

NifTypeOK ==
  /\ conn \in [res : {"none", "live", "gone"}, db : BOOLEAN, closed : BOOLEAN]
  /\ closes \in Nat
  /\ stmts \in SUBSET Procs
  /\ \A p \in Procs :
       /\ call[p].pc \in {"idle", "open", "enter", "close", "ret"} \union Inside
       /\ call[p].nrows \in Nat /\ call[p].cap \in Nat
       /\ call[p].ret \in {None, "ok", "closed", "sqlite_error", "bad_param", "badarg"}
  /\ db.durable \in SUBSET Writes /\ db.visible \in SUBSET Writes
  /\ db.relaxed \in BOOLEAN
  /\ db.saves \in Seq([name : Names, snap : SUBSET Writes])
  /\ faults \in 0..MaxFaults

\* A call that has passed its check of the handle (get_conn, close_nif) has the
\* connection until it returns, and the handle is closed at most once, counting
\* the destructor: no call touches a sqlite3* that is gone.
HandleHeld ==
  /\ \A p \in Procs : call[p].pc \in Inside => conn.db
  /\ closes <= 1

\* Every way out of exec_nif and query_nif finalizes the statement and frees the
\* rows, rows are stored inside the array, and a connection that was collected
\* has been closed.
NothingLeaks ==
  /\ \A p \in Procs :
       /\ call[p].pc \in {"idle", "enter", "ret"} => p \notin stmts /\ call[p].cap = 0
       /\ call[p].nrows <= call[p].cap
  /\ conn.res = "gone" => closes = 1
===============================================================================
