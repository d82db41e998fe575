---------------------------- MODULE SqliteProofs ----------------------------
(***************************************************************************)
(* Theorems about the SQLite bridge under its worker, for every number of  *)
(* clients, requests, nested transactions and faults.  The C code takes no *)
(* lock, so what keeps a call from meeting a closed handle is that two     *)
(* processes are never inside native calls at once: the client that opens  *)
(* the handle is done before the worker starts, and the worker makes one   *)
(* call at a time.                                                         *)
(***************************************************************************)
EXTENDS SqliteConn, CountingLemmas, SequenceTheorems, TLAPS

-----------------------------------------------------------------------------
(* The type of the state. *)

CallPcs == {"idle", "open", "enter", "prepare", "step", "close", "closing", "ret"}

Kinds == {"pragma", "select", "relax", "begin", "savepoint", "commit", "rollback", "release",
          "rollback_to", "restore", "create", "insert"}

Sqls == {s \in [kind : Kinds, arg : Writes \union Nat \union {None}, cell : {None, "int", "big"}] :
           /\ s.kind = "insert" => s.arg \in Writes
           /\ s.kind \in {"savepoint", "release", "rollback_to"} => s.arg \in Nat}

Rets == {None, "ok", "closed", "sqlite_error", "bad_param", "badarg"}

Calls == [pc : CallPcs, sql : Sqls \union {None}, nrows : Nat, cap : Nat, ret : Rets]

Saves == [name : Names, snap : SUBSET Writes]

Dbs == [durable : SUBSET Writes, visible : SUBSET Writes, saves : Seq(Saves), relaxed : BOOLEAN]

NifType ==
  /\ conn \in [res : {"none", "live", "gone"}, db : BOOLEAN, closed : BOOLEAN]
  /\ closes \in Nat
  /\ stmts \in SUBSET Procs
  /\ call \in [Procs -> Calls]
  /\ db \in Dbs
  /\ faults \in 0..MaxFaults

Reqs == {r \in [from : Clients \union {None}, verb : Waiting,
                arg : Writes \union Levels \union {None}, val : Values \union {None}] :
           /\ r.verb = "insert" => r.arg \in Writes
           /\ r.verb = "begin" => r.arg \in Levels \union {None}}

Stages == {"rest", "relax", "begin", "undo", "nest", "unnest", "end", "restore", "run",
           "create", "close"}

OpeningPcs == {"opening", "pragmas", "abandon"}

ClientPcs == Waiting \union OpeningPcs \union {"idle", "unregister", "dead"}

FrameSet == [ws : SUBSET Writes, sound : BOOLEAN]

WorkerType ==
  /\ reg \in BOOLEAN
  /\ wrk \in {"none", "run", "dead"}
  /\ inbox \in Seq(Reqs)
  /\ cur \in [req : Reqs \union {None}, stage : Stages]
  /\ cur.stage # "rest" => cur.req \in Reqs
  /\ depth \in Nat /\ level \in Levels \union {None} /\ ruOn \in BOOLEAN

ClientType ==
  /\ cl \in [Clients -> [pc : ClientPcs, frames : Seq(FrameSet)]]
  /\ fresh \in SUBSET Writes /\ told \in SUBSET Writes
  /\ kept \in SUBSET Writes /\ undone \in SUBSET Writes
  /\ unrestored \in BOOLEAN

TypeInv == NifType /\ WorkerType /\ ClientType

(* The rest of the inductive invariant. *)

Opening(c) == cl[c].pc \in OpeningPcs

\* The two fields of conn_t tell whether the handle was closed.
HandleInv ==
  /\ conn.db <=> conn.res = "live" /\ ~conn.closed
  /\ conn.res = "none" => ~conn.closed
  /\ conn.res = "gone" => conn.closed
  /\ closes = IF conn.closed THEN 1 ELSE 0

\* Who may be in a native call: the worker while it runs, or the one client that
\* opens the handle while there is no worker.
WhoInv ==
  /\ wrk # "run" => call[Worker].pc = "idle" /\ cur.stage = "rest"
  /\ cur.stage = "rest" <=> call[Worker].pc = "idle"
  /\ call[Worker].pc # "open"
  /\ wrk # "none" => \A c \in Clients : ~Opening(c)
  /\ \A c, d \in Clients : Opening(c) /\ Opening(d) => c = d
  /\ \A c \in Clients : ~Opening(c) => call[c].pc = "idle"

\* How far the client that opens the handle has come.
OpenInv ==
  /\ wrk = "run" => conn.res = "live"
  /\ \A c \in Clients :
       /\ cl[c].pc = "opening" =>
            \/ call[c].pc = "open" /\ conn.res = "none"
            \/ call[c].pc = "ret" /\ (call[c].ret = "ok" => conn.res = "live")
       /\ cl[c].pc = "pragmas" =>
            /\ conn.res = "live" /\ call[c].pc \in {"enter", "prepare", "step", "ret"}
            /\ call[c].sql = Sql("pragma", None)
       /\ cl[c].pc = "abandon" => call[c].pc \in {"close", "closing", "ret"}

\* A call that is past its check has the handle; only a stepping one has a statement
\* and rows, and the rows fit.
CallInv ==
  \A p \in Procs :
    /\ call[p].pc \in Inside => conn.db
    /\ p \in stmts <=> call[p].pc = "step"
    /\ call[p].nrows <= call[p].cap
    /\ call[p].pc # "step" => call[p].cap = 0

\* The transaction that the worker's State describes.
TxInv ==
  /\ level = None <=> depth = 0
  /\ ruOn => level = "ru"

\* What the worker serves at each stage.
StageInv ==
  LET s == cur.stage
      r == cur.req
  IN /\ s \in {"relax", "begin", "undo", "nest"} => r.verb = "begin"
     /\ s \in {"unnest", "end", "restore"} => r.verb \in {"commit", "rollback"}
     /\ s \in {"relax", "begin", "undo"} => depth = 0
     /\ s \in {"relax", "undo"} => LevelOf(r) = "ru"
     /\ s = "nest" => depth > 0
     /\ s = "unnest" => depth > 1
     /\ s \in {"end", "restore"} => depth = 1
     /\ s = "restore" => ruOn
     /\ s = "create" => r.verb = "migrations"
     /\ s = "run" => r.verb \in {"insert", "query", "migrations"}
     /\ s = "close" => r.verb = "close"

\* The statement it has sent for it.
SqlInv ==
  LET s == cur.stage
      r == cur.req
      q == call[Worker].sql
  IN /\ s = "nest" => q = Sql("savepoint", depth)
     /\ s = "unnest" => q = Sql(IF r.verb = "commit" THEN "release" ELSE "rollback_to", depth - 1)
     /\ s = "end" => q = Sql(r.verb, None)
     /\ s = "relax" => q = Sql("relax", None)
     /\ s = "begin" => q = Sql("begin", None)
     /\ s \in {"undo", "restore"} => q = Sql("restore", None)
     /\ s = "create" => q = Sql("create", None)
     /\ s = "run" => q = IF r.verb = "insert"
                           THEN [kind |-> "insert", arg |-> r.arg, cell |-> ToCell(r.val)]
                           ELSE Sql("select", None)
     /\ call[Worker].pc \in {"close", "closing"} => s = "close"
     /\ s = "close" => call[Worker].pc \in {"close", "closing", "ret"}

BaseInv ==
  /\ TypeInv /\ HandleInv /\ WhoInv /\ OpenInv /\ CallInv
  /\ TxInv /\ StageInv /\ SqlInv

USE DEF CallPcs, Rets, Inside, OpeningPcs, Names

-----------------------------------------------------------------------------
(* SQLite: where a savepoint is found, and what a statement leaves. *)

\* The place of the last savepoint with name n, or 0.
At(s, n) == LET at == {i \in DOMAIN s : s[i].name = n}
            IN  IF at = {} THEN 0 ELSE CHOOSE i \in at : \A j \in at : j <= i

LEMMA AtFound ==
  ASSUME NEW s \in Seq(Saves), NEW n
  PROVE  /\ At(s, n) \in 0..Len(s)
         /\ At(s, n) = 0 => \A i \in DOMAIN s : s[i].name # n
         /\ At(s, n) # 0 =>
              /\ At(s, n) \in DOMAIN s
              /\ s[At(s, n)].name = n
              /\ \A i \in DOMAIN s : s[i].name = n => i <= At(s, n)
<1> DEFINE at == {i \in DOMAIN s : s[i].name = n}
<1>1. /\ Len(s) \in Nat
      /\ DOMAIN s = 1..Len(s)
  OBVIOUS
<1>2. CASE at = {}
  BY <1>1, <1>2 DEF At
<1>3. CASE at # {}
  <2>1. \E i \in at : \A j \in at : j <= i
    BY <1>1, <1>3, LargestOf
  <2>2. /\ At(s, n) \in at
        /\ \A j \in at : j <= At(s, n)
    BY <1>3, <2>1 DEF At
  <2>3. At(s, n) \in 1..Len(s)
    BY <1>1, <2>2
  <2> QED  BY <1>1, <2>2, <2>3
<1> QED  BY <1>2, <1>3

LEMMA LastSaveFound ==
  ASSUME db \in Dbs, NEW n
  PROVE  /\ LastSave(n) = At(db.saves, n)
         /\ LastSave(n) # 0 => LastSave(n) \in DOMAIN db.saves
<1>1. db.saves \in Seq(Saves) /\ LastSave(n) = At(db.saves, n)
  BY DEF Dbs, LastSave, At
<1> QED  BY <1>1, AtFound

LEMMA AfterType ==
  ASSUME db \in Dbs, NEW sql \in Sqls, Legal(sql)
  PROVE  After(sql) \in Dbs
<1>0. <<>> \in Seq(Saves)
  OBVIOUS
<1>1. CASE sql.kind = "insert"
  BY <1>1 DEF After, Sqls, Dbs
<1>2. CASE sql.kind \in {"begin", "savepoint"}
  <2>1. \A n \in Nat : Push(n) \in Dbs
    <3> SUFFICES ASSUME NEW n \in Nat PROVE Push(n) \in Dbs
      OBVIOUS
    <3>1. db.visible \in SUBSET Writes /\ db.saves \in Seq(Saves)
      BY DEF Dbs
    <3>2. [name |-> n, snap |-> db.visible] \in Saves
      BY <3>1 DEF Saves
    <3>3. Append(db.saves, [name |-> n, snap |-> db.visible]) \in Seq(Saves)
      BY <3>1, <3>2
    <3> QED  BY <3>3 DEF Push, Dbs
  <2> QED  BY <1>2, <2>1 DEF After, Sqls
<1>3. CASE sql.kind = "commit"
  BY <1>0, <1>3 DEF After, Dbs
<1>4. CASE sql.kind = "rollback"
  BY <1>0, <1>4 DEF After, Dbs
<1>5. CASE sql.kind \in {"release", "rollback_to"}
  <2> DEFINE i == LastSave(sql.arg)
  <2>1. i \in DOMAIN db.saves /\ i \in 1..Len(db.saves)
    BY <1>5, LastSaveFound DEF Legal, Dbs
  <2>2. SubSeq(db.saves, 1, i - 1) \in Seq(Saves)
    BY <2>1 DEF Dbs
  <2>3. SubSeq(db.saves, 1, i) \in Seq(Saves)
    BY <2>1 DEF Dbs
  <2>4. db.saves[i].snap \in SUBSET Writes
    <3>1. db.saves \in Seq(Saves)
      BY DEF Dbs
    <3>2. db.saves[i] \in Saves
      <4> HIDE DEF i
      <4> QED  BY <2>1, <3>1
    <3> QED  BY <3>2 DEF Saves
  <2>5. CASE sql.kind = "release"
    BY <2>2, <2>5 DEF After, Dbs
  <2>6. CASE sql.kind = "rollback_to"
    BY <2>3, <2>4, <2>6 DEF After, Dbs
  <2> QED  BY <1>5, <2>5, <2>6
<1>6. CASE sql.kind \in {"pragma", "select", "create"}
  BY <1>6 DEF After
<1>7. CASE sql.kind \in {"relax", "restore"}
  BY <1>7 DEF After, Dbs
<1> QED  BY <1>1, <1>2, <1>3, <1>4, <1>5, <1>6, <1>7 DEF Sqls, Kinds

LEMMA ReleasedType ==
  ASSUME NEW d \in Dbs, NEW n, NEW left
  PROVE  Released(d, n, left) \in Dbs
<1>1. <<>> \in Seq(Saves)
  OBVIOUS
<1> QED  BY <1>1 DEF Released, Dbs

-----------------------------------------------------------------------------
(* The type is kept: native calls. *)

LEMMA TypeGoto ==
  ASSUME NifType, NEW p \in Procs, NEW pc \in CallPcs, Goto(p, pc)
  PROVE  call' \in [Procs -> Calls]
BY DEF NifType, Goto, Calls

LEMMA TypeReturn ==
  ASSUME NifType, NEW p \in Procs, NEW r \in Rets, Return(p, r)
  PROVE  call' \in [Procs -> Calls]
<1>1. call[p] \in Calls
  BY DEF NifType
<1>2. [call[p] EXCEPT !.pc = "ret", !.ret = r, !.nrows = 0, !.cap = 0] \in Calls
  BY <1>1 DEF Calls
<1>3. call' = [call EXCEPT ![p] = [call[p] EXCEPT !.pc = "ret", !.ret = r, !.nrows = 0, !.cap = 0]]
  BY DEF NifType, Return
<1> QED  BY <1>2, <1>3 DEF NifType

LEMMA TypeFinalize ==
  ASSUME NifType, NEW p \in Procs, Finalize(p)
  PROVE  stmts' \in SUBSET Procs /\ db' \in Dbs
BY ReleasedType DEF NifType, Finalize

LEMMA TypeFailed ==
  ASSUME NifType, NEW p \in Procs, StatementFails(p)
  PROVE  stmts' \in SUBSET Procs /\ db' \in Dbs
<1>1. <<>> \in Seq(Saves) /\ db \in Dbs
  BY DEF NifType
<1>2. RolledBack \in Dbs
  BY <1>1 DEF RolledBack, Dbs
<1> QED  BY <1>1, <1>2, ReleasedType DEF NifType, StatementFails

LEMMA TypeFaults ==
  ASSUME NifType, Fails \/ Works
  PROVE  faults' \in 0..MaxFaults
BY NifAssumption DEF NifType, Fails, Works

\* The statement of a call that runs.
LEMMA TypeStep ==
  ASSUME TypeInv, NEW p \in Procs, call[p].pc = "step" => call[p].sql \in Sqls, NifStep(p)
  PROVE  NifType'
<1>0. NifType
  BY DEF TypeInv
<1>1. CASE GetConn(p)
  <2>1. call' \in [Procs -> Calls]
    BY <1>0, <1>1, TypeGoto, TypeReturn DEF GetConn
  <2> QED  BY <1>0, <1>1, <2>1 DEF GetConn, NifType
<1>2. CASE Prepare(p)
  <2>1. call' \in [Procs -> Calls]
    BY <1>0, <1>2, TypeGoto, TypeReturn DEF Prepare
  <2>2. stmts' \in SUBSET Procs /\ db' \in Dbs
    BY <1>0, <1>2, TypeFinalize DEF Prepare, NifType
  <2>3. faults' \in 0..MaxFaults
    BY <1>0, <1>2, TypeFaults DEF Prepare
  <2> QED  BY <1>0, <1>2, <2>1, <2>2, <2>3 DEF Prepare, NifType
<1>3. CASE ExecStep(p)
  <2>1. call' \in [Procs -> Calls]
    BY <1>0, <1>3, TypeReturn DEF ExecStep, StatementFails
  <2>2. stmts' \in SUBSET Procs /\ db' \in Dbs
    <3>1. CASE Legal(call[p].sql) /\ stmts' = stmts \ {p}
               /\ db' = Released(After(call[p].sql), closes, stmts \ {p})
      <4>1. After(call[p].sql) \in Dbs
        BY <1>0, <1>3, <3>1, AfterType DEF ExecStep, NifType
      <4> QED  BY <1>0, <3>1, <4>1, ReleasedType DEF NifType
    <3>2. CASE Finalize(p)
      BY <1>0, <3>2, TypeFinalize
    <3>3. CASE StatementFails(p)
      BY <1>0, <3>3, TypeFailed
    <3> QED  BY <1>3, <3>1, <3>2, <3>3 DEF ExecStep
  <2>3. faults' \in 0..MaxFaults
    BY <1>0, <1>3, TypeFaults DEF ExecStep
  <2> QED  BY <1>0, <1>3, <2>1, <2>2, <2>3 DEF ExecStep, NifType
<1>4. CASE RowStep(p)
  <2>1. call' \in [Procs -> Calls]
    <3>1. CASE call' = [call EXCEPT ![p].nrows = @ + 1,
                          ![p].cap = IF @ = call[p].nrows THEN Grown(@) ELSE @]
      <4> DEFINE stored == [call EXCEPT ![p].nrows = @ + 1]
      <4>1. stored \in [Procs -> Calls] /\ stored[p].cap \in Nat
        BY <1>0 DEF NifType, Calls
      <4>2. call' = [stored EXCEPT ![p].cap = IF @ = call[p].nrows THEN Grown(@) ELSE @]
        BY <3>1
      <4>3. Grown(stored[p].cap) \in Nat
        BY <4>1, NifAssumption DEF Grown
      <4> HIDE DEF stored
      <4> QED  BY <4>1, <4>2, <4>3 DEF Calls
    <3> QED  BY <1>0, <1>4, <3>1, TypeReturn DEF RowStep
  <2>2. stmts' \in SUBSET Procs /\ db' \in Dbs
    BY <1>0, <1>4, TypeFinalize DEF RowStep, NifType
  <2>3. faults' \in 0..MaxFaults
    BY <1>0, <1>4, TypeFaults DEF RowStep
  <2> QED  BY <1>0, <1>4, <2>1, <2>2, <2>3 DEF RowStep, NifType
<1>5. CASE RowsEnd(p)
  <2>1. call' \in [Procs -> Calls]
    BY <1>0, <1>5, TypeReturn DEF RowsEnd, StatementFails
  <2>2. stmts' \in SUBSET Procs /\ db' \in Dbs
    BY <1>0, <1>5, TypeFinalize, TypeFailed DEF RowsEnd
  <2>3. faults' \in 0..MaxFaults
    BY <1>0, <1>5, TypeFaults DEF RowsEnd
  <2> QED  BY <1>0, <1>5, <2>1, <2>2, <2>3 DEF RowsEnd, NifType
<1>6. CASE Open(p)
  <2>1. call' \in [Procs -> Calls]
    BY <1>0, <1>6, TypeReturn DEF Open
  <2>2. faults' \in 0..MaxFaults
    BY <1>0, <1>6, TypeFaults DEF Open
  <2>3. conn' \in [res : {"none", "live", "gone"}, db : BOOLEAN, closed : BOOLEAN]
    <3>1. conn \in [res : {"none", "live", "gone"}, db : BOOLEAN, closed : BOOLEAN]
      BY <1>0 DEF NifType
    <3>2. CASE conn' = conn
      BY <3>1, <3>2
    <3>3. CASE conn' = [res |-> "live", db |-> TRUE, closed |-> FALSE]
      BY <3>3
    <3> QED  BY <1>6, <3>2, <3>3 DEF Open
  <2>4. UNCHANGED <<closes, stmts, db>>
    BY <1>6 DEF Open
  <2> QED  BY <1>0, <2>1, <2>2, <2>3, <2>4 DEF NifType
<1>7. CASE CloseCheck(p)
  <2>1. call' \in [Procs -> Calls]
    BY <1>0, <1>7, TypeGoto, TypeReturn DEF CloseCheck
  <2> QED  BY <1>0, <1>7, <2>1 DEF CloseCheck, NifType
<1>8. CASE Close(p)
  <2>1. call' \in [Procs -> Calls]
    BY <1>0, <1>8, TypeReturn DEF Close
  <2>2. db' \in Dbs
    BY <1>0, <1>8, ReleasedType DEF Close, CloseDb, NifType
  <2>3. conn' \in [res : {"none", "live", "gone"}, db : BOOLEAN, closed : BOOLEAN]
    <3>1. conn \in [res : {"none", "live", "gone"}, db : BOOLEAN, closed : BOOLEAN]
      BY <1>0 DEF NifType
    <3>2. conn' = [res |-> conn.res, db |-> FALSE, closed |-> TRUE]
      BY <1>8, <3>1 DEF Close
    <3> QED  BY <3>1, <3>2
  <2>4. closes' \in Nat /\ UNCHANGED <<stmts, faults>>
    BY <1>0, <1>8 DEF Close, CloseDb, NifType
  <2> QED  BY <1>0, <2>1, <2>2, <2>3, <2>4 DEF NifType
<1> QED  BY <1>1, <1>2, <1>3, <1>4, <1>5, <1>6, <1>7, <1>8 DEF NifStep

-----------------------------------------------------------------------------
(* The client that opens the handle. *)

LEMMA OneInside ==
  ASSUME WhoInv, NEW p \in Procs, NEW q \in Procs,
         call[p].pc # "idle", call[q].pc # "idle"
  PROVE  p = q
BY ConnAssumption DEF WhoInv, Opening

LEMMA SqlTypes ==
  /\ \A kind \in Kinds \ {"insert", "savepoint", "release", "rollback_to"} : Sql(kind, None) \in Sqls
  /\ \A kind \in {"savepoint", "release", "rollback_to"}, n \in Nat : Sql(kind, n) \in Sqls
  /\ \A w \in Writes : \A v : [kind |-> "insert", arg |-> w, cell |-> ToCell(v)] \in Sqls
BY DEF Sql, Sqls, ToCell, Kinds

LEMMA CallTypes ==
  /\ Idle \in Calls /\ OpenCall \in Calls /\ CloseCall \in Calls /\ Query \in Calls
  /\ \A sql \in Sqls : Exec(sql) \in Calls
  /\ Idle.pc = "idle" /\ OpenCall.pc = "open" /\ CloseCall.pc = "close"
  /\ Idle.cap = 0 /\ OpenCall.cap = 0 /\ CloseCall.cap = 0
  /\ Idle.nrows = 0 /\ OpenCall.nrows = 0 /\ CloseCall.nrows = 0
  /\ \A sql : Exec(sql).pc = "enter" /\ Exec(sql).cap = 0 /\ Exec(sql).nrows = 0
              /\ Exec(sql).sql = sql
  /\ Query = Exec(Sql("select", None))
<1>1. Idle \in Calls
  BY DEF Idle, Calls
<1>2. \A sql : Exec(sql).pc = "enter" /\ Exec(sql).cap = 0 /\ Exec(sql).nrows = 0
               /\ Exec(sql).sql = sql
  BY DEF Exec, Idle
<1>6. \A sql \in Sqls : Exec(sql) \in Calls
  BY <1>1 DEF Exec, Calls
<1>3. OpenCall = [pc |-> "open", sql |-> None, nrows |-> 0, cap |-> 0, ret |-> None]
  BY DEF OpenCall, Idle
<1>4. CloseCall = [pc |-> "close", sql |-> None, nrows |-> 0, cap |-> 0, ret |-> None]
  BY DEF CloseCall, Idle
<1>5. Sql("select", None) \in Sqls
  BY SqlTypes DEF Kinds
<1> QED  BY <1>1, <1>2, <1>3, <1>4, <1>5, <1>6 DEF Calls, Query, Idle

LEMMA WorkerUntouched ==
  ASSUME BaseInv, UNCHANGED <<cur, depth, level, ruOn>>, call'[Worker] = call[Worker]
  PROVE  TxInv' /\ StageInv' /\ SqlInv'
BY DEF BaseInv, TxInv, StageInv, SqlInv, LevelOf

LEMMA PcType ==
  ASSUME ClientType, NEW c \in Clients, NEW pc \in ClientPcs, cl' = [cl EXCEPT ![c].pc = pc]
  PROVE  /\ cl' \in [Clients -> [pc : ClientPcs, frames : Seq(FrameSet)]]
         /\ \A d \in Clients : /\ cl'[d].pc = IF d = c THEN pc ELSE cl[d].pc
                               /\ cl'[d].frames = cl[d].frames
<1>1. cl \in [Clients -> [pc : ClientPcs, frames : Seq(FrameSet)]]
  BY DEF ClientType
<1> QED  BY <1>1

LEMMA CallType ==
  ASSUME NifType, NEW p \in Procs, NEW n \in Calls, call' = [call EXCEPT ![p] = n]
  PROVE  /\ call' \in [Procs -> Calls]
         /\ \A q \in Procs : call'[q] = IF q = p THEN n ELSE call[q]
BY DEF NifType

\* The client that opens the handle goes on to pc, with n as its next call or none.
LEMMA OpenerStep ==
  ASSUME BaseInv, NEW c \in Clients, NEW pc \in ClientPcs, NEW n \in Calls,
         wrk = "none", call[c].pc \in {"idle", "ret"}, \A d \in Clients : Opening(d) => d = c,
         cl' = [cl EXCEPT ![c].pc = pc], call' = [call EXCEPT ![c] = n],
         n.nrows = 0, n.cap = 0,
         \/ pc \notin OpeningPcs /\ n.pc = "idle"
         \/ pc = "opening" /\ conn.res = "none" /\ n.pc = "open"
         \/ pc = "pragmas" /\ conn.res = "live" /\ n.pc = "enter" /\ n.sql = Sql("pragma", None)
         \/ pc = "abandon" /\ n.pc = "close",
         \/ wrk' = "none"
         \/ wrk' = "run" /\ pc = "idle" /\ conn.res = "live",
         reg' \in BOOLEAN,
         UNCHANGED <<conn, closes, stmts, db, faults, inbox, cur, depth, level, ruOn>>,
         UNCHANGED <<told, kept, undone, fresh, sent, unrestored>>
  PROVE  BaseInv'
<1> USE ConnAssumption DEF Opening
<1>1. TypeInv /\ HandleInv /\ WhoInv /\ OpenInv /\ CallInv
  BY DEF BaseInv
<1>2. /\ cl' \in [Clients -> [pc : ClientPcs, frames : Seq(FrameSet)]]
      /\ \A d \in Clients : cl'[d].pc = IF d = c THEN pc ELSE cl[d].pc
  BY <1>1, PcType DEF TypeInv
<1>3. /\ call' \in [Procs -> Calls]
      /\ \A p \in Procs : call'[p] = IF p = c THEN n ELSE call[p]
  BY <1>1, CallType DEF TypeInv
<1>4. TypeInv'
  BY <1>1, <1>2, <1>3 DEF TypeInv, NifType, WorkerType, ClientType
<1>5. HandleInv'
  BY <1>1 DEF HandleInv
<1>6. WhoInv'
  BY <1>1, <1>2, <1>3 DEF WhoInv
<1>7. OpenInv'
  BY <1>1, <1>2, <1>3 DEF OpenInv
<1>8. CallInv'
  BY <1>1, <1>3 DEF WhoInv, CallInv
<1>9. TxInv' /\ StageInv' /\ SqlInv'
  BY <1>3, WorkerUntouched
<1> QED  BY <1>4, <1>5, <1>6, <1>7, <1>8, <1>9 DEF BaseInv

LEMMA KeepsConnect ==
  ASSUME BaseInv, NEW c \in Clients, Connect(c)
  PROVE  BaseInv'
<1>1. /\ call' = [call EXCEPT ![c] = OpenCall] /\ cl' = [cl EXCEPT ![c].pc = "opening"]
      /\ wrk = "none" /\ wrk' = "none" /\ conn.res = "none" /\ \A d \in Clients : cl[d].pc = "idle"
      /\ UNCHANGED <<conn, closes, stmts, db, faults, reg, inbox, cur, depth, level, ruOn,
                     told, kept, undone, fresh, sent, unrestored>>
  BY DEF Connect, adapterVars, ghostVars, inputVars
<1>2. call[c].pc = "idle" /\ \A d \in Clients : Opening(d) => d = c
  BY <1>1 DEF BaseInv, WhoInv, Opening
<1>3. reg' \in BOOLEAN
  BY <1>1 DEF BaseInv, TypeInv, WorkerType
<1>4. "opening" \in ClientPcs
  BY DEF ClientPcs
<1> QED  BY <1>1, <1>2, <1>3, <1>4, CallTypes, OpenerStep

\* What Opened, Ready and Abandoned know.
LEMMA Opener ==
  ASSUME BaseInv, NEW c \in Clients, Opening(c)
  PROVE  /\ wrk = "none"
         /\ \A d \in Clients : Opening(d) => d = c
         /\ reg \in BOOLEAN
         /\ {"idle", "pragmas", "abandon"} \subseteq ClientPcs
BY DEF BaseInv, WhoInv, TypeInv, WorkerType, ClientPcs

LEMMA KeepsOpened ==
  ASSUME BaseInv, NEW c \in Clients, Opened(c)
  PROVE  BaseInv'
<1>1. /\ cl[c].pc = "opening" /\ call[c].pc = "ret"
      /\ UNCHANGED <<conn, closes, stmts, db, faults, reg, wrk, inbox, cur, depth, level, ruOn,
                     told, kept, undone, fresh, sent, unrestored>>
  BY DEF Opened, adapterVars, ghostVars, inputVars
<1>2. wrk = "none" /\ (\A d \in Clients : Opening(d) => d = c) /\ reg \in BOOLEAN
      /\ {"idle", "pragmas"} \subseteq ClientPcs
  BY <1>1, Opener DEF Opening
<1>3. CASE call[c].ret = "ok"
  <2>1. conn.res = "live"
    BY <1>1, <1>3 DEF BaseInv, OpenInv
  <2>2. /\ cl' = [cl EXCEPT ![c].pc = "pragmas"]
        /\ call' = [call EXCEPT ![c] = Exec(Sql("pragma", None))]
    BY <1>3 DEF Opened
  <2>3. Exec(Sql("pragma", None)) \in Calls
    BY CallTypes, SqlTypes DEF Kinds
  <2> QED  BY <1>1, <1>2, <2>1, <2>2, <2>3, CallTypes, OpenerStep
<1>4. CASE call[c].ret # "ok"
  <2>1. cl' = [cl EXCEPT ![c].pc = "idle"] /\ call' = [call EXCEPT ![c] = Idle]
    BY <1>4 DEF Opened
  <2> QED  BY <1>1, <1>2, <2>1, CallTypes, OpenerStep
<1> QED  BY <1>3, <1>4

LEMMA KeepsReady ==
  ASSUME BaseInv, NEW c \in Clients, Ready(c)
  PROVE  BaseInv'
<1>1. /\ cl[c].pc = "pragmas" /\ call[c].pc = "ret"
      /\ UNCHANGED <<conn, closes, stmts, db, faults, inbox, cur, depth, level, ruOn,
                     told, kept, undone, fresh, sent, unrestored>>
  BY DEF Ready, ghostVars, inputVars
<1>2. wrk = "none" /\ (\A d \in Clients : Opening(d) => d = c) /\ reg \in BOOLEAN
      /\ {"idle", "abandon"} \subseteq ClientPcs
  BY <1>1, Opener DEF Opening
<1>3. conn.res = "live"
  BY <1>1 DEF BaseInv, OpenInv
<1>4. CASE call[c].ret = "ok"
  <2>1. /\ cl' = [cl EXCEPT ![c].pc = "idle"] /\ call' = [call EXCEPT ![c] = Idle]
        /\ wrk' = "run" /\ reg' = TRUE
    BY <1>4 DEF Ready
  <2> QED  BY <1>1, <1>2, <1>3, <2>1, CallTypes, OpenerStep
<1>5. CASE call[c].ret # "ok"
  <2>1. /\ cl' = [cl EXCEPT ![c].pc = "abandon"] /\ call' = [call EXCEPT ![c] = CloseCall]
        /\ wrk' = wrk /\ reg' = reg
    BY <1>5 DEF Ready
  <2> QED  BY <1>1, <1>2, <2>1, CallTypes, OpenerStep
<1> QED  BY <1>4, <1>5

LEMMA KeepsAbandoned ==
  ASSUME BaseInv, NEW c \in Clients, Abandoned(c)
  PROVE  BaseInv'
<1>1. /\ cl[c].pc = "abandon" /\ call[c].pc = "ret"
      /\ cl' = [cl EXCEPT ![c].pc = "idle"] /\ call' = [call EXCEPT ![c] = Idle]
      /\ UNCHANGED <<conn, closes, stmts, db, faults, reg, wrk, inbox, cur, depth, level, ruOn,
                     told, kept, undone, fresh, sent, unrestored>>
  BY DEF Abandoned, adapterVars, ghostVars, inputVars
<1>2. wrk = "none" /\ (\A d \in Clients : Opening(d) => d = c) /\ reg \in BOOLEAN
      /\ {"idle"} \subseteq ClientPcs
  BY <1>1, Opener DEF Opening
<1> QED  BY <1>1, <1>2, CallTypes, OpenerStep

-----------------------------------------------------------------------------
(* The clients' side of a verb. *)

\* What a client has open, each frame marked as sound only if it still is.
Marked(c, inStep) ==
  [i \in DOMAIN cl[c].frames |-> [cl[c].frames[i] EXCEPT !.sound = @ /\ inStep]]

LEMMA MarkedType ==
  ASSUME ClientType, NEW c \in Clients, NEW inStep \in BOOLEAN
  PROVE  /\ cl[c].frames \in Seq(FrameSet)
         /\ Marked(c, inStep) \in Seq(FrameSet)
         /\ Len(Marked(c, inStep)) = Len(cl[c].frames)
         /\ DOMAIN Marked(c, inStep) = 1..Len(cl[c].frames)
         /\ \A i \in 1..Len(cl[c].frames) :
              /\ cl[c].frames[i] \in FrameSet
              /\ Marked(c, inStep)[i].ws = cl[c].frames[i].ws
              /\ Marked(c, inStep)[i].sound = (cl[c].frames[i].sound /\ inStep)
<1> DEFINE fs == cl[c].frames
<1>1. fs \in Seq(FrameSet)
  BY DEF ClientType
<1>2. DOMAIN fs = 1..Len(fs) /\ Len(fs) \in Nat
  BY <1>1
<1>3. \A i \in 1..Len(fs) : fs[i] \in FrameSet
  BY <1>1
<1>4. \A i \in 1..Len(fs) :
        /\ [fs[i] EXCEPT !.sound = @ /\ inStep] \in FrameSet
        /\ [fs[i] EXCEPT !.sound = @ /\ inStep].ws = fs[i].ws
        /\ [fs[i] EXCEPT !.sound = @ /\ inStep].sound = (fs[i].sound /\ inStep)
  BY <1>3 DEF FrameSet
<1>5. Marked(c, inStep) = [i \in 1..Len(fs) |-> [fs[i] EXCEPT !.sound = @ /\ inStep]]
  BY <1>2 DEF Marked
<1>6. \A i \in 1..Len(fs) :
        /\ Marked(c, inStep)[i].ws = fs[i].ws
        /\ Marked(c, inStep)[i].sound = (fs[i].sound /\ inStep)
  BY <1>4, <1>5
<1>7. Marked(c, inStep) \in [1..Len(fs) -> FrameSet]
  <2> HIDE DEF fs
  <2> QED  BY <1>4, <1>5
<1>8. Marked(c, inStep) \in Seq(FrameSet) /\ Len(Marked(c, inStep)) = Len(fs)
  <2> HIDE DEF fs
  <2> QED  BY <1>2, <1>7
<1>9. DOMAIN Marked(c, inStep) = 1..Len(fs)
  BY <1>5
<1> HIDE DEF fs
<1> QED  BY <1>1, <1>3, <1>6, <1>8, <1>9 DEF fs

LEMMA FrontType ==
  ASSUME NEW S, NEW s \in Seq(S), Len(s) > 0
  PROVE  /\ Front(s) \in Seq(S) /\ Len(Front(s)) = Len(s) - 1
         /\ \A i \in 1..Len(s) - 1 : Front(s)[i] = s[i]
         /\ Last(s) = s[Len(s)] /\ Last(s) \in S
<1>1. Front(s) = SubSeq(s, 1, Len(s) - 1) /\ Len(s) \in Nat /\ Len(s) - 1 \in Nat
  BY DEF Front
<1>2. SubSeq(s, 1, Len(s) - 1) \in Seq(S)
  BY <1>1
<1>3. /\ Len(SubSeq(s, 1, Len(s) - 1)) = Len(s) - 1
      /\ \A i \in 1..Len(s) - 1 : SubSeq(s, 1, Len(s) - 1)[i] = s[i]
  <2> DEFINE k == Len(s) - 1
  <2>1. k \in Nat /\ \A i \in 1..k : s[i] \in S
    BY <1>1
  <2> HIDE DEF k
  <2>2. /\ Len(SubSeq(s, 1, k)) = IF 1 <= k THEN k - 1 + 1 ELSE 0
        /\ \A i \in 1..k - 1 + 1 : SubSeq(s, 1, k)[i] = s[1 + i - 1]
    BY <2>1, SubSeqProperties, 1 \in Int, k \in Int
  <2>3. Len(SubSeq(s, 1, k)) = k /\ \A i \in 1..k : SubSeq(s, 1, k)[i] = s[i]
    BY <2>1, <2>2
  <2> QED  BY <2>3 DEF k
<1>4. Last(s) = s[Len(s)] /\ s[Len(s)] \in S
  BY DEF Last
<1> QED  BY <1>1, <1>2, <1>3, <1>4

\* The four ways Frames goes.
LEMMA FramesCases ==
  ASSUME NEW c, NEW verb, NEW arg, NEW ok, NEW inStep
  PROVE  LET fs == Marked(c, inStep)
             n  == Len(fs)
             out == Frames(c, verb, arg, ok, inStep)
         IN \/ verb = "begin" /\ ok /\ out = Append(fs, [ws |-> {}, sound |-> inStep])
            \/ /\ verb = "insert" /\ ok /\ n > 0
               /\ out = [fs EXCEPT ![n].ws = @ \union {arg}]
            \/ /\ verb = "commit" /\ ok /\ n > 1
               /\ out = Front([fs EXCEPT ![n - 1].ws = @ \union fs[n].ws])
            \/ /\ verb = "commit" /\ ~(ok /\ n > 1) /\ n > 0 /\ out = Front(fs)
            \/ /\ verb = "rollback" /\ n > 0 /\ out = Front(fs)
            \/ /\ out = fs
               /\ ~(verb = "begin" /\ ok) /\ ~(verb = "insert" /\ ok /\ n > 0)
               /\ ~(verb \in {"commit", "rollback"} /\ n > 0)
BY DEF Frames, Marked

LEMMA FramesType ==
  ASSUME ClientType, NEW c \in Clients, NEW verb, NEW arg, NEW ok, NEW inStep \in BOOLEAN,
         verb = "insert" /\ ok => arg \in Writes
  PROVE  Frames(c, verb, arg, ok, inStep) \in Seq(FrameSet)
<1> DEFINE fs == Marked(c, inStep)
           n  == Len(fs)
           out == Frames(c, verb, arg, ok, inStep)
<1>1. fs \in Seq(FrameSet)
  BY MarkedType
<1> HIDE DEF fs
<1>2. n \in Nat /\ \A i \in 1..n : fs[i] \in FrameSet
  BY <1>1
<1>3. CASE out = Append(fs, [ws |-> {}, sound |-> inStep])
  <2>1. [ws |-> {}, sound |-> inStep] \in FrameSet
    BY DEF FrameSet
  <2> QED  BY <1>1, <1>3, <2>1
<1>4. CASE /\ verb = "insert" /\ ok /\ n > 0
           /\ out = [fs EXCEPT ![n].ws = @ \union {arg}]
  <2>1. fs[n] \in FrameSet
    BY <1>2, <1>4
  <2>2. [fs[n] EXCEPT !.ws = @ \union {arg}] \in FrameSet
    BY <1>4, <2>1 DEF FrameSet
  <2>3. [fs EXCEPT ![n] = [fs[n] EXCEPT !.ws = @ \union {arg}]] \in Seq(FrameSet)
    BY <1>1, <1>2, <1>4, <2>2
  <2> QED  BY <1>4, <2>3
<1>5. CASE /\ n > 1
           /\ out = Front([fs EXCEPT ![n - 1].ws = @ \union fs[n].ws])
  <2>1. fs[n] \in FrameSet /\ fs[n - 1] \in FrameSet
    BY <1>2, <1>5
  <2>2. [fs[n - 1] EXCEPT !.ws = @ \union fs[n].ws] \in FrameSet
    BY <2>1 DEF FrameSet
  <2> DEFINE gs == [fs EXCEPT ![n - 1] = [fs[n - 1] EXCEPT !.ws = @ \union fs[n].ws]]
  <2>3. gs \in Seq(FrameSet) /\ Len(gs) = n
    BY <1>1, <1>2, <1>5, <2>2
  <2>4. out = Front(gs)
    BY <1>5
  <2> HIDE DEF gs
  <2> QED  BY <1>5, <2>3, <2>4, FrontType
<1>6. CASE n > 0 /\ out = Front(fs)
  BY <1>1, <1>6, FrontType
<1>7. CASE out = fs
  BY <1>1, <1>7
<1> QED  BY <1>3, <1>4, <1>5, <1>6, <1>7, FramesCases DEF fs

\* What the worker serves is the same request, whoever waits for it.
SameRequest ==
  /\ cur' \in [req : Reqs \union {None}, stage : Stages]
  /\ cur'.stage = cur.stage
  /\ cur.stage # "rest" =>
       /\ cur'.req \in Reqs
       /\ cur'.req.verb = cur.req.verb /\ cur'.req.arg = cur.req.arg /\ cur'.req.val = cur.req.val

\* A client that opens nothing makes no native call.
LEMMA Bystander ==
  ASSUME BaseInv, NEW c \in Clients, ~Opening(c), ~Opening(c)',
         ClientType', \A d \in Clients : d # c => cl'[d] = cl[d],
         inbox' \in Seq(Reqs), SameRequest, reg' \in BOOLEAN, faults' \in 0..MaxFaults,
         UNCHANGED <<conn, closes, stmts, call, db, wrk, depth, level, ruOn>>
  PROVE  BaseInv'
<1> USE DEF Opening
<1>1. TypeInv /\ HandleInv /\ WhoInv /\ OpenInv /\ CallInv /\ TxInv /\ StageInv /\ SqlInv
  BY DEF BaseInv
<1>2. NifType'
  BY <1>1 DEF TypeInv, NifType
<1>3. WorkerType'
  BY <1>1 DEF TypeInv, WorkerType, SameRequest
<1>4. HandleInv'
  BY <1>1 DEF HandleInv
<1>5. WhoInv'
  BY <1>1 DEF WhoInv, SameRequest
<1>6. OpenInv'
  BY <1>1 DEF OpenInv
<1>7. CallInv'
  BY <1>1 DEF CallInv
<1>8. TxInv'
  BY <1>1 DEF TxInv
<1>9. StageInv'
  BY <1>1 DEF StageInv, SameRequest, LevelOf
<1>10. SqlInv'
  BY <1>1 DEF SqlInv, SameRequest
<1> QED  BY <1>2, <1>3, <1>4, <1>5, <1>6, <1>7, <1>8, <1>9, <1>10 DEF BaseInv, TypeInv

LEMMA SameRequestKept ==
  ASSUME BaseInv, cur' = cur
  PROVE  SameRequest
BY DEF BaseInv, TypeInv, WorkerType, SameRequest

LEMMA OrphanType ==
  ASSUME NEW c \in Clients, NEW r \in Reqs
  PROVE  /\ Orphan(c, r) \in Reqs
         /\ Orphan(c, r).verb = r.verb /\ Orphan(c, r).arg = r.arg /\ Orphan(c, r).val = r.val
         /\ Orphan(c, r).from = IF r.from = c THEN None ELSE r.from
<1>1. CASE r.from # c
  BY <1>1 DEF Orphan
<1>2. CASE r.from = c
  BY <1>2 DEF Orphan, Reqs
<1> QED  BY <1>1, <1>2

LEMMA GaveUpType ==
  ASSUME BaseInv, NEW c \in Clients, GaveUp(c)
  PROVE  inbox' \in Seq(Reqs) /\ SameRequest
<1>1. inbox \in Seq(Reqs) /\ cur \in [req : Reqs \union {None}, stage : Stages]
      /\ (cur.stage # "rest" => cur.req \in Reqs)
  BY DEF BaseInv, TypeInv, WorkerType
<1>2. inbox' \in Seq(Reqs)
  <2>1. inbox' = [i \in 1..Len(inbox) |-> Orphan(c, inbox[i])] /\ Len(inbox) \in Nat
    BY <1>1 DEF GaveUp
  <2>2. \A i \in 1..Len(inbox) : Orphan(c, inbox[i]) \in Reqs
    BY <1>1, OrphanType
  <2>3. inbox' \in [1..Len(inbox) -> Reqs]
    BY <2>1, <2>2
  <2> QED  BY <2>1, <2>3, SeqDef
<1>3. cur' = IF cur.stage = "rest" THEN cur ELSE [req |-> Orphan(c, cur.req), stage |-> cur.stage]
  BY <1>1 DEF GaveUp
<1>4. cur.stage # "rest" => Orphan(c, cur.req) \in Reqs
  BY <1>1, OrphanType
<1> QED  BY <1>1, <1>2, <1>3, <1>4, OrphanType DEF SameRequest

LEMMA KeepsSend ==
  ASSUME BaseInv, NEW c \in Clients, NEW verb \in Waiting, NEW arg, NEW val,
         [from |-> c, verb |-> verb, arg |-> arg, val |-> val] \in Reqs,
         Send(c, verb, arg, val), fresh' \in SUBSET Writes
  PROVE  BaseInv'
<1>1. /\ cl[c].pc = "idle" /\ cl' = [cl EXCEPT ![c].pc = verb]
      /\ UNCHANGED <<conn, closes, stmts, call, db, faults, reg, wrk, cur, depth, level, ruOn,
                     told, kept, undone, unrestored>>
  BY DEF Send, nifVars, ghostVars
<1>2. inbox' \in Seq(Reqs)
  BY DEF Send, Request, BaseInv, TypeInv, WorkerType
<1>3. verb \in ClientPcs /\ verb \notin OpeningPcs
  BY DEF ClientPcs, Waiting
<1>4. /\ cl' \in [Clients -> [pc : ClientPcs, frames : Seq(FrameSet)]]
      /\ cl'[c].pc = verb
  <2>1. ClientType
    BY DEF BaseInv, TypeInv
  <2>2. verb \in ClientPcs
    BY <1>3
  <2>3. cl' = [cl EXCEPT ![c].pc = verb]
    BY <1>1
  <2>4. /\ cl' \in [Clients -> [pc : ClientPcs, frames : Seq(FrameSet)]]
        /\ \A d \in Clients : cl'[d].pc = IF d = c THEN verb ELSE cl[d].pc
    BY <2>1, <2>2, <2>3, PcType
  <2> QED  BY <2>4
<1>5. \A d \in Clients : d # c => cl'[d] = cl[d]
  BY <1>1 DEF BaseInv, TypeInv, ClientType
<1>6. ClientType'
  BY <1>1, <1>4 DEF BaseInv, TypeInv, ClientType
<1>7. reg' \in BOOLEAN /\ faults' \in 0..MaxFaults
  BY <1>1 DEF BaseInv, TypeInv, WorkerType, NifType
<1> QED
  BY <1>1, <1>2, <1>3, <1>4, <1>5, <1>6, <1>7, SameRequestKept, Bystander DEF Opening

LEMMA KeepsVerb ==
  ASSUME BaseInv, NEW c \in Clients,
         \/ \E w \in Writes, v \in Values : Insert(c, w, v)
         \/ Read(c) \/ Begin(c) \/ End(c) \/ CloseHandle(c)
  PROVE  BaseInv'
<1>0. fresh \in SUBSET Writes
  BY DEF BaseInv, TypeInv, ClientType
<1>1. ASSUME NEW w \in Writes, NEW v \in Values, Insert(c, w, v)
      PROVE  BaseInv'
  <2>1. [from |-> c, verb |-> "insert", arg |-> w, val |-> v] \in Reqs
    BY DEF Reqs, Waiting
  <2> QED  BY <1>0, <1>1, <2>1, KeepsSend DEF Insert, Waiting
<1>2. CASE Read(c) \/ End(c) \/ CloseHandle(c)
  <2>1. PICK verb \in {"query", "migrations", "commit", "rollback", "close"} :
          Send(c, verb, None, None) /\ fresh' = fresh
    BY <1>2 DEF Read, End, CloseHandle
  <2>2. [from |-> c, verb |-> verb, arg |-> None, val |-> None] \in Reqs
    BY DEF Reqs, Waiting
  <2> QED  BY <1>0, <2>1, <2>2, KeepsSend DEF Waiting
<1>3. CASE Begin(c)
  <2>1. PICK l \in Explicit \union {None} : Send(c, "begin", l, None) /\ fresh' = fresh
    BY <1>3 DEF Begin
  <2>2. [from |-> c, verb |-> "begin", arg |-> l, val |-> None] \in Reqs
    BY ConnAssumption DEF Reqs, Waiting, Levels
  <2> QED  BY <1>0, <2>1, <2>2, KeepsSend DEF Waiting
<1> QED  BY <1>1, <1>2, <1>3

\* What a client does with an answer.
LEMMA AnsweredType ==
  ASSUME ClientType, depth \in Nat, NEW c \in Clients, NEW verb, NEW arg, NEW ok,
         verb = "insert" /\ ok => arg \in Writes, Answered(c, verb, arg, ok),
         fresh' \in SUBSET Writes, unrestored' \in BOOLEAN
  PROVE  /\ ClientType'
         /\ cl'[c].pc = IF verb = "close" THEN "unregister" ELSE "idle"
         /\ \A d \in Clients : d # c => cl'[d] = cl[d]
<1> DEFINE fs == cl[c].frames
           inStep == depth = Len(fs) /\ ~torn
           out == Frames(c, verb, arg, ok, inStep)
           pc == IF verb = "close" THEN "unregister" ELSE "idle"
           done == CASE verb = "insert" /\ ok /\ fs = <<>> -> {arg}
                     [] verb = "commit" /\ ok /\ Len(fs) = 1 -> fs[1].ws
                     [] OTHER -> {}
<1>1. cl \in [Clients -> [pc : ClientPcs, frames : Seq(FrameSet)]] /\ fs \in Seq(FrameSet)
  BY DEF ClientType
<1>2. out \in Seq(FrameSet)
  <2>1. inStep \in BOOLEAN
    OBVIOUS
  <2> HIDE DEF inStep
  <2> QED  BY <2>1, FramesType
<1>3. pc \in ClientPcs
  BY DEF ClientPcs
<1>4. cl' = [cl EXCEPT ![c] = [pc |-> pc, frames |-> out]]
  BY DEF Answered
<1>5. done \in SUBSET Writes
  <2>1. CASE verb = "insert" /\ ok /\ fs = <<>>
    BY <2>1
  <2>2. CASE verb = "commit" /\ ok /\ Len(fs) = 1
    <3>1. fs[1] \in FrameSet
      BY <1>1, <2>2, ElementOfSeq
    <3> QED  BY <2>2, <3>1 DEF FrameSet
  <2>3. CASE ~(verb = "insert" /\ ok /\ fs = <<>>) /\ ~(verb = "commit" /\ ok /\ Len(fs) = 1)
    BY <2>3
  <2> QED  BY <2>1, <2>2, <2>3
<1>6. /\ told' = told \union done
      /\ kept' \in {kept, kept \union done}
      /\ \/ undone' = undone
         \/ fs # <<>> /\ undone' = undone \union Last(fs).ws
  BY DEF Answered
<1>7. fs # <<>> => Last(fs).ws \in SUBSET Writes
  <2>1. fs # <<>> => Len(fs) > 0
    BY <1>1, EmptySeq
  <2>2. fs # <<>> => Last(fs) \in FrameSet
    <3> HIDE DEF fs
    <3> QED  BY <1>1, <2>1, FrontType
  <2> QED  BY <2>2 DEF FrameSet
<1> HIDE DEF fs, out, pc, done
<1>8. cl' \in [Clients -> [pc : ClientPcs, frames : Seq(FrameSet)]] /\ cl'[c].pc = pc
      /\ \A d \in Clients : d # c => cl'[d] = cl[d]
  BY <1>1, <1>2, <1>3, <1>4
<1>9. told' \in SUBSET Writes /\ kept' \in SUBSET Writes /\ undone' \in SUBSET Writes
  BY <1>5, <1>6, <1>7 DEF ClientType
<1> QED  BY <1>8, <1>9 DEF ClientType, pc

LEMMA KeepsGivenUp ==
  ASSUME BaseInv, NEW c \in Clients,
         \/ \E verb \in {"commit", "rollback"} : NotFound(c, verb)
         \/ Down(c) \/ Timeout(c)
  PROVE  BaseInv'
<1>0. /\ ClientType /\ depth \in Nat /\ inbox \in Seq(Reqs) /\ reg \in BOOLEAN
      /\ faults \in 0..MaxFaults
  BY DEF BaseInv, TypeInv, WorkerType, NifType
<1>1. PICK verb : /\ Answered(c, verb, None, FALSE)
                  /\ ~Opening(c)
                  /\ UNCHANGED <<conn, closes, stmts, call, db, reg, wrk, depth, level, ruOn,
                                 fresh, sent, unrestored>>
                  /\ \/ UNCHANGED <<inbox, cur, faults>>
                     \/ GaveUp(c) /\ Fails
  BY DEF NotFound, Down, Timeout, Waiting, Opening, nifVars, adapterVars, inputVars
<1>2. /\ ClientType' /\ ~Opening(c)'
      /\ \A d \in Clients : d # c => cl'[d] = cl[d]
  <2>1. fresh' \in SUBSET Writes /\ unrestored' \in BOOLEAN
    BY <1>0, <1>1 DEF ClientType
  <2> QED  BY <1>0, <1>1, <2>1, AnsweredType DEF Opening
<1>3. inbox' \in Seq(Reqs) /\ SameRequest
  BY <1>0, <1>1, GaveUpType, SameRequestKept
<1>4. faults' \in 0..MaxFaults
  BY <1>0, <1>1, TypeFaults DEF BaseInv, TypeInv
<1> QED  BY <1>0, <1>1, <1>2, <1>3, <1>4, Bystander

LEMMA KeepsUnregister ==
  ASSUME BaseInv, NEW c \in Clients, Unregister(c)
  PROVE  BaseInv'
<1>0. ClientType /\ inbox \in Seq(Reqs) /\ faults \in 0..MaxFaults
  BY DEF BaseInv, TypeInv, WorkerType, NifType
<1>1. /\ cl[c].pc = "unregister" /\ cl' = [cl EXCEPT ![c].pc = "idle"] /\ reg' = FALSE
      /\ UNCHANGED <<conn, closes, stmts, call, db, faults, wrk, inbox, cur, depth, level, ruOn,
                     told, kept, undone, fresh, sent, unrestored>>
  BY DEF Unregister, nifVars, ghostVars, inputVars
<1>2. "idle" \in ClientPcs
  BY DEF ClientPcs
<1>3. cl' \in [Clients -> [pc : ClientPcs, frames : Seq(FrameSet)]] /\ cl'[c].pc = "idle"
  <2>1. /\ cl' \in [Clients -> [pc : ClientPcs, frames : Seq(FrameSet)]]
        /\ \A d \in Clients : cl'[d].pc = IF d = c THEN "idle" ELSE cl[d].pc
    BY <1>0, <1>1, <1>2, PcType
  <2> QED  BY <2>1
<1>4. \A d \in Clients : d # c => cl'[d] = cl[d]
  BY <1>0, <1>1 DEF ClientType
<1>5. ClientType'
  BY <1>0, <1>1, <1>3 DEF ClientType
<1> QED  BY <1>0, <1>1, <1>3, <1>4, <1>5, SameRequestKept, Bystander DEF Opening

LEMMA KeepsDie ==
  ASSUME BaseInv, NEW c \in Clients, Die(c)
  PROVE  BaseInv'
<1>0. ClientType /\ reg \in BOOLEAN /\ NifType
  BY DEF BaseInv, TypeInv, WorkerType
<1>1. /\ cl[c].pc \in Waiting \union {"idle", "unregister"}
      /\ cl' = [cl EXCEPT ![c] = [pc |-> "dead", frames |-> <<>>]] /\ GaveUp(c) /\ Fails
      /\ UNCHANGED <<conn, closes, stmts, call, db, reg, wrk, depth, level, ruOn,
                     told, kept, undone, fresh, sent, unrestored>>
  BY DEF Die, ghostVars
<1>2. [pc |-> "dead", frames |-> <<>>] \in [pc : ClientPcs, frames : Seq(FrameSet)]
  <2>1. <<>> \in Seq(FrameSet) /\ "dead" \in ClientPcs
    BY DEF ClientPcs
  <2> QED  BY <2>1
<1>3. /\ cl' \in [Clients -> [pc : ClientPcs, frames : Seq(FrameSet)]] /\ cl'[c].pc = "dead"
      /\ \A d \in Clients : d # c => cl'[d] = cl[d]
  BY <1>0, <1>1, <1>2 DEF ClientType
<1>4. ClientType'
  BY <1>0, <1>1, <1>3 DEF ClientType
<1>5. ~Opening(c) /\ ~Opening(c)'
  BY <1>1, <1>3 DEF Opening, Waiting
<1>6. inbox' \in Seq(Reqs) /\ SameRequest /\ faults' \in 0..MaxFaults
  BY <1>0, <1>1, GaveUpType, TypeFaults
<1> QED  BY <1>0, <1>1, <1>3, <1>4, <1>5, <1>6, Bystander

-----------------------------------------------------------------------------
(* The worker. *)

\* Between two native calls it starts the next one, n, or rests, and answers at most
\* one client.
LEMMA WorkerStepBase ==
  ASSUME BaseInv, wrk = "run", call[Worker].pc \in {"idle", "ret"},
         NEW n \in Calls, n.nrows = 0, n.cap = 0, n.pc \in {"idle", "enter", "close"},
         call' = [call EXCEPT ![Worker] = n],
         cur' \in [req : Reqs \union {None}, stage : Stages],
         cur'.stage = "rest" <=> n.pc = "idle", cur'.stage # "rest" => cur'.req \in Reqs,
         wrk' \in {"run", "dead"}, wrk' = "dead" => n.pc = "idle",
         ClientType', \A d \in Clients : cl'[d].pc \in {cl[d].pc, "idle", "unregister"},
         inbox' \in Seq(Reqs),
         depth' \in Nat, level' \in Levels \union {None}, ruOn' \in BOOLEAN,
         TxInv', StageInv', SqlInv',
         UNCHANGED <<conn, closes, stmts, db, faults, reg>>
  PROVE  BaseInv'
<1> USE ConnAssumption DEF Opening
<1>1. TypeInv /\ HandleInv /\ WhoInv /\ OpenInv /\ CallInv
  BY DEF BaseInv
<1>2. /\ call' \in [Procs -> Calls]
      /\ \A p \in Procs : call'[p] = IF p = Worker THEN n ELSE call[p]
  BY <1>1, CallType DEF TypeInv
<1>3. NifType' /\ WorkerType'
  BY <1>1, <1>2 DEF TypeInv, NifType, WorkerType
<1>4. HandleInv'
  BY <1>1 DEF HandleInv
<1>5. WhoInv'
  BY <1>1, <1>2 DEF WhoInv
<1>6. OpenInv'
  BY <1>1, <1>2 DEF WhoInv, OpenInv
<1>7. CallInv'
  BY <1>1, <1>2 DEF CallInv
<1> QED  BY <1>3, <1>4, <1>5, <1>6, <1>7 DEF BaseInv, TypeInv

LEMMA ReplyStep ==
  ASSUME BaseInv, wrk = "run", call[Worker].pc \in {"idle", "ret"},
         NEW r \in Reqs, NEW ok, Reply(r, ok),
         wrk' \in {"run", "dead"}, inbox' \in Seq(Reqs),
         depth' \in Nat, level' \in Levels \union {None}, ruOn' \in BOOLEAN, TxInv',
         UNCHANGED <<conn, closes, stmts, db, faults, reg, fresh>>, unrestored' \in BOOLEAN
  PROVE  BaseInv'
<1>1. cur' = Rests /\ call' = [call EXCEPT ![Worker] = Idle]
  BY DEF Reply
<1>2. /\ Rests.stage = "rest" /\ Rests \in [req : Reqs \union {None}, stage : Stages]
      /\ Idle \in Calls /\ Idle.pc = "idle" /\ Idle.nrows = 0 /\ Idle.cap = 0
  BY CallTypes DEF Rests, Stages
<1>3. ClientType /\ depth \in Nat /\ fresh' \in SUBSET Writes /\ call \in [Procs -> Calls]
  BY DEF BaseInv, TypeInv, WorkerType, ClientType, NifType
<1>4. ClientType' /\ \A d \in Clients : cl'[d].pc \in {cl[d].pc, "idle", "unregister"}
  <2>1. CASE r.from = None
    BY <1>3, <2>1 DEF Reply, ghostVars, ClientType
  <2>2. CASE r.from # None
    <3>1. Answered(r.from, r.verb, r.arg, ok) /\ r.from \in Clients
          /\ (r.verb = "insert" => r.arg \in Writes)
      BY <2>2 DEF Reply, Reqs
    <3> QED  BY <1>3, <3>1, AnsweredType
  <2> QED  BY <2>1, <2>2
<1>5. call'[Worker] = Idle
  BY <1>1, <1>3, ConnAssumption
<1>6. StageInv' /\ SqlInv'
  BY <1>1, <1>2, <1>5 DEF StageInv, SqlInv
<1> QED  BY <1>1, <1>2, <1>4, <1>6, WorkerStepBase

LEMMA RunsStep ==
  ASSUME BaseInv, wrk = "run", call[Worker].pc \in {"idle", "ret"},
         NEW stage \in Stages \ {"rest"}, NEW r \in Reqs, NEW n \in Calls,
         n.nrows = 0, n.cap = 0, n.pc \in {"enter", "close"}, Runs(stage, r, n),
         call'[Worker] = n => StageInv' /\ SqlInv', inbox' \in Seq(Reqs),
         UNCHANGED <<wrk, depth, level, ruOn>>,
         UNCHANGED <<conn, closes, stmts, db, faults, reg, fresh>>, unrestored' \in BOOLEAN
  PROVE  BaseInv'
<1>1. /\ cur' = [req |-> r, stage |-> stage] /\ call' = [call EXCEPT ![Worker] = n]
      /\ UNCHANGED <<cl, told, kept, undone>>
  BY DEF Runs, ghostVars
<1>2. /\ cur' \in [req : Reqs \union {None}, stage : Stages]
      /\ cur'.stage = stage /\ cur'.req = r
  BY <1>1
<1>3. ClientType /\ call \in [Procs -> Calls] /\ TxInv /\ depth \in Nat
      /\ level \in Levels \union {None} /\ ruOn \in BOOLEAN
  BY DEF BaseInv, TypeInv, WorkerType, NifType
<1>4. ClientType' /\ TxInv'
  BY <1>1, <1>3 DEF ClientType, TxInv
<1>5. StageInv' /\ SqlInv'
  BY <1>1, <1>3, ConnAssumption
<1> QED  BY <1>1, <1>2, <1>3, <1>4, <1>5, WorkerStepBase

\* A statement or a close that the worker starts for r.
LEMMA Starts ==
  ASSUME BaseInv, wrk = "run", call[Worker].pc \in {"idle", "ret"}, NEW r \in Reqs,
         \/ depth = 0 /\ r.verb = "begin" /\ LevelOf(r) = "ru" /\ Runs("relax", r, Exec(Sql("relax", None)))
         \/ depth = 0 /\ r.verb = "begin" /\ Runs("begin", r, Exec(Sql("begin", None)))
         \/ depth > 0 /\ r.verb = "begin" /\ Runs("nest", r, Exec(Sql("savepoint", depth)))
         \/ depth = 1 /\ r.verb \in {"commit", "rollback"} /\ Runs("end", r, Exec(Sql(r.verb, None)))
         \/ depth > 1 /\ r.verb \in {"commit", "rollback"} /\ Runs("unnest", r,
              Exec(Sql(IF r.verb = "commit" THEN "release" ELSE "rollback_to", depth - 1)))
         \/ depth = 0 /\ r.verb = "begin" /\ LevelOf(r) = "ru" /\ Runs("undo", r, Exec(Sql("restore", None)))
         \/ depth = 1 /\ r.verb \in {"commit", "rollback"} /\ ruOn
            /\ Runs("restore", r, Exec(Sql("restore", None)))
         \/ r.verb = "insert"
            /\ Runs("run", r, Exec([kind |-> "insert", arg |-> r.arg, cell |-> ToCell(r.val)]))
         \/ r.verb \in {"query", "migrations"} /\ Runs("run", r, Query)
         \/ r.verb = "migrations" /\ Runs("create", r, Exec(Sql("create", None)))
         \/ r.verb = "close" /\ Runs("close", r, CloseCall),
         inbox' \in Seq(Reqs), UNCHANGED <<wrk, depth, level, ruOn>>,
         UNCHANGED <<conn, closes, stmts, db, faults, reg, fresh>>, unrestored' \in BOOLEAN
  PROVE  BaseInv'
<1>1. PICK stage, n :
        /\ Runs(stage, r, n)
        /\ \/ stage = "relax" /\ depth = 0 /\ r.verb = "begin" /\ LevelOf(r) = "ru" /\ n = Exec(Sql("relax", None))
           \/ stage = "begin" /\ depth = 0 /\ r.verb = "begin" /\ n = Exec(Sql("begin", None))
           \/ stage = "nest" /\ depth > 0 /\ r.verb = "begin" /\ n = Exec(Sql("savepoint", depth))
           \/ stage = "end" /\ depth = 1 /\ r.verb \in {"commit", "rollback"} /\ n = Exec(Sql(r.verb, None))
           \/ stage = "unnest" /\ depth > 1 /\ r.verb \in {"commit", "rollback"}
              /\ n = Exec(Sql(IF r.verb = "commit" THEN "release" ELSE "rollback_to", depth - 1))
           \/ stage = "undo" /\ depth = 0 /\ r.verb = "begin" /\ LevelOf(r) = "ru" /\ n = Exec(Sql("restore", None))
           \/ stage = "restore" /\ depth = 1 /\ r.verb \in {"commit", "rollback"} /\ ruOn
              /\ n = Exec(Sql("restore", None))
           \/ stage = "run" /\ r.verb = "insert"
              /\ n = Exec([kind |-> "insert", arg |-> r.arg, cell |-> ToCell(r.val)])
           \/ stage = "run" /\ r.verb \in {"query", "migrations"} /\ n = Exec(Sql("select", None))
           \/ stage = "create" /\ r.verb = "migrations" /\ n = Exec(Sql("create", None))
           \/ stage = "close" /\ r.verb = "close" /\ n = CloseCall
  BY Zenon, CallTypes
<1>2. depth \in Nat
  BY DEF BaseInv, TypeInv, WorkerType
<1>3. n = CloseCall \/ \E sql \in Sqls : n = Exec(sql)
  <2>1. r.verb = "insert" => r.arg \in Writes
    BY DEF Reqs
  <2>2. depth > 1 => depth - 1 \in Nat
    BY <1>2
  <2> QED  BY <1>1, <1>2, <2>1, <2>2, SqlTypes DEF Kinds
<1>4. n \in Calls /\ n.nrows = 0 /\ n.cap = 0 /\ n.pc \in {"enter", "close"}
  BY <1>3, CallTypes
<1>5. stage \in Stages \ {"rest"}
  BY <1>1 DEF Stages
<1>6. cur' = [req |-> r, stage |-> stage]
  BY <1>1 DEF Runs
<1>7. LevelOf(r)' = LevelOf(r)
  BY DEF LevelOf
<1>8. ASSUME call'[Worker] = n
      PROVE  StageInv' /\ SqlInv'
  <2>1. cur'.stage = stage /\ cur'.req = r
    BY <1>6
  <2>2. StageInv'
    BY <1>1, <2>1, <1>7 DEF StageInv, LevelOf
  <2>3. n.pc = "close" <=> stage = "close"
    BY <1>1, CallTypes
  <2>4. n.pc \in {"enter", "close"}
    BY <1>4
  <2>5. stage # "close" => \A sql : n = Exec(sql) => n.sql = sql
    BY CallTypes
  <2>6. SqlInv'
    BY <1>1, <1>8, <2>1, <2>3, <2>4, <2>5 DEF SqlInv
  <2> QED  BY <2>2, <2>6
<1> QED  BY <1>1, <1>4, <1>5, <1>8, RunsStep

LEMMA KeepsTake ==
  ASSUME BaseInv, Take
  PROVE  BaseInv'
<1> DEFINE r == Head(inbox)
<1>1. /\ wrk = "run" /\ cur = Rests /\ inbox # <<>> /\ inbox' = Tail(inbox)
      /\ UNCHANGED <<conn, closes, stmts, db, faults, reg, wrk, depth, level, ruOn,
                     fresh, sent, unrestored>>
      /\ \/ r.verb = "begin" /\ StartBegin(r)
         \/ r.verb \in {"commit", "rollback"} /\ StartEnd(r)
         \/ StartOther(r)
  BY DEF Take, inputVars
<1>2. inbox \in Seq(Reqs) /\ depth \in Nat /\ level \in Levels \union {None} /\ ruOn \in BOOLEAN
      /\ unrestored \in BOOLEAN /\ TxInv /\ call[Worker].pc = "idle"
  BY <1>1 DEF BaseInv, TypeInv, WorkerType, ClientType, WhoInv, Rests
<1>3. r \in Reqs /\ Tail(inbox) \in Seq(Reqs)
  BY <1>1, <1>2, HeadTailProperties
<1>4. TxInv'
  BY <1>1, <1>2 DEF TxInv
<1> HIDE DEF r
<1>5. CASE \E ok : Reply(r, ok)
  BY <1>1, <1>2, <1>3, <1>4, <1>5, ReplyStep
<1>6. CASE r.verb = "begin" /\ StartBegin(r)
  BY <1>1, <1>2, <1>3, <1>5, <1>6, Starts DEF StartBegin
<1>7. CASE r.verb \in {"commit", "rollback"} /\ StartEnd(r)
  BY <1>1, <1>2, <1>3, <1>5, <1>7, Starts DEF StartEnd
<1>8. CASE StartOther(r)
  BY <1>1, <1>2, <1>3, <1>8, Starts DEF StartOther
<1> QED  BY <1>1, <1>6, <1>7, <1>8

LEMMA KeepsCrash ==
  ASSUME BaseInv, Crash
  PROVE  BaseInv'
<1>1. /\ wrk = "run" /\ wrk' = "dead" /\ inbox' = <<>> /\ cur' = Rests
      /\ call' = [call EXCEPT ![Worker] = Idle]
      /\ cur = Rests \/ call[Worker].pc = "ret"
      /\ UNCHANGED <<conn, closes, stmts, db, faults, reg, depth, level, ruOn, cl,
                     told, kept, undone, fresh, sent, unrestored>>
  BY DEF Crash, WorkerEnds, ghostVars, inputVars
<1>2. /\ ClientType /\ call \in [Procs -> Calls] /\ depth \in Nat /\ level \in Levels \union {None}
      /\ ruOn \in BOOLEAN /\ TxInv /\ call[Worker].pc \in {"idle", "ret"}
  BY <1>1 DEF BaseInv, TypeInv, WorkerType, NifType, WhoInv, Rests
<1>3. /\ Rests.stage = "rest" /\ Rests \in [req : Reqs \union {None}, stage : Stages]
      /\ Idle \in Calls /\ Idle.pc = "idle" /\ Idle.nrows = 0 /\ Idle.cap = 0
      /\ <<>> \in Seq(Reqs)
  BY CallTypes DEF Rests, Stages
<1>4. ClientType' /\ TxInv'
  BY <1>1, <1>2 DEF ClientType, TxInv
<1>5. StageInv' /\ SqlInv'
  <2>1. call'[Worker] = Idle
    BY <1>1, <1>2, ConnAssumption
  <2> QED  BY <1>1, <1>3, <2>1 DEF StageInv, SqlInv
<1> QED  BY <1>1, <1>2, <1>3, <1>4, <1>5, WorkerStepBase

\* What the worker knows when a native call has returned.
LEMMA Resulted ==
  ASSUME BaseInv, NEW stage \in Stages \ {"rest"}, Result(stage)
  PROVE  /\ wrk = "run" /\ call[Worker].pc = "ret" /\ cur.stage = stage /\ cur.req \in Reqs
         /\ inbox \in Seq(Reqs) /\ depth \in Nat /\ level \in Levels \union {None}
         /\ ruOn \in BOOLEAN /\ TxInv /\ StageInv
         /\ unrestored' \in BOOLEAN
         /\ UNCHANGED <<conn, closes, stmts, db, faults, reg, fresh>>
BY DEF Result, BaseInv, TypeInv, WorkerType, ClientType, Ok

LEMMA KeepsSimpleDone ==
  ASSUME BaseInv, RunDone \/ CreateDone \/ UndoDone \/ CloseDone \/ RelaxDone
  PROVE  BaseInv'
<1>1. \E stage \in Stages \ {"rest"} : Result(stage)
  BY DEF RunDone, CreateDone, UndoDone, CloseDone, RelaxDone, Stages
<1>2. /\ wrk = "run" /\ call[Worker].pc = "ret" /\ cur.req \in Reqs
      /\ inbox \in Seq(Reqs) /\ depth \in Nat /\ level \in Levels \union {None}
      /\ ruOn \in BOOLEAN /\ TxInv /\ StageInv /\ unrestored' \in BOOLEAN
      /\ UNCHANGED <<conn, closes, stmts, db, faults, reg, fresh>>
  BY <1>1, Resulted
<1>3. UNCHANGED <<depth, level, ruOn>> /\ inbox' \in Seq(Reqs)
      /\ wrk' \in {"run", "dead"}
  BY <1>2, EmptySeq DEF RunDone, CreateDone, UndoDone, CloseDone, RelaxDone, SameTx, Stays, WorkerEnds
<1>4. TxInv'
  BY <1>2, <1>3 DEF TxInv
<1>5. CASE \E ok : Reply(cur.req, ok)
  BY <1>2, <1>3, <1>4, <1>5, ReplyStep
<1>6. CASE CreateDone /\ Runs("run", cur.req, Query)
  <2>1. cur.req.verb = "migrations" /\ wrk' = wrk
    BY <1>2, <1>6 DEF CreateDone, Result, StageInv, Stays
  <2> QED  BY <1>2, <1>3, <1>6, <2>1, Starts
<1>7. CASE RelaxDone /\ Runs("begin", cur.req, Exec(Sql("begin", None)))
  <2>1. cur.req.verb = "begin" /\ depth = 0 /\ wrk' = wrk
    BY <1>2, <1>7 DEF RelaxDone, Result, StageInv, Stays
  <2> QED  BY <1>2, <1>3, <1>7, <2>1, Starts
<1> QED  BY <1>5, <1>6, <1>7 DEF RunDone, CreateDone, UndoDone, CloseDone, RelaxDone

LEMMA KeepsBeginDone ==
  ASSUME BaseInv, BeginDone
  PROVE  BaseInv'
<1>1. Result("begin") /\ "begin" \in Stages \ {"rest"} /\ Stays
  BY DEF BeginDone, Stages
<1>2. /\ wrk = "run" /\ call[Worker].pc = "ret" /\ cur.stage = "begin" /\ cur.req \in Reqs
      /\ inbox \in Seq(Reqs) /\ depth \in Nat /\ level \in Levels \union {None}
      /\ ruOn \in BOOLEAN /\ TxInv /\ StageInv /\ unrestored' \in BOOLEAN
      /\ UNCHANGED <<conn, closes, stmts, db, faults, reg, fresh, wrk, inbox>>
  BY <1>1, Resulted DEF Stays
<1>3. cur.req.verb = "begin" /\ depth = 0
  BY <1>2 DEF StageInv
<1>4. LevelOf(cur.req) \in Levels
  BY <1>2, <1>3, ConnAssumption DEF LevelOf, Reqs, Levels
<1>5. CASE TxState(1, LevelOf(cur.req), LevelOf(cur.req) = "ru") /\ Reply(cur.req, TRUE)
  <2>1. depth' = 1 /\ level' \in Levels /\ ruOn' = (level' = "ru")
    BY <1>4, <1>5 DEF TxState
  <2>2. level' # None
    BY <2>1, ConnAssumption DEF Levels
  <2>3. ruOn' => level' = "ru"
    BY <2>1, Zenon
  <2>4. TxInv'
    BY <2>1, <2>2, <2>3 DEF TxInv
  <2> QED  BY <1>2, <1>5, <2>1, <2>4, ReplyStep
<1>6. CASE SameTx /\ Reply(cur.req, FALSE)
  <2>1. TxInv'
    BY <1>2, <1>6 DEF SameTx, TxInv
  <2> QED  BY <1>2, <1>6, <2>1, ReplyStep DEF SameTx
<1>7. CASE LevelOf(cur.req) = "ru" /\ SameTx /\ Runs("undo", cur.req, Exec(Sql("restore", None)))
  BY <1>2, <1>3, <1>7, Starts DEF SameTx
<1> QED  BY <1>5, <1>6, <1>7 DEF BeginDone

LEMMA KeepsNestDone ==
  ASSUME BaseInv, NestDone
  PROVE  BaseInv'
<1>1. PICK stage \in {"nest", "unnest"} :
        /\ Result(stage) /\ stage \in Stages \ {"rest"}
        /\ \/ stage = "nest" /\ depth' \in {depth, depth + 1}
           \/ stage = "unnest" /\ depth' \in {depth, depth - 1}
        /\ UNCHANGED <<level, ruOn, wrk, inbox>>
        /\ \E ok : Reply(cur.req, ok)
  BY DEF NestDone, TxState, Stays, Stages
<1>2. /\ wrk = "run" /\ call[Worker].pc = "ret" /\ cur.stage = stage /\ cur.req \in Reqs
      /\ inbox \in Seq(Reqs) /\ depth \in Nat /\ level \in Levels \union {None}
      /\ ruOn \in BOOLEAN /\ TxInv /\ StageInv /\ unrestored' \in BOOLEAN
      /\ UNCHANGED <<conn, closes, stmts, db, faults, reg, fresh>>
  BY <1>1, Resulted
<1>3. depth > 0 /\ depth' \in Nat /\ depth' > 0
  BY <1>1, <1>2 DEF StageInv
<1>4. TxInv'
  BY <1>1, <1>2, <1>3 DEF TxInv
<1> QED  BY <1>1, <1>2, <1>3, <1>4, ReplyStep

LEMMA KeepsEndDone ==
  ASSUME BaseInv, EndDone \/ RestoreDone
  PROVE  BaseInv'
<1>1. PICK stage \in {"end", "restore"} : Result(stage) /\ stage \in Stages \ {"rest"} /\ Stays
  BY DEF EndDone, RestoreDone, Stages
<1>2. /\ wrk = "run" /\ call[Worker].pc = "ret" /\ cur.stage = stage /\ cur.req \in Reqs
      /\ inbox \in Seq(Reqs) /\ depth \in Nat /\ level \in Levels \union {None}
      /\ ruOn \in BOOLEAN /\ TxInv /\ StageInv /\ unrestored' \in BOOLEAN
      /\ UNCHANGED <<conn, closes, stmts, db, faults, reg, fresh, wrk, inbox>>
  BY <1>1, Resulted DEF Stays
<1>3. depth = 1 /\ cur.req.verb \in {"commit", "rollback"}
  BY <1>1, <1>2 DEF StageInv
<1>4. CASE TxState(0, None, FALSE) /\ \E ok : Reply(cur.req, ok)
  <2>1. depth' = 0 /\ level' = None /\ ruOn' = FALSE
    BY <1>4 DEF TxState
  <2>2. TxInv'
    BY <2>1 DEF TxInv
  <2> QED  BY <1>2, <1>4, <2>1, <2>2, ReplyStep
<1>5. CASE SameTx /\ \E ok : Reply(cur.req, ok)
  <2>1. TxInv'
    BY <1>2, <1>5 DEF SameTx, TxInv
  <2> QED  BY <1>2, <1>5, <2>1, ReplyStep DEF SameTx
<1>6. CASE SameTx /\ ruOn /\ Runs("restore", cur.req, Exec(Sql("restore", None)))
  BY <1>2, <1>3, <1>6, Starts DEF SameTx
<1> QED  BY <1>4, <1>5, <1>6 DEF EndDone, RestoreDone

-----------------------------------------------------------------------------
(* The native calls. *)

LEMMA ReturnFacts ==
  ASSUME NifType, NEW p \in Procs, NEW r \in Rets, Return(p, r)
  PROVE  /\ \A q \in Procs : q # p => call'[q] = call[q]
         /\ call'[p].pc = "ret" /\ call'[p].sql = call[p].sql /\ call'[p].ret = r
         /\ call'[p].nrows = 0 /\ call'[p].cap = 0
BY DEF NifType, Return, Calls

LEMMA GotoFacts ==
  ASSUME NifType, NEW p \in Procs, NEW pc \in CallPcs, Goto(p, pc)
  PROVE  /\ \A q \in Procs : q # p => call'[q] = call[q]
         /\ call'[p].pc = pc /\ call'[p].sql = call[p].sql
         /\ call'[p].nrows = call[p].nrows /\ call'[p].cap = call[p].cap
BY DEF NifType, Goto, Calls

\* A step of p's call that leaves the handle alone.
LEMMA CallStep ==
  ASSUME BaseInv, NEW p \in Procs, NifType', UNCHANGED <<conn, closes>>,
         UNCHANGED <<reg, wrk, inbox, cur, depth, level, ruOn, cl, ghostVars, inputVars>>,
         \A q \in Procs : q # p => call'[q] = call[q],
         call'[p].sql = call[p].sql, call'[p].nrows <= call'[p].cap,
         \/ call[p].pc \in {"enter", "prepare", "step"} /\ call'[p].pc \in {"prepare", "step", "ret"}
         \/ call[p].pc = "close" /\ call'[p].pc \in {"closing", "ret"},
         call'[p].pc \in Inside => conn.db,
         \A q \in Procs : q # p => (q \in stmts' <=> q \in stmts),
         p \in stmts' <=> call'[p].pc = "step",
         call'[p].pc # "step" => call'[p].cap = 0
  PROVE  BaseInv'
<1> USE ConnAssumption DEF Opening
<1>1. TypeInv /\ HandleInv /\ WhoInv /\ OpenInv /\ CallInv /\ TxInv /\ StageInv /\ SqlInv
  BY DEF BaseInv
<1>2. UNCHANGED <<reg, wrk, inbox, cur, depth, level, ruOn, cl, told, kept, undone, fresh, sent,
                  unrestored>>
  BY DEF ghostVars, inputVars
<1>3. WorkerType' /\ ClientType'
  BY <1>1, <1>2 DEF TypeInv, WorkerType, ClientType
<1>4. HandleInv' /\ TxInv' /\ StageInv'
  BY <1>1, <1>2 DEF HandleInv, TxInv, StageInv, LevelOf
<1>5. WhoInv'
  BY <1>1, <1>2 DEF WhoInv
<1>6. OpenInv'
  BY <1>1, <1>2 DEF OpenInv, WhoInv
<1>7. CallInv'
  BY <1>1 DEF CallInv
<1>8. SqlInv'
  BY <1>1, <1>2 DEF SqlInv
<1> QED  BY <1>3, <1>4, <1>5, <1>6, <1>7, <1>8 DEF BaseInv, TypeInv

LEMMA FinalizeFacts ==
  ASSUME NEW p \in Procs, Finalize(p)
  PROVE  p \notin stmts' /\ \A q \in Procs : q # p => (q \in stmts' <=> q \in stmts)
BY DEF Finalize

LEMMA KeepsGetConn ==
  ASSUME BaseInv, NEW p \in Procs, GetConn(p), NifType',
         UNCHANGED <<reg, wrk, inbox, cur, depth, level, ruOn, cl, ghostVars, inputVars>>
  PROVE  BaseInv'
<1>1. NifType /\ CallInv /\ HandleInv
  BY DEF BaseInv, TypeInv
<1>2. call[p].pc = "enter" /\ UNCHANGED <<conn, closes, stmts>>
  BY DEF GetConn
<1>3. call[p].nrows = 0 /\ call[p].cap = 0 /\ p \notin stmts
  BY <1>1, <1>2 DEF CallInv, NifType, Calls
<1>4. CASE Return(p, "closed")
  BY <1>1, <1>2, <1>3, <1>4, ReturnFacts, CallStep
<1>5. CASE Goto(p, "prepare") /\ conn.db
  BY <1>1, <1>2, <1>3, <1>5, GotoFacts, CallStep
<1>6. conn.db \in BOOLEAN /\ conn.closed \in BOOLEAN
  BY <1>1 DEF NifType
<1> QED  BY <1>4, <1>5, <1>6 DEF GetConn

LEMMA KeepsPrepare ==
  ASSUME BaseInv, NEW p \in Procs, Prepare(p), NifType',
         UNCHANGED <<reg, wrk, inbox, cur, depth, level, ruOn, cl, ghostVars, inputVars>>
  PROVE  BaseInv'
<1>1. NifType /\ CallInv
  BY DEF BaseInv, TypeInv
<1>2. call[p].pc = "prepare" /\ UNCHANGED <<conn, closes>>
  BY DEF Prepare
<1>3. call[p].nrows = 0 /\ call[p].cap = 0 /\ p \notin stmts /\ conn.db
  BY <1>1, <1>2 DEF CallInv, NifType, Calls
<1>4. CASE \E r \in Rets : Return(p, r) /\ (stmts' = stmts \/ Finalize(p))
  BY <1>1, <1>2, <1>3, <1>4, ReturnFacts, FinalizeFacts, CallStep
<1>5. CASE Goto(p, "step") /\ stmts' = stmts \union {p}
  BY <1>1, <1>2, <1>3, <1>5, GotoFacts, CallStep
<1> QED  BY <1>4, <1>5 DEF Prepare

LEMMA KeepsExecStep ==
  ASSUME BaseInv, NEW p \in Procs, ExecStep(p), NifType',
         UNCHANGED <<reg, wrk, inbox, cur, depth, level, ruOn, cl, ghostVars, inputVars>>
  PROVE  BaseInv'
<1>1. NifType /\ CallInv
  BY DEF BaseInv, TypeInv
<1>2. /\ call[p].pc = "step" /\ UNCHANGED <<conn, closes>>
      /\ \E r \in Rets : Return(p, r)
      /\ stmts' = stmts \ {p}
  BY DEF ExecStep, Finalize, StatementFails
<1> QED  BY <1>1, <1>2, ReturnFacts, CallStep

\* A row is stored inside the array, which has just been doubled if it was full.
LEMMA KeepsRowStep ==
  ASSUME BaseInv, NEW p \in Procs, RowStep(p), NifType',
         UNCHANGED <<reg, wrk, inbox, cur, depth, level, ruOn, cl, ghostVars, inputVars>>
  PROVE  BaseInv'
<1>1. NifType /\ CallInv
  BY DEF BaseInv, TypeInv
<1>2. call[p].pc = "step" /\ UNCHANGED <<conn, closes>>
  BY DEF RowStep
<1>3. /\ conn.db /\ p \in stmts /\ call[p] \in Calls
      /\ call[p].nrows \in Nat /\ call[p].cap \in Nat /\ call[p].nrows <= call[p].cap
  BY <1>1, <1>2 DEF CallInv, NifType, Calls
<1>4. CASE Finalize(p) /\ Return(p, "badarg")
  BY <1>1, <1>2, <1>4, ReturnFacts, FinalizeFacts, CallStep
<1>5. CASE /\ call' = [call EXCEPT ![p].nrows = @ + 1,
                         ![p].cap = IF @ = call[p].nrows THEN Grown(@) ELSE @]
           /\ stmts' = stmts
  <2> DEFINE stored == [call EXCEPT ![p].nrows = @ + 1]
             cap == IF call[p].cap = call[p].nrows THEN Grown(call[p].cap) ELSE call[p].cap
  <2>1. /\ stored \in [Procs -> Calls] /\ stored[p].cap = call[p].cap
        /\ stored[p].nrows = call[p].nrows + 1
        /\ stored[p].pc = "step" /\ stored[p].sql = call[p].sql
        /\ \A q \in Procs : q # p => stored[q] = call[q]
    BY <1>1, <1>2 DEF NifType, Calls
  <2>2. call' = [stored EXCEPT ![p].cap = IF @ = call[p].nrows THEN Grown(@) ELSE @]
    BY <1>5
  <2>3. cap \in Nat /\ call[p].nrows + 1 <= cap
    BY <1>3, NifAssumption DEF Grown
  <2>4. call' = [stored EXCEPT ![p].cap = cap]
    BY <2>1, <2>2
  <2> HIDE DEF stored, cap
  <2>5. /\ \A q \in Procs : q # p => call'[q] = call[q]
        /\ call'[p].cap = cap /\ call'[p].nrows = call[p].nrows + 1
        /\ call'[p].pc = "step" /\ call'[p].sql = call[p].sql
    BY <2>1, <2>4 DEF Calls
  <2> QED  BY <1>2, <1>3, <1>5, <2>3, <2>5, CallStep
<1> QED  BY <1>4, <1>5 DEF RowStep

LEMMA KeepsRowsEnd ==
  ASSUME BaseInv, NEW p \in Procs, RowsEnd(p), NifType',
         UNCHANGED <<reg, wrk, inbox, cur, depth, level, ruOn, cl, ghostVars, inputVars>>
  PROVE  BaseInv'
<1>1. NifType /\ CallInv
  BY DEF BaseInv, TypeInv
<1>2. /\ call[p].pc = "step" /\ UNCHANGED <<conn, closes>> /\ stmts' = stmts \ {p}
      /\ \E r \in Rets : Return(p, r)
  BY DEF RowsEnd, Finalize, StatementFails
<1> QED  BY <1>1, <1>2, ReturnFacts, CallStep

LEMMA KeepsCloseCheck ==
  ASSUME BaseInv, NEW p \in Procs, CloseCheck(p), NifType',
         UNCHANGED <<reg, wrk, inbox, cur, depth, level, ruOn, cl, ghostVars, inputVars>>
  PROVE  BaseInv'
<1>1. NifType /\ CallInv
  BY DEF BaseInv, TypeInv
<1>2. call[p].pc = "close" /\ UNCHANGED <<conn, closes, stmts>>
  BY DEF CloseCheck
<1>3. call[p].nrows = 0 /\ call[p].cap = 0 /\ p \notin stmts
  BY <1>1, <1>2 DEF CallInv, NifType, Calls
<1>4. CASE Return(p, "closed")
  BY <1>1, <1>2, <1>3, <1>4, ReturnFacts, CallStep
<1>5. CASE Goto(p, "closing") /\ conn.db
  BY <1>1, <1>2, <1>3, <1>5, GotoFacts, CallStep
<1>6. conn.db \in BOOLEAN /\ conn.closed \in BOOLEAN
  BY <1>1 DEF NifType
<1> QED  BY <1>4, <1>5, <1>6 DEF CloseCheck

\* Only the client that opens the handle calls open_nif.
LEMMA KeepsOpen ==
  ASSUME BaseInv, NEW p \in Procs, Open(p), NifType',
         UNCHANGED <<reg, wrk, inbox, cur, depth, level, ruOn, cl, ghostVars, inputVars>>
  PROVE  BaseInv'
<1> USE ConnAssumption DEF Opening
<1>1. TypeInv /\ HandleInv /\ WhoInv /\ OpenInv /\ CallInv /\ TxInv /\ StageInv /\ SqlInv /\ NifType
  BY DEF BaseInv, TypeInv
<1>2. UNCHANGED <<reg, wrk, inbox, cur, depth, level, ruOn, cl, told, kept, undone, fresh, sent,
                  unrestored>>
  BY DEF adapterVars, ghostVars, inputVars
<1>3. call[p].pc = "open" /\ conn.res = "none" /\ wrk = "none" /\ p \in Clients /\ cl[p].pc = "opening"
  BY <1>1 DEF Open, WhoInv, OpenInv
<1>4. UNCHANGED <<closes, stmts>>
  BY DEF Open
<1>5. \A q \in Procs : q # p => call'[q] = call[q] /\ call[q].pc = "idle"
  BY <1>1, <1>3, ReturnFacts, OneInside DEF Open
<1>6. /\ call'[p].pc = "ret" /\ call'[p].nrows = 0 /\ call'[p].cap = 0
      /\ \/ conn' = conn /\ call'[p].ret # "ok"
         \/ conn' = [res |-> "live", db |-> TRUE, closed |-> FALSE]
  BY <1>1, ReturnFacts DEF Open
<1>7. WorkerType' /\ ClientType'
  BY <1>1, <1>2 DEF TypeInv, WorkerType, ClientType
<1>8. HandleInv'
  BY <1>1, <1>3, <1>4, <1>6 DEF HandleInv
<1>9. WhoInv'
  BY <1>1, <1>2, <1>3, <1>5 DEF WhoInv
<1>10. OpenInv'
  BY <1>1, <1>2, <1>3, <1>5, <1>6 DEF OpenInv, WhoInv
<1>11. CallInv'
  BY <1>1, <1>3, <1>4, <1>5, <1>6 DEF CallInv
<1>12. TxInv' /\ StageInv'
  BY <1>1, <1>2 DEF TxInv, StageInv, LevelOf
<1>13. SqlInv'
  BY <1>1, <1>2, <1>3, <1>5 DEF SqlInv
<1> QED  BY <1>7, <1>8, <1>9, <1>10, <1>11, <1>12, <1>13 DEF BaseInv, TypeInv

\* Nobody else is inside a call when the handle is closed.
LEMMA KeepsClose ==
  ASSUME BaseInv, NEW p \in Procs, Close(p), NifType',
         UNCHANGED <<reg, wrk, inbox, cur, depth, level, ruOn, cl, ghostVars, inputVars>>
  PROVE  BaseInv'
<1> USE ConnAssumption DEF Opening
<1>1. TypeInv /\ HandleInv /\ WhoInv /\ OpenInv /\ CallInv /\ TxInv /\ StageInv /\ SqlInv /\ NifType
  BY DEF BaseInv, TypeInv
<1>2. UNCHANGED <<reg, wrk, inbox, cur, depth, level, ruOn, cl, told, kept, undone, fresh, sent,
                  unrestored>>
  BY DEF adapterVars, ghostVars, inputVars
<1>3. call[p].pc = "closing" /\ UNCHANGED stmts /\ closes' = closes + 1
  BY DEF Close, CloseDb
<1>4. conn.db /\ p \notin stmts
  BY <1>1, <1>3 DEF CallInv
<1>5. \A q \in Procs : q # p => call'[q] = call[q] /\ call[q].pc = "idle"
  BY <1>1, <1>3, ReturnFacts, OneInside DEF Close
<1>6. /\ call'[p].pc = "ret" /\ call'[p].nrows = 0 /\ call'[p].cap = 0
      /\ call'[p].sql = call[p].sql
  BY <1>1, ReturnFacts DEF Close
<1>7. conn'.res = conn.res /\ conn'.db = FALSE /\ conn'.closed = TRUE
  BY <1>1 DEF Close, NifType
<1>8. WorkerType' /\ ClientType'
  BY <1>1, <1>2 DEF TypeInv, WorkerType, ClientType
<1>9. HandleInv'
  BY <1>1, <1>3, <1>4, <1>7 DEF HandleInv
<1>10. WhoInv'
  BY <1>1, <1>2, <1>3, <1>5, <1>6 DEF WhoInv
<1>11. OpenInv'
  BY <1>1, <1>2, <1>3, <1>5, <1>6, <1>7 DEF OpenInv, WhoInv
<1>12. CallInv'
  BY <1>1, <1>3, <1>4, <1>5, <1>6 DEF CallInv
<1>13. TxInv' /\ StageInv'
  BY <1>1, <1>2 DEF TxInv, StageInv, LevelOf
<1>14. SqlInv'
  BY <1>1, <1>2, <1>3, <1>5, <1>6 DEF SqlInv
<1> QED  BY <1>8, <1>9, <1>10, <1>11, <1>12, <1>13, <1>14 DEF BaseInv, TypeInv

\* Only statements that the worker or the opening client made are run.
LEMMA SteppingSql ==
  ASSUME BaseInv, NEW p \in Procs, call[p].pc \in {"enter", "prepare", "step"}
  PROVE  call[p].sql \in Sqls
<1>1. CASE p \in Clients
  BY <1>1, SqlTypes DEF BaseInv, WhoInv, OpenInv, Opening, Kinds
<1>2. CASE p = Worker
  <2>1. /\ WhoInv /\ StageInv /\ SqlInv /\ depth \in Nat /\ cur.stage \in Stages
        /\ cur.stage # "rest" => cur.req \in Reqs
    BY DEF BaseInv, TypeInv, WorkerType
  <2>2. cur.stage \notin {"rest", "close"} /\ cur.req \in Reqs
    BY <1>2, <2>1 DEF WhoInv, SqlInv
  <2>3. cur.req.verb = "insert" => cur.req.arg \in Writes
    BY <2>2 DEF Reqs
  <2>4. cur.stage = "unnest" => depth - 1 \in Nat
    BY <2>1 DEF StageInv
  <2>5. cur.stage = "end" => cur.req.verb \in {"commit", "rollback"}
    BY <2>1 DEF StageInv
  <2> QED  BY <1>2, <2>1, <2>2, <2>3, <2>4, <2>5, SqlTypes DEF SqlInv, Stages, Kinds
<1> QED  BY <1>1, <1>2, ConnAssumption

LEMMA KeepsNative ==
  ASSUME BaseInv, Native
  PROVE  BaseInv'
<1>1. PICK p \in Procs : NifStep(p)
  BY DEF Native
<1>2. UNCHANGED <<reg, wrk, inbox, cur, depth, level, ruOn, cl, ghostVars, inputVars>>
  BY DEF Native
<1>3. NifType'
  BY <1>1, SteppingSql, TypeStep DEF BaseInv
<1> QED
  BY <1>1, <1>2, <1>3, KeepsGetConn, KeepsPrepare, KeepsExecStep, KeepsRowStep, KeepsRowsEnd,
     KeepsOpen, KeepsCloseCheck, KeepsClose DEF NifStep

\* Nobody is inside a call when the destructor runs.
LEMMA KeepsCollect ==
  ASSUME BaseInv, Collect
  PROVE  BaseInv'
<1> USE ConnAssumption DEF Opening
<1>1. TypeInv /\ HandleInv /\ WhoInv /\ OpenInv /\ CallInv /\ NifType
  BY DEF BaseInv, TypeInv
<1>2. /\ UNCHANGED <<reg, wrk, inbox, cur, depth, level, ruOn, cl, told, kept, undone, fresh, sent,
                     unrestored, stmts, call, faults>>
      /\ wrk # "run" /\ \A c \in Clients : ~Opening(c)
      /\ conn.res = "live" /\ conn' = [res |-> "gone", db |-> FALSE, closed |-> TRUE]
      /\ IF conn.db /\ ~conn.closed THEN CloseDb ELSE UNCHANGED <<closes, db>>
  BY DEF Collect, ConnDtor, adapterVars, ghostVars, inputVars
<1>3. \A q \in Procs : call[q].pc = "idle"
  BY <1>1, <1>2 DEF WhoInv
<1>4. db' \in Dbs /\ closes' \in Nat
  BY <1>1, <1>2, ReleasedType DEF CloseDb, NifType
<1>5. TypeInv'
  BY <1>1, <1>2, <1>4 DEF TypeInv, NifType, WorkerType, ClientType
<1>6. HandleInv'
  BY <1>1, <1>2 DEF HandleInv, CloseDb, NifType
<1>7. WhoInv'
  BY <1>1, <1>2 DEF WhoInv
<1>8. OpenInv'
  BY <1>1, <1>2 DEF OpenInv
<1>9. CallInv'
  BY <1>1, <1>2, <1>3 DEF CallInv
<1>10. TxInv' /\ StageInv' /\ SqlInv'
  BY <1>2, WorkerUntouched
<1> QED  BY <1>5, <1>6, <1>7, <1>8, <1>9, <1>10 DEF BaseInv

-----------------------------------------------------------------------------

LEMMA InitBase == ConnInit => BaseInv
<1> SUFFICES ASSUME ConnInit PROVE BaseInv
  OBVIOUS
<1> USE ConnAssumption, NifAssumption DEF Opening
<1>1. /\ conn = [res |-> "none", db |-> FALSE, closed |-> FALSE] /\ closes = 0 /\ stmts = {}
      /\ call = [p \in Procs |-> Idle] /\ faults = 0
      /\ db = [durable |-> {}, visible |-> {}, saves |-> <<>>, relaxed |-> FALSE]
  BY DEF ConnInit, NifInit
<1>2. /\ reg = FALSE /\ wrk = "none" /\ inbox = <<>> /\ cur = Rests
      /\ depth = 0 /\ level = None /\ ruOn = FALSE
      /\ cl = [c \in Clients |-> [pc |-> "idle", frames |-> <<>>]]
      /\ fresh = Writes /\ told = {} /\ kept = {} /\ undone = {} /\ unrestored = FALSE
  BY DEF ConnInit
<1>3. Idle \in Calls /\ Idle.pc = "idle" /\ Idle.cap = 0 /\ Idle.nrows = 0
  BY CallTypes
<1>4. NifType
  <2>1. <<>> \in Seq(Saves)
    OBVIOUS
  <2>2. db \in Dbs
    BY <1>1, <2>1 DEF Dbs
  <2>3. call \in [Procs -> Calls]
    BY <1>1, <1>3
  <2> QED  BY <1>1, <2>2, <2>3 DEF NifType
<1>5. cur.stage = "rest" /\ cur.req = None
  BY <1>2 DEF Rests
<1>6. WorkerType
  <2>1. <<>> \in Seq(Reqs) /\ cur \in [req : Reqs \union {None}, stage : Stages]
    BY <1>2 DEF Rests, Stages
  <2> QED  BY <1>2, <1>5, <2>1 DEF WorkerType
<1>7. ClientType
  <2>1. <<>> \in Seq(FrameSet) /\ "idle" \in ClientPcs
    BY DEF ClientPcs
  <2> QED  BY <1>2, <2>1 DEF ClientType
<1>8. \A p \in Procs : call[p] = Idle
  BY <1>1
<1>9. \A c \in Clients : cl[c].pc = "idle"
  BY <1>2
<1>10. HandleInv
  BY <1>1 DEF HandleInv
<1>11. WhoInv /\ OpenInv
  BY <1>2, <1>3, <1>5, <1>8, <1>9 DEF WhoInv, OpenInv
<1>12. CallInv
  BY <1>1, <1>3, <1>8 DEF CallInv
<1>13. TxInv /\ StageInv /\ SqlInv
  BY <1>2, <1>3, <1>5, <1>8 DEF TxInv, StageInv, SqlInv
<1> QED  BY <1>4, <1>6, <1>7, <1>10, <1>11, <1>12, <1>13 DEF BaseInv, TypeInv

LEMMA StutterBase ==
  ASSUME BaseInv, UNCHANGED vars
  PROVE  BaseInv'
<1>1. UNCHANGED <<conn, closes, stmts, call, db, faults>>
      /\ UNCHANGED <<reg, wrk, inbox, cur, depth, level, ruOn, cl, told, kept, undone, fresh, sent,
                     unrestored>>
  BY DEF vars, nifVars, adapterVars, ghostVars, inputVars
<1>2. TypeInv'
  BY <1>1 DEF BaseInv, TypeInv, NifType, WorkerType, ClientType
<1>3. HandleInv' /\ WhoInv' /\ OpenInv' /\ CallInv'
  BY <1>1 DEF BaseInv, HandleInv, WhoInv, OpenInv, CallInv, Opening
<1>4. TxInv' /\ StageInv' /\ SqlInv'
  BY <1>1, WorkerUntouched
<1> QED  BY <1>2, <1>3, <1>4 DEF BaseInv

LEMMA NextBase ==
  ASSUME BaseInv, [Next]_vars
  PROVE  BaseInv'
<1>1. CASE Native
  BY <1>1, KeepsNative
<1>2. CASE Collect
  BY <1>2, KeepsCollect
<1>3. CASE WorkerStep
  BY <1>3, KeepsTake, KeepsCrash, KeepsSimpleDone, KeepsBeginDone, KeepsNestDone, KeepsEndDone
     DEF WorkerStep
<1>4. ASSUME NEW c \in Clients, ClientStep(c)
      PROVE  BaseInv'
  BY <1>4, KeepsConnect, KeepsOpened, KeepsReady, KeepsAbandoned, KeepsVerb, KeepsGivenUp,
     KeepsUnregister, KeepsDie DEF ClientStep
<1>5. CASE UNCHANGED vars
  BY <1>5, StutterBase
<1> QED  BY <1>1, <1>2, <1>3, <1>4, <1>5 DEF Next

LEMMA BaseInvariance == Spec => []BaseInv
BY InitBase, NextBase, PTL DEF Spec

TornType == torn \in BOOLEAN

LEMMA TornNext ==
  ASSUME TornType, [Next]_vars
  PROVE  TornType'
<1>1. CASE Native
  BY <1>1 DEF Native, TornType
<1>2. CASE \E d, l, ru : TxState(d, l, ru)
  BY <1>2 DEF TxState, TornType
<1>3. CASE UNCHANGED torn
  BY <1>3 DEF TornType
<1>4. ASSUME WorkerStep PROVE UNCHANGED torn \/ \E d, l, ru : TxState(d, l, ru)
  BY <1>4 DEF WorkerStep, Take, Crash, RunDone, CreateDone, RelaxDone, BeginDone, UndoDone,
     NestDone, EndDone, RestoreDone, CloseDone, SameTx
<1>5. ASSUME NEW c \in Clients, ClientStep(c) PROVE UNCHANGED torn
  BY <1>5 DEF ClientStep, Connect, Opened, Ready, Abandoned, Insert, Read, Begin, End, CloseHandle,
     Send, NotFound, Down, Timeout, Unregister, Die, adapterVars
<1>6. Collect => UNCHANGED torn
  BY DEF Collect, adapterVars
<1>7. UNCHANGED vars => UNCHANGED torn
  BY DEF vars, adapterVars
<1> QED  BY <1>1, <1>2, <1>3, <1>4, <1>5, <1>6, <1>7 DEF Next

LEMMA TornInvariance == Spec => []TornType
<1>1. ConnInit => TornType
  BY DEF ConnInit, TornType
<1> QED  BY <1>1, TornNext, PTL DEF Spec

\* The worker's State is what its clients' verbs left: tx_level and ru_on belong to an
\* open transaction, and the transaction stack of SQLite is one of savepoints.
THEOREM ConnTypeCorrect == Spec => []ConnTypeOK
<1>1. BaseInv /\ TornType => ConnTypeOK
  <2> SUFFICES ASSUME BaseInv, TornType PROVE ConnTypeOK
    OBVIOUS
  <2>1. NifTypeOK
    BY DEF BaseInv, TypeInv, NifType, NifTypeOK, Calls, Dbs, Saves
  <2>2. \A i \in DOMAIN inbox : inbox[i].from \in Clients \union {None} /\ inbox[i].verb \in Waiting
    <3>1. inbox \in Seq(Reqs)
      BY DEF BaseInv, TypeInv, WorkerType
    <3>2. \A i \in DOMAIN inbox : inbox[i] \in Reqs
      BY <3>1
    <3> QED  BY <3>2 DEF Reqs
  <2>3. \A c \in Clients : \A i \in DOMAIN cl[c].frames :
          cl[c].frames[i] \in [ws : SUBSET Writes, sound : BOOLEAN]
    <3>1. \A c \in Clients : cl[c].frames \in Seq(FrameSet)
      BY DEF BaseInv, TypeInv, ClientType
    <3>2. \A c \in Clients : \A i \in DOMAIN cl[c].frames : cl[c].frames[i] \in FrameSet
      BY <3>1
    <3> QED  BY <3>2 DEF FrameSet
  <2> QED
    BY <2>1, <2>2, <2>3
       DEF BaseInv, TypeInv, WorkerType, ClientType, TxInv, TornType, ConnTypeOK
<1> QED  BY <1>1, BaseInvariance, TornInvariance, PTL

\* No native call touches a sqlite3* that is gone, though get_conn and close_nif read
\* the handle without a lock, and no handle is closed twice, by whomever.
THEOREM NoUseAfterClose == Spec => []HandleHeld
<1>1. BaseInv => HandleHeld
  BY DEF BaseInv, CallInv, HandleInv, HandleHeld
<1> QED  BY <1>1, BaseInvariance, PTL

\* Every way out of exec_nif and query_nif finalizes the statement and frees the rows,
\* whichever call fails, and the destructor leaves no open handle.
THEOREM NoLeak == Spec => []NothingLeaks
<1>1. BaseInv => NothingLeaks
  BY DEF BaseInv, CallInv, HandleInv, NothingLeaks
<1> QED  BY <1>1, BaseInvariance, PTL
=============================================================================
