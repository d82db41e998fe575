--------------------------- MODULE SqliteTxProofs ---------------------------
(***************************************************************************)
(* Theorems about the transactions of the SQLite adapter: the pragma for   *)
(* relaxed reads, that the connection behind a handle implements nested    *)
(* transactions, and that a client in step with it gets what it was told.  *)
(* The worker's depth runs behind SQLite's savepoint stack from the moment *)
(* a statement takes effect to its answer, ROLLBACK TO leaves savepoints   *)
(* on the stack that no transaction owns, and the clients' beliefs follow  *)
(* only with the answer, if one comes.                                     *)
(***************************************************************************)
EXTENDS SqliteProofs

USE DEF CallPcs, Rets, Inside, OpeningPcs, Names

-----------------------------------------------------------------------------
(* Savepoint stacks of a connection at nesting level n. *)

\* BEGIN at the bottom, then the savepoints of the open levels in order, each perhaps
\* more than once: ROLLBACK TO leaves the savepoint it goes back to.
Shaped(s, n) ==
  /\ n > 0
  /\ \A i \in DOMAIN s : s[i].name = 0 <=> i = 1
  /\ \A i \in DOMAIN s : s[i].name <= n
  /\ \A i, j \in DOMAIN s : i <= j => s[i].name <= s[j].name
  /\ \A k \in 0..n - 1 : \E i \in DOMAIN s : s[i].name = k

\* What was visible when each level was opened.
Opens(s, n) ==
  IF s = <<>> THEN <<>>
  ELSE [k \in 1..n |-> IF At(s, k - 1) = 0 THEN Writes ELSE s[At(s, k - 1)].snap]

LEMMA AtIs ==
  ASSUME NEW s \in Seq(Saves), NEW n, NEW i \in DOMAIN s, s[i].name = n,
         \A j \in DOMAIN s : s[j].name = n => j <= i
  PROVE  At(s, n) = i
<1>1. At(s, n) # 0 /\ At(s, n) \in DOMAIN s /\ At(s, n) <= i /\ i <= At(s, n)
  BY AtFound
<1> QED  BY <1>1

\* Every level has its savepoint.
LEMMA ShapedAt ==
  ASSUME NEW s \in Seq(Saves), NEW n \in Nat, Shaped(s, n), NEW k \in 0..n - 1
  PROVE  /\ At(s, k) # 0 /\ At(s, k) \in 1..Len(s) /\ s[At(s, k)].name = k
         /\ \A j \in 1..Len(s) : s[j].name = k => j <= At(s, k)
         /\ s[At(s, k)].snap \in SUBSET Writes
<1>1. /\ At(s, k) # 0 /\ At(s, k) \in 1..Len(s) /\ s[At(s, k)].name = k
      /\ \A j \in 1..Len(s) : s[j].name = k => j <= At(s, k)
  BY AtFound DEF Shaped
<1>2. \A i \in 1..Len(s) : s[i] \in Saves
  OBVIOUS
<1> QED  BY <1>1, <1>2 DEF Saves

LEMMA OpensType ==
  ASSUME NEW s \in Seq(Saves), NEW n \in Nat, s # <<>> => Shaped(s, n)
  PROVE  /\ Opens(s, n) \in Seq(SUBSET Writes)
         /\ Len(Opens(s, n)) = IF s = <<>> THEN 0 ELSE n
         /\ Opens(s, n) = <<>> <=> s = <<>>
         /\ s # <<>> => \A k \in 1..n : Opens(s, n)[k] = s[At(s, k - 1)].snap
<1>1. CASE s = <<>>
  BY <1>1, EmptySeq DEF Opens
<1>2. CASE s # <<>>
  <2>1. \A k \in 1..n : /\ At(s, k - 1) # 0 
                        /\ s[At(s, k - 1)].snap \in SUBSET Writes
    <3> SUFFICES ASSUME NEW k \in 1..n
                 PROVE  At(s, k - 1) # 0 /\ s[At(s, k - 1)].snap \in SUBSET Writes
      OBVIOUS
    <3>1. k - 1 \in 0..n - 1
      OBVIOUS
    <3> QED  BY <1>2, <3>1, ShapedAt
  <2>2. Opens(s, n) = [k \in 1..n |-> IF At(s, k - 1) = 0 THEN Writes ELSE s[At(s, k - 1)].snap]
    BY <1>2 DEF Opens
  <2>3. \A k \in 1..n : Opens(s, n)[k] = s[At(s, k - 1)].snap
    BY <2>1, <2>2
  <2>4. Opens(s, n) \in [1..n -> SUBSET Writes]
    BY <2>1, <2>2
  <2>5. n > 0
    BY <1>2 DEF Shaped
  <2>6. Opens(s, n) \in Seq(SUBSET Writes) /\ Len(Opens(s, n)) = n
    <3> DEFINE o == Opens(s, n)
    <3>1. o \in [1..n -> SUBSET Writes]
      BY <2>4
    <3> HIDE DEF o
    <3>2. o \in Seq(SUBSET Writes) /\ Len(o) = n
      BY <3>1, SeqDef
    <3> QED  BY <3>2 DEF o
  <2>7. Opens(s, n) # <<>>
    BY <2>5, <2>6
  <2> QED  BY <1>2, <2>3, <2>6, <2>7
<1> QED  BY <1>1, <1>2

\* BEGIN and SAVEPOINT open one more level.
LEMMA Pushed ==
  ASSUME NEW s \in Seq(Saves), NEW n \in Nat, NEW v \in SUBSET Writes,
         \/ s = <<>> /\ n = 0
         \/ s # <<>> /\ Shaped(s, n)
  PROVE  LET t == Append(s, [name |-> n, snap |-> v])
         IN  /\ t \in Seq(Saves) /\ Shaped(t, n + 1) /\ t # <<>>
             /\ t[1].snap = IF s = <<>> THEN v ELSE s[1].snap
             /\ Opens(t, n + 1) = Append(Opens(s, n), v)
<1> DEFINE new == [name |-> n, snap |-> v]
           t == Append(s, new)
<1>1. new \in Saves /\ new.name = n /\ new.snap = v
  BY DEF Saves
<1>2. /\ t \in Seq(Saves) /\ Len(t) = Len(s) + 1 /\ t # <<>> /\ Len(s) \in Nat
      /\ \A i \in 1..Len(s) : t[i] = s[i]
      /\ t[Len(s) + 1] = new
      /\ DOMAIN t = 1..Len(s) + 1 /\ DOMAIN s = 1..Len(s)
  <2> HIDE DEF new
  <2>1. /\ t \in Seq(Saves) /\ Len(t) = Len(s) + 1 /\ Len(s) \in Nat
        /\ \A i \in 1..Len(s) : t[i] = s[i]
        /\ t[Len(s) + 1] = new
    BY <1>1, AppendProperties
  <2>2. DOMAIN t = 1..Len(t) /\ DOMAIN s = 1..Len(s)
    BY <2>1
  <2>3. t # <<>>
    <3> HIDE DEF t
    <3> QED  BY <2>1
  <2> QED  BY <2>1, <2>2, <2>3
<1>3. \A i \in 1..Len(s) : s[i].name \in Nat
  <2>1. \A i \in 1..Len(s) : s[i] \in Saves
    OBVIOUS
  <2> QED  BY <2>1 DEF Saves
<1> HIDE DEF new, t
<1>4. Shaped(t, n + 1)
  <2>1. \A i \in DOMAIN t : t[i].name = 0 <=> i = 1
    BY <1>1, <1>2 DEF Shaped
  <2>2. \A i \in DOMAIN t : t[i].name <= n
    BY <1>1, <1>2, <1>3 DEF Shaped
  <2>3. \A i, j \in DOMAIN t : i <= j => t[i].name <= t[j].name
    <3> SUFFICES ASSUME NEW i \in DOMAIN t, NEW j \in DOMAIN t, i <= j
                 PROVE  t[i].name <= t[j].name
      OBVIOUS
    <3>1. CASE j = Len(s) + 1
      BY <1>1, <1>2, <2>2, <3>1
    <3>2. CASE j \in 1..Len(s)
      BY <1>2, <3>2 DEF Shaped
    <3> QED  BY <1>2, <3>1, <3>2
  <2>4. \A k \in 0..n : \E i \in DOMAIN t : t[i].name = k
    <3> SUFFICES ASSUME NEW k \in 0..n PROVE \E i \in DOMAIN t : t[i].name = k
      OBVIOUS
    <3>1. CASE k = n
      BY <1>1, <1>2, <3>1
    <3>2. CASE k \in 0..n - 1
      BY <1>2, <3>2 DEF Shaped
    <3> QED  BY <3>1, <3>2
  <2>5. \A i \in DOMAIN t : t[i].name <= n + 1
    <3>1. \A i \in DOMAIN t : t[i].name \in Nat
      BY <1>1, <1>2, <1>3
    <3> QED  BY <2>2, <3>1
  <2>6. \A k \in 0..(n + 1) - 1 : \E i \in DOMAIN t : t[i].name = k
    BY <2>4
  <2> QED  BY <2>1, <2>3, <2>5, <2>6 DEF Shaped
<1>5. t[1].snap = IF s = <<>> THEN v ELSE s[1].snap
  BY <1>1, <1>2
<1>6. At(t, n) = Len(s) + 1
  BY <1>1, <1>2, AtIs
<1>7. \A k \in 0..n - 1 : s # <<>> => At(t, k) = At(s, k)
  <2> SUFFICES ASSUME NEW k \in 0..n - 1, s # <<>> PROVE At(t, k) = At(s, k)
    OBVIOUS
  <2>1. /\ At(s, k) \in 1..Len(s) /\ s[At(s, k)].name = k
        /\ \A j \in 1..Len(s) : s[j].name = k => j <= At(s, k)
    BY ShapedAt
  <2>2. \A j \in DOMAIN t : t[j].name = k => j <= At(s, k)
    BY <1>1, <1>2, <2>1
  <2> QED  BY <1>2, <2>1, <2>2, AtIs
<1>8. Opens(t, n + 1) = Append(Opens(s, n), v)
  <2> DEFINE a == Opens(t, n + 1)
             o == Opens(s, n)
  <2>1. /\ a \in Seq(SUBSET Writes) /\ Len(a) = n + 1
        /\ \A k \in 1..n + 1 : a[k] = t[At(t, k - 1)].snap
    BY <1>2, <1>4, OpensType
  <2>2. /\ o \in Seq(SUBSET Writes) /\ Len(o) = n
        /\ s # <<>> => \A k \in 1..n : o[k] = s[At(s, k - 1)].snap
    BY OpensType
  <2>3. a[n + 1] = v
    BY <1>1, <1>2, <1>6, <2>1
  <2>4. ASSUME NEW k \in 1..n PROVE a[k] = o[k]
    <3>1. s # <<>> /\ k - 1 \in 0..n - 1
      BY <2>4
    <3>2. At(t, k - 1) = At(s, k - 1) /\ At(s, k - 1) \in 1..Len(s)
      BY <1>7, <3>1, ShapedAt
    <3>3. t[At(t, k - 1)] = s[At(s, k - 1)]
      BY <1>2, <3>2
    <3>4. a[k] = t[At(t, k - 1)].snap
      <4> HIDE DEF a
      <4> QED  BY <2>1
    <3>5. o[k] = s[At(s, k - 1)].snap
      <4> HIDE DEF o
      <4> QED  BY <2>2, <3>1
    <3> QED  BY <3>3, <3>4, <3>5
  <2> HIDE DEF a, o
  <2>5. a = Append(o, v)
    <3>1. Append(o, v) \in Seq(SUBSET Writes) /\ Len(Append(o, v)) = n + 1
      BY <2>2
    <3>2. \A k \in 1..n + 1 : a[k] = Append(o, v)[k]
      BY <2>2, <2>3, <2>4
    <3> QED  BY <2>1, <3>1, <3>2, SeqEqual
  <2> QED  BY <2>5 DEF a, o
<1> QED  BY <1>2, <1>4, <1>5, <1>8 DEF t, new


\* RELEASE drops the last savepoint of the innermost level and all above it; ROLLBACK TO
\* leaves that one.
LEMMA Cut ==
  ASSUME NEW s \in Seq(Saves), s # <<>>, NEW n \in Nat, n > 1, Shaped(s, n),
         NEW j \in {At(s, n - 1) - 1, At(s, n - 1)}
  PROVE  LET t == SubSeq(s, 1, j)
         IN  /\ t \in Seq(Saves) /\ Shaped(t, n - 1) /\ t # <<>> /\ t[1] = s[1]
             /\ Opens(t, n - 1) = Front(Opens(s, n))
             /\ s[At(s, n - 1)].snap = Last(Opens(s, n))
             /\ At(s, n - 1) > 1
             /\ \A i \in DOMAIN t : i \in DOMAIN s /\ t[i] = s[i]
<1> DEFINE top == At(s, n - 1)
           t == SubSeq(s, 1, j)
<1>1. /\ top \in 1..Len(s) /\ s[top].name = n - 1
      /\ \A i \in 1..Len(s) : s[i].name = n - 1 => i <= top
  BY ShapedAt, n - 1 \in 0..n - 1
<1>2. top > 1
  BY <1>1 DEF Shaped
<1>3. \A i \in 1..Len(s) : s[i].name \in Nat
  <2>1. \A i \in 1..Len(s) : s[i] \in Saves
    OBVIOUS
  <2> QED  BY <2>1 DEF Saves
<1>4. j \in 1..Len(s) /\ j <= top /\ j >= top - 1 /\ Len(s) \in Nat
  BY <1>1, <1>2
<1> HIDE DEF top
<1>5. /\ t \in Seq(Saves) /\ Len(t) = j
      /\ \A i \in 1..j : t[i] = s[i]
  <2>1. \A i \in 1..j : s[i] \in Saves
    BY <1>4
  <2>2. /\ SubSeq(s, 1, j) \in Seq(Saves)
        /\ Len(SubSeq(s, 1, j)) = IF 1 <= j THEN j - 1 + 1 ELSE 0
        /\ \A i \in 1..j - 1 + 1 : SubSeq(s, 1, j)[i] = s[1 + i - 1]
    BY <1>4, <2>1, SubSeqProperties, 1 \in Int, j \in Int
  <2> QED  BY <1>4, <2>2
<1> HIDE DEF t
<1>6. DOMAIN t = 1..j /\ DOMAIN s = 1..Len(s) /\ t # <<>>
  BY <1>4, <1>5
<1>sorted. \A a, b \in 1..Len(s) : a <= b => s[a].name <= s[b].name
  BY <1>6 DEF Shaped
<1>7. \A k \in 0..n - 2 : At(s, k) \in 1..j /\ At(t, k) = At(s, k)
  <2> SUFFICES ASSUME NEW k \in 0..n - 2 PROVE At(s, k) \in 1..j /\ At(t, k) = At(s, k)
    OBVIOUS
  <2>1. /\ At(s, k) \in 1..Len(s) /\ s[At(s, k)].name = k
        /\ \A i \in 1..Len(s) : s[i].name = k => i <= At(s, k)
    BY ShapedAt, k \in 0..n - 1
  <2>2. ~(top <= At(s, k))
    <3>1. top <= At(s, k) => s[top].name <= s[At(s, k)].name
      BY <1>1, <1>sorted, <2>1
    <3> QED  BY <1>1, <2>1, <3>1
  <2>3. At(s, k) \in 1..j
    BY <1>1, <1>4, <2>1, <2>2
  <2>4. \A i \in DOMAIN t : t[i].name = k => i <= At(s, k)
    BY <1>4, <1>5, <1>6, <2>1
  <2> QED  BY <1>5, <1>6, <2>1, <2>3, <2>4, AtIs
<1>8. Shaped(t, n - 1)
  <2>1. \A i \in DOMAIN t : t[i].name <= n - 1
    <3> SUFFICES ASSUME NEW i \in DOMAIN t PROVE t[i].name <= n - 1
      OBVIOUS
    <3>1. i \in 1..Len(s) /\ i <= top /\ t[i] = s[i]
      BY <1>1, <1>4, <1>5, <1>6
    <3>2. s[i].name <= s[top].name
      BY <1>1, <1>sorted, <3>1
    <3> QED  BY <1>1, <3>1, <3>2
  <2>2. \A i \in DOMAIN t : t[i].name = 0 <=> i = 1
    BY <1>4, <1>5, <1>6 DEF Shaped
  <2>3. \A i, h \in DOMAIN t : i <= h => t[i].name <= t[h].name
    BY <1>4, <1>5, <1>6 DEF Shaped
  <2>4. \A k \in 0..(n - 1) - 1 : \E i \in DOMAIN t : t[i].name = k
    <3> SUFFICES ASSUME NEW k \in 0..(n - 1) - 1 PROVE \E i \in DOMAIN t : t[i].name = k
      OBVIOUS
    <3>1. At(s, k) \in 1..j /\ s[At(s, k)].name = k
      BY <1>7, ShapedAt, k \in 0..n - 2, k \in 0..n - 1
    <3> QED  BY <1>5, <1>6, <3>1
  <2> QED  BY <2>1, <2>2, <2>3, <2>4 DEF Shaped
<1> DEFINE o == Opens(s, n)
           f == Opens(t, n - 1)
<1>9. /\ o \in Seq(SUBSET Writes) /\ Len(o) = n
      /\ \A k \in 1..n : o[k] = s[At(s, k - 1)].snap
  BY OpensType
<1>10. /\ f \in Seq(SUBSET Writes) /\ Len(f) = n - 1
       /\ \A k \in 1..n - 1 : f[k] = t[At(t, k - 1)].snap
  BY <1>5, <1>6, <1>8, OpensType, n - 1 \in Nat
<1> HIDE DEF o, f
<1>11. /\ Front(o) \in Seq(SUBSET Writes) /\ Len(Front(o)) = n - 1
       /\ \A i \in 1..n - 1 : Front(o)[i] = o[i]
       /\ Last(o) = o[n]
  <2>1. o \in Seq(SUBSET Writes) /\ Len(o) > 0
    BY <1>9
  <2> QED  BY <1>9, <2>1, FrontType
<1>12. ASSUME NEW k \in 1..n - 1 PROVE f[k] = Front(o)[k]
  <2>1. k - 1 \in 0..n - 2
    OBVIOUS
  <2>2. t[At(t, k - 1)] = s[At(s, k - 1)]
    BY <1>5, <1>7, <2>1
  <2>3. f[k] = t[At(t, k - 1)].snap
    BY <1>10
  <2>4. Front(o)[k] = o[k]
    BY <1>11
  <2>5. o[k] = s[At(s, k - 1)].snap
    BY <1>9
  <2> QED  BY <2>2, <2>3, <2>4, <2>5
<1>13. f = Front(o)
  BY <1>10, <1>11, <1>12, SeqEqual
<1>14. s[top].snap = Last(o)
  BY <1>9, <1>11, n \in 1..n DEF top
<1> QED  BY <1>2, <1>4, <1>5, <1>6, <1>8, <1>13, <1>14 DEF t, top, o, f
-----------------------------------------------------------------------------
(* The inductive invariant. *)

\* Where relaxed reads may be on when no restoring pragma has failed.
RelaxInv ==
  /\ wrk = "none" => ~db.relaxed
  /\ wrk = "run" /\ db.relaxed /\ ~unrestored =>
       \/ depth > 0 /\ ruOn
       \/ cur.stage = "relax" /\ Took
       \/ cur.stage = "begin" /\ LevelOf(cur.req) = "ru"
       \/ cur.stage = "undo" /\ ~Took
  /\ wrk = "run" /\ cur.stage \in {"undo", "restore"} /\ Took => ~db.relaxed

\* The handle stays open until the worker serves the close.
AliveInv ==
  /\ wrk = "run" /\ ~(cur.stage = "close" /\ call[Worker].pc = "ret") => ~conn.closed
  /\ \A c \in Clients : cl[c].pc \in {"opening", "pragmas"} => ~conn.closed

\* What the stack of a connection at level n says about its rows.
Stack(d, n) ==
  /\ d.saves = <<>> => d.visible = d.durable
  /\ d.saves # <<>> => Shaped(d.saves, n) /\ d.saves[1].snap = d.durable

\* What is left of that when SQLite has taken the transaction back and statements for its
\* levels still come.
Ground(d) ==
  /\ d.saves = <<>> => d.visible = d.durable
  /\ d.durable \subseteq d.visible
  /\ \A i \in DOMAIN d.saves : d.durable \subseteq d.saves[i].snap

Rows ==
  /\ torn => Ground(db)
  /\ ~torn => Stack(db, Nesting)

\* The worker's depth, with a statement that has taken effect, is the level SQLite is
\* at, until the worker is gone or SQLite takes the transaction back; SQLite is outside
\* any transaction whenever the worker is.
StackInv ==
  /\ Rows
  /\ torn => depth > 0
  /\ wrk = "none" => db.saves = <<>> /\ depth = 0
  /\ wrk = "run" /\ ~conn.closed =>
       /\ Nesting = 0 => db.saves = <<>>
       /\ ~torn => (db.saves = <<>> => Nesting = 0)

\* The rows that SQLite has seen.
Seen(d, w) ==
  \/ w \in d.visible \union d.durable
  \/ \E i \in DOMAIN d.saves : w \in d.saves[i].snap

\* The insert of a row that has not taken effect yet.
Unserved == cur.stage = "run" /\ call[Worker].pc # "ret"

\* Each row is inserted once.
FreshInv ==
  /\ \A w \in fresh : ~Seen(db, w)
  /\ \A i \in DOMAIN inbox : inbox[i].verb = "insert" =>
       /\ ~Seen(db, inbox[i].arg) /\ inbox[i].arg \notin fresh
       /\ \A j \in DOMAIN inbox : inbox[j].verb = "insert" /\ inbox[j].arg = inbox[i].arg => i = j
       /\ Unserved /\ cur.req.verb = "insert" => cur.req.arg # inbox[i].arg
  /\ Unserved /\ cur.req.verb = "insert" => ~Seen(db, cur.req.arg) /\ cur.req.arg \notin fresh

-----------------------------------------------------------------------------
(* What a step does to the database and to the nesting. *)

Lost == [db EXCEPT !.visible = db.durable, !.saves = <<>>, !.relaxed = FALSE]

LEMMA NifEffect ==
  ASSUME BaseInv, NEW p \in Procs, NifStep(p)
  PROVE  /\ \A q \in Procs : q # p => call'[q] = call[q]
         /\ call[p].pc \notin {"idle", "ret"}
         /\ call'[p].sql = call[p].sql
         /\ \/ /\ db' = db /\ conn'.closed = conn.closed
               /\ call'[p].pc = "ret" /\ call'[p].ret = "ok" =>
                    \/ call[p].pc = "open"
                    \/ call[p].pc = "step" /\ call[p].sql.kind = "select"
            \/ /\ call[p].pc = "closing" /\ db' = Lost
               /\ conn'.closed = TRUE /\ call'[p].pc = "ret" /\ call'[p].ret = "ok"
            \/ /\ call[p].pc = "step" /\ Legal(call[p].sql) /\ db' = After(call[p].sql)
               /\ call'[p].pc = "ret" /\ call'[p].ret = "ok"
               /\ conn'.closed = conn.closed
            \/ /\ call[p].pc = "step" /\ db' = RolledBack
               /\ call'[p].pc = "ret" /\ call'[p].ret = "sqlite_error"
               /\ conn'.closed = conn.closed
<1>0. NifType /\ HandleInv /\ CallInv /\ WhoInv
  BY DEF BaseInv, TypeInv
<1>1. \A d : Released(d, 0, stmts \ {p}) = d
  BY DEF Released
<1>2. call[p].pc \in {"prepare", "step"} => closes = 0
  BY <1>0 DEF CallInv, HandleInv
<1>3. call[p].pc \in {"prepare", "step"} /\ Finalize(p) => db' = db
  BY <1>1, <1>2 DEF Finalize
<1>11. call[p].pc = "step" /\ StatementFails(p) =>
         /\ db' = db \/ db' = RolledBack
         /\ \A q \in Procs : q # p => call'[q] = call[q]
         /\ call'[p].pc = "ret" /\ call'[p].sql = call[p].sql /\ call'[p].ret = "sqlite_error"
  <2> SUFFICES ASSUME call[p].pc = "step", StatementFails(p)
               PROVE  /\ db' = db \/ db' = RolledBack
                      /\ \A q \in Procs : q # p => call'[q] = call[q]
                      /\ call'[p].pc = "ret" /\ call'[p].sql = call[p].sql
                      /\ call'[p].ret = "sqlite_error"
    OBVIOUS
  <2>1. db' = db \/ db' = RolledBack
    BY <1>1, <1>2 DEF StatementFails
  <2>2. Return(p, "sqlite_error")
    BY DEF StatementFails
  <2> QED  BY <1>0, <2>1, <2>2, ReturnFacts
<1>4. CASE GetConn(p) \/ CloseCheck(p)
  <2>1. Return(p, "closed") \/ Goto(p, "prepare") \/ Goto(p, "closing")
    BY <1>4 DEF GetConn, CloseCheck
  <2> QED  BY <1>0, <1>4, <2>1, ReturnFacts, GotoFacts DEF GetConn, CloseCheck
<1>5. CASE Prepare(p)
  <2>1. Goto(p, "step") \/ \E r \in Rets \ {"ok"} : Return(p, r)
    BY <1>5 DEF Prepare
  <2>2. db' = db
    BY <1>3, <1>5 DEF Prepare
  <2> QED  BY <1>0, <1>5, <2>1, <2>2, ReturnFacts, GotoFacts DEF Prepare
<1>6. CASE ExecStep(p)
  <2>1. call[p].pc = "step" /\ UNCHANGED <<conn, closes>>
    BY <1>6 DEF ExecStep
  <2>2. CASE Legal(call[p].sql) /\ Return(p, "ok")
             /\ db' = Released(After(call[p].sql), closes, stmts \ {p})
    <3>1. db' = After(call[p].sql)
      BY <1>1, <1>2, <2>1, <2>2
    <3> QED  BY <1>0, <2>1, <2>2, <3>1, ReturnFacts
  <2>3. CASE Finalize(p) /\ Return(p, "sqlite_error")
    BY <1>0, <1>3, <2>1, <2>3, ReturnFacts
  <2>4. CASE StatementFails(p)
    BY <1>11, <2>1, <2>4
  <2> QED  BY <1>6, <2>2, <2>3, <2>4 DEF ExecStep
<1>7. CASE RowStep(p)
  <2>1. call[p].pc = "step" /\ conn' = conn
    BY <1>7 DEF RowStep
  <2>2. CASE Finalize(p) /\ Return(p, "badarg")
    BY <1>0, <1>3, <2>1, <2>2, ReturnFacts
  <2>3. CASE /\ call' = [call EXCEPT ![p].nrows = @ + 1,
                           ![p].cap = IF @ = call[p].nrows THEN Grown(@) ELSE @]
             /\ db' = db
    <3>1. call'[p].pc = call[p].pc /\ call'[p].sql = call[p].sql
          /\ \A q \in Procs : q # p => call'[q] = call[q]
      BY <1>0, <2>3 DEF NifType, Calls
    <3> QED  BY <2>1, <2>3, <3>1
  <2> QED  BY <1>7, <2>2, <2>3 DEF RowStep
<1>8. CASE RowsEnd(p)
  <2>1. /\ call[p].pc = "step" /\ conn' = conn /\ call[p].sql.kind = "select"
        /\ (Finalize(p) /\ Return(p, "ok")) \/ StatementFails(p)
    BY <1>8 DEF RowsEnd, IsQuery
  <2>2. CASE Finalize(p) /\ Return(p, "ok")
    BY <1>0, <1>3, <2>1, <2>2, ReturnFacts
  <2>3. CASE StatementFails(p)
    BY <1>11, <2>1, <2>3
  <2> QED  BY <2>1, <2>2, <2>3
<1>9. CASE Open(p)
  <2>1. conn.res = "none"
    BY <1>0, <1>9, ConnAssumption DEF Open, WhoInv, OpenInv, BaseInv, Opening
  <2>2. conn'.closed = conn.closed
    <3>1. ~conn.closed /\ conn.closed \in BOOLEAN
      BY <1>0, <2>1 DEF HandleInv, NifType
    <3>2. CASE conn' = conn
      BY <3>2
    <3>3. CASE conn' = [res |-> "live", db |-> TRUE, closed |-> FALSE]
      BY <3>1, <3>3
    <3> QED  BY <1>9, <3>2, <3>3 DEF Open
  <2> QED  BY <1>0, <1>9, <2>2, ReturnFacts DEF Open
<1>10. CASE Close(p)
  <2>1. call[p].pc = "closing" /\ conn'.closed = TRUE
    BY <1>0, <1>10 DEF Close, NifType
  <2>2. closes = 0 /\ stmts = {}
    <3>1. conn.db
      BY <1>0, <2>1 DEF CallInv
    <3>2. \A q \in Procs : call[q].pc # "step"
      BY <1>0, <2>1, OneInside
    <3> QED  BY <1>0, <3>1, <3>2 DEF HandleInv, CallInv, NifType
  <2>3. db' = Lost
    BY <1>10, <2>2 DEF Close, CloseDb, Released, Lost
  <2> QED  BY <1>0, <1>10, <2>1, <2>3, ReturnFacts DEF Close
<1> QED  BY <1>4, <1>5, <1>6, <1>7, <1>8, <1>9, <1>10 DEF NifStep


\* The calls of the worker, and of the client that opens the handle.
LEMMA NativeCases ==
  ASSUME BaseInv, TornType, wrk = "none" => db.saves = <<>>, Native
  PROVE  /\ UNCHANGED <<reg, wrk, inbox, cur, depth, level, ruOn, cl, fresh, unrestored>>
         /\ \/ /\ db' = db /\ conn'.closed = conn.closed /\ torn' = torn
               /\ call[Worker].pc \in {"idle", "ret"} => call'[Worker] = call[Worker]
               /\ Took' /\ ~Took => cur.stage = "run" /\ cur.req.verb # "insert"
            \/ /\ db' = Lost /\ conn'.closed /\ wrk = "run" /\ cur.stage = "close"
               /\ call[Worker].pc = "closing" /\ call'[Worker].pc = "ret" /\ torn' = torn
            \/ /\ db' = Lost /\ wrk = "none" /\ call'[Worker] = call[Worker] /\ torn' = torn
               /\ \E c \in Clients : cl[c].pc = "abandon"
            \/ /\ wrk = "run" /\ cur.stage \notin {"rest", "close"}
               /\ call[Worker].pc = "step" /\ ~Took /\ Took' /\ conn'.closed = conn.closed
               /\ Legal(call[Worker].sql) /\ db' = After(call[Worker].sql) /\ torn' = torn
            \/ /\ wrk = "run" /\ cur.stage \notin {"rest", "close"}
               /\ call[Worker].pc = "step" /\ call'[Worker].pc = "ret" /\ ~Took /\ ~Took'
               /\ conn'.closed = conn.closed /\ db' = RolledBack
               /\ torn' = (torn \/ db.saves # <<>>)
<1>0. WhoInv /\ OpenInv /\ SqlInv /\ cur.stage \in Stages /\ db \in Dbs
  BY DEF BaseInv, TypeInv, WorkerType, NifType
<1>1. /\ UNCHANGED <<reg, wrk, inbox, cur, depth, level, ruOn, cl, fresh, unrestored>>
      /\ torn' = (torn \/ Tears)
  BY DEF Native, inputVars
<1>6. ~Tears => torn' = torn
  BY <1>1 DEF TornType
<1>7. db.saves = <<>> \/ db'.saves # <<>> \/ call'[Worker].ret # "sqlite_error" => torn' = torn
  BY <1>6 DEF Tears
<1>2. PICK p \in Procs : NifStep(p)
  BY DEF Native
<1>3. /\ \A q \in Procs : q # p => call'[q] = call[q]
      /\ call[p].pc \notin {"idle", "ret"}
  BY <1>2, NifEffect
<1>4. CASE p = Worker
  <2>1. wrk = "run" /\ cur.stage # "rest" /\ ~Took /\ call[p].pc # "open"
    BY <1>0, <1>3, <1>4 DEF WhoInv, Took
  <2>2. CASE /\ db' = db /\ conn'.closed = conn.closed
             /\ call'[p].pc = "ret" /\ call'[p].ret = "ok" =>
                  \/ call[p].pc = "open"
                  \/ call[p].pc = "step" /\ call[p].sql.kind = "select"
    <3>1. Took' => cur.stage = "run" /\ cur.req.verb # "insert"
      <4>1. SUFFICES ASSUME call[Worker].pc = "step", call[Worker].sql.kind = "select", Took'
                     PROVE  cur.stage = "run" /\ cur.req.verb # "insert"
        BY <1>4, <2>1, <2>2 DEF Took, Ok
      <4>2. cur.stage # "end"
        BY <1>0, <4>1 DEF SqlInv, StageInv, BaseInv, Sql
      <4> QED  BY <1>0, <2>1, <4>1, <4>2 DEF SqlInv, Stages, Sql
    <3>2. torn' = torn
      BY <1>7, <2>2
    <3> QED  BY <1>1, <1>3, <1>4, <2>2, <3>1, <3>2
  <2>3. CASE call[p].pc = "closing" /\ db' = Lost /\ conn'.closed = TRUE /\ call'[p].pc = "ret"
             /\ call'[p].ret = "ok"
    BY <1>0, <1>1, <1>4, <1>7, <2>1, <2>3 DEF SqlInv
  <2>4. CASE /\ call[p].pc = "step" /\ Legal(call[p].sql) /\ db' = After(call[p].sql)
             /\ call'[p].pc = "ret" /\ call'[p].ret = "ok"
             /\ conn'.closed = conn.closed
    BY <1>0, <1>1, <1>4, <1>7, <2>1, <2>4 DEF SqlInv, Took, Ok
  <2>5. CASE /\ call[p].pc = "step" /\ db' = RolledBack
             /\ call'[p].pc = "ret" /\ call'[p].ret = "sqlite_error"
             /\ conn'.closed = conn.closed
    <3>1. db.saves # <<>> => Tears
      BY <1>0, <1>4, <2>5 DEF Tears, RolledBack, Dbs
    <3>2. torn' = (torn \/ db.saves # <<>>)
      BY <1>1, <3>1, Zenon DEF Tears
    <3>3. cur.stage # "close"
      BY <1>0, <1>4, <2>5 DEF SqlInv
    <3>4. ~Took' /\ call[Worker].pc = "step" /\ call'[Worker].pc = "ret"
      BY <1>4, <2>5 DEF Took, Ok
    <3> QED  BY <1>1, <2>1, <2>5, <3>2, <3>3, <3>4
  <2> QED  BY <1>2, <2>2, <2>3, <2>4, <2>5, NifEffect
<1>5. CASE p # Worker
  <2>1. p \in Clients /\ call'[Worker] = call[Worker]
    BY <1>3, <1>5, ConnAssumption
  <2>2. cl[p].pc \in {"opening", "pragmas", "abandon"} /\ wrk = "none"
    <3>1. Opening(p)
      BY <1>0, <1>3, <2>1 DEF WhoInv
    <3>2. wrk # "run"
      BY <1>0, <2>1, <3>1 DEF WhoInv
    <3> QED  BY <1>0, <2>1, <3>1, <3>2 DEF WhoInv, Opening, BaseInv, TypeInv, WorkerType
  <2>3. call[p].pc = "step" => call[p].sql = Sql("pragma", None)
    BY <1>0, <2>1, <2>2 DEF OpenInv
  <2>4. call[p].pc = "step" => After(call[p].sql) = db
    BY <2>3 DEF After, Sql
  <2>5. call[p].pc = "closing" => cl[p].pc = "abandon"
    BY <1>0, <2>1, <2>2 DEF OpenInv
  <2>6. Took' <=> Took
    BY <2>1 DEF Took, Ok
  <2>7. torn' = torn /\ RolledBack = db
    BY <1>7, <2>2 DEF RolledBack
  <2>8. \/ db' = db /\ conn'.closed = conn.closed
        \/ db' = Lost /\ call[p].pc = "closing"
    BY <1>2, <2>4, <2>7, NifEffect
  <2>9. CASE db' = db /\ conn'.closed = conn.closed
    BY <1>1, <2>1, <2>6, <2>7, <2>9
  <2>10. CASE db' = Lost /\ call[p].pc = "closing"
    BY <1>1, <2>1, <2>2, <2>5, <2>7, <2>10
  <2> QED  BY <2>8, <2>9, <2>10
<1> QED  BY <1>4, <1>5


-----------------------------------------------------------------------------
(* What a statement does to a stack at level n, and to what it opened. *)

LEMMA Inserted ==
  ASSUME db \in Dbs, NEW n, Stack(db, n), NEW sql \in Sqls, sql.kind = "insert",
         NEW d, d = After(sql)
  PROVE  /\ Stack(d, n) /\ d.saves = db.saves
         /\ d.visible = db.visible \union {sql.arg}
         /\ d.durable = IF db.saves = <<>> THEN d.visible ELSE db.durable
         /\ d.relaxed = db.relaxed
<1>1. d = [db EXCEPT !.visible = @ \union {sql.arg},
                     !.durable = IF db.saves = <<>> THEN @ \union {sql.arg} ELSE @]
  BY DEF After
<1>2. /\ d.saves = db.saves /\ d.visible = db.visible \union {sql.arg}
      /\ d.durable = IF db.saves = <<>> THEN db.durable \union {sql.arg} ELSE db.durable
      /\ d.relaxed = db.relaxed
  BY <1>1 DEF Dbs
<1> QED  BY <1>2 DEF Stack

LEMMA Opened1 ==
  ASSUME db \in Dbs, NEW n \in Nat, Stack(db, n), n = 0 <=> db.saves = <<>>,
         NEW sql \in Sqls, NEW d, d = After(sql),
         \/ sql.kind = "begin" /\ n = 0
         \/ sql.kind = "savepoint" /\ sql.arg = n /\ n > 0
  PROVE  /\ Stack(d, n + 1) /\ d.saves # <<>>
         /\ d.visible = db.visible /\ d.durable = db.durable /\ d.relaxed = db.relaxed
         /\ Opens(d.saves, n + 1) = Append(Opens(db.saves, n), db.visible)
         /\ \A i \in DOMAIN d.saves :
              \/ d.saves[i].snap = db.visible
              \/ i \in DOMAIN db.saves /\ d.saves[i] = db.saves[i]
<1> DEFINE new == [name |-> n, snap |-> db.visible]
           s == db.saves
           t == Append(s, new)
<1>1. s \in Seq(Saves) /\ db.visible \in SUBSET Writes /\ new \in Saves
  BY DEF Dbs, Saves
<1>2. d = [db EXCEPT !.saves = t]
  BY DEF After, Push
<1>3. /\ d.saves = t /\ d.visible = db.visible /\ d.durable = db.durable
      /\ d.relaxed = db.relaxed
  BY <1>2 DEF Dbs
<1>4. /\ Shaped(t, n + 1) /\ t # <<>>
      /\ t[1].snap = IF s = <<>> THEN db.visible ELSE s[1].snap
      /\ Opens(t, n + 1) = Append(Opens(s, n), db.visible)
  <2>1. \/ s = <<>> /\ n = 0
        \/ s # <<>> /\ Shaped(s, n)
    BY DEF Stack
  <2> HIDE DEF s
  <2> QED  BY <1>1, <2>1, Pushed
<1>5. Stack(d, n + 1)
  BY <1>3, <1>4 DEF Stack
<1>6. \A i \in DOMAIN t : t[i].snap = db.visible \/ (i \in DOMAIN s /\ t[i] = s[i])
  <2>1. new.snap = db.visible
    OBVIOUS
  <2> HIDE DEF s, new
  <2>2. /\ t \in Seq(Saves) /\ Len(t) = Len(s) + 1
        /\ \A i \in 1..Len(s) : t[i] = s[i]
        /\ t[Len(s) + 1] = new
    BY <1>1, AppendProperties
  <2>3. DOMAIN t = 1..Len(t) /\ DOMAIN s = 1..Len(s) /\ Len(s) \in Nat
    BY <1>1, <2>2
  <2> QED  BY <2>1, <2>2, <2>3
<1> QED  BY <1>3, <1>4, <1>5, <1>6

LEMMA Emptied ==
  ASSUME NEW o \in Seq(SUBSET Writes), Len(o) = 1
  PROVE  Front(o) = <<>> /\ Last(o) = o[1]
<1>1. o \in Seq(SUBSET Writes) /\ Len(o) > 0
  OBVIOUS
<1>2. Front(o) \in Seq(SUBSET Writes) /\ Len(Front(o)) = Len(o) - 1
  BY <1>1, FrontType
<1> QED  BY <1>2 DEF Last

LEMMA Closed1 ==
  ASSUME db \in Dbs, NEW n \in Nat, Stack(db, n), n = 0 <=> db.saves = <<>>,
         NEW sql \in Sqls, Legal(sql), NEW d, d = After(sql),
         \/ sql.kind \in {"commit", "rollback"} /\ n = 1
         \/ sql.kind \in {"release", "rollback_to"} /\ n > 1 /\ sql.arg = n - 1
  PROVE  /\ Stack(d, n - 1) /\ (n - 1 = 0 <=> d.saves = <<>>)
         /\ d.relaxed = db.relaxed
         /\ Opens(db.saves, n) # <<>>
         /\ Opens(d.saves, n - 1) = Front(Opens(db.saves, n))
         /\ sql.kind \in {"commit", "release"} =>
              /\ d.visible = db.visible
              /\ d.durable = IF d.saves = <<>> THEN db.visible ELSE db.durable
         /\ sql.kind \in {"rollback", "rollback_to"} =>
              d.visible = Last(Opens(db.saves, n)) /\ d.durable = db.durable
         /\ \A i \in DOMAIN d.saves : i \in DOMAIN db.saves /\ d.saves[i] = db.saves[i]
         /\ \/ d.visible = db.visible \/ d.visible = db.durable
            \/ \E i \in DOMAIN db.saves : d.visible = db.saves[i].snap
<1> DEFINE s == db.saves
<1>1. s \in Seq(Saves) /\ s # <<>> /\ Shaped(s, n) /\ s[1].snap = db.durable
  BY DEF Stack, Dbs
<1>2. /\ Opens(s, n) \in Seq(SUBSET Writes) /\ Len(Opens(s, n)) = n
      /\ Opens(s, n) # <<>>
      /\ \A k \in 1..n : Opens(s, n)[k] = s[At(s, k - 1)].snap
  <2> HIDE DEF s
  <2> QED  BY <1>1, OpensType
<1>3. CASE sql.kind \in {"commit", "rollback"} /\ n = 1
  <2>1. Front(Opens(s, n)) = <<>> /\ Last(Opens(s, n)) = s[At(s, 0)].snap
    <3>1. Front(Opens(s, n)) = <<>> /\ Last(Opens(s, n)) = Opens(s, n)[1]
      BY <1>2, <1>3, Emptied
    <3> QED  BY <1>2, <1>3, <3>1
  <2>2. At(s, 0) = 1
    <3>1. At(s, 0) \in DOMAIN s /\ s[At(s, 0)].name = 0
      <4> HIDE DEF s
      <4> QED  BY <1>1, <1>3, ShapedAt, 0 \in 0..n - 1
    <3> QED  BY <1>1, <3>1 DEF Shaped
  <2>3. d.saves = <<>> /\ d.relaxed = db.relaxed
        /\ (sql.kind = "commit" => d.visible = db.visible /\ d.durable = db.visible)
        /\ (sql.kind = "rollback" => d.visible = db.durable /\ d.durable = db.durable)
    BY <1>3 DEF After, Dbs
  <2>4. Stack(d, 0) /\ Opens(d.saves, 0) = <<>>
    BY <1>3, <2>3 DEF Stack, Opens
  <2>5. \A i \in DOMAIN d.saves : i \in DOMAIN db.saves /\ d.saves[i] = db.saves[i]
    BY <2>3
  <2>6. Last(Opens(s, n)) = db.durable
    BY <1>1, <2>1, <2>2
  <2> QED  BY <1>2, <1>3, <2>1, <2>3, <2>4, <2>5, <2>6
<1>4. CASE sql.kind \in {"release", "rollback_to"} /\ n > 1 /\ sql.arg = n - 1
  <2> DEFINE top == At(s, n - 1)
             j == IF sql.kind = "release" THEN top - 1 ELSE top
             t == SubSeq(s, 1, j)
  <2>1. /\ t \in Seq(Saves) /\ Shaped(t, n - 1) /\ t # <<>> /\ t[1] = s[1]
        /\ Opens(t, n - 1) = Front(Opens(s, n))
        /\ s[top].snap = Last(Opens(s, n))
        /\ top > 1
        /\ \A i \in DOMAIN t : i \in DOMAIN s /\ t[i] = s[i]
    <3>1. j \in {At(s, n - 1) - 1, At(s, n - 1)}
      OBVIOUS
    <3> HIDE DEF s, j
    <3> QED  BY <1>1, <1>4, <3>1, Cut
  <2>2. LastSave(sql.arg) = top /\ top \in DOMAIN s
    <3>1. LastSave(sql.arg) = top
      BY <1>4, LastSaveFound
    <3>2. top \in DOMAIN s
      <4> HIDE DEF s
      <4> QED  BY <1>1, ShapedAt, n - 1 \in 0..n - 1
    <3> QED  BY <3>1, <3>2
  <2>3. d.saves = t /\ d.relaxed = db.relaxed /\ d.durable = db.durable
        /\ (sql.kind = "release" => d.visible = db.visible)
        /\ (sql.kind = "rollback_to" => d.visible = s[top].snap)
    <3>1. CASE sql.kind = "release"
      <4>1. d = [db EXCEPT !.saves = SubSeq(@, 1, top - 1),
                           !.durable = IF top = 1 THEN db.visible ELSE @]
        BY <2>2, <3>1 DEF After
      <4>2. top # 1
        BY <2>1
      <4> HIDE DEF top
      <4> QED  BY <3>1, <4>1, <4>2 DEF Dbs
    <3>2. CASE sql.kind = "rollback_to"
      <4>1. d = [db EXCEPT !.saves = SubSeq(@, 1, top), !.visible = db.saves[top].snap]
        BY <2>2, <3>2 DEF After
      <4> HIDE DEF top
      <4> QED  BY <3>2, <4>1 DEF Dbs
    <3> QED  BY <1>4, <3>1, <3>2
  <2> HIDE DEF t, top
  <2>4. Stack(d, n - 1)
    BY <1>1, <2>1, <2>3 DEF Stack
  <2> QED  BY <1>2, <1>4, <2>1, <2>2, <2>3, <2>4
<1> QED  BY <1>3, <1>4


-----------------------------------------------------------------------------
(* The worker's statements are steps of the promised connection. *)

Moves == Promise!TxNext \/ UNCHANGED Promise!txVars

\* What the statement of a request is to the user of the connection.
Statement ==
  CASE cur.stage \in {"begin", "nest"} -> Promise!TxBegin
    [] cur.stage \in {"end", "unnest"} /\ cur.req.verb = "commit" -> Promise!TxCommit
    [] cur.stage \in {"end", "unnest"} /\ cur.req.verb # "commit" -> Promise!TxRollback
    [] cur.stage = "run" /\ cur.req.verb = "insert" -> Promise!TxWrite(cur.req.arg)
    [] OTHER -> UNCHANGED Promise!txVars

LEMMA OpenTxIs ==
  OpenTx = Opens(db.saves, Nesting) /\ OpenTx' = Opens(db'.saves, Nesting')
BY DEF OpenTx, Opens, LastSave, At

LEMMA NestingType ==
  ASSUME BaseInv
  PROVE  Nesting \in Nat /\ depth \in Nat /\ cur.stage \in Stages
<1>1. depth \in Nat /\ cur.stage \in Stages /\ (cur.stage = "unnest" => depth > 1)
  BY DEF BaseInv, TypeInv, WorkerType, StageInv
<1> QED  BY <1>1 DEF Nesting

\* The same rows in the same open transactions.
LEMMA Stutters ==
  ASSUME BaseInv, StackInv, torn' = torn,
         UNCHANGED <<db.durable, db.visible, db.saves>>,
         Nesting' = Nesting \/ db.saves = <<>>
  PROVE  /\ Rows' /\ Moves /\ UNCHANGED Promise!txVars
         /\ \A w : Seen(db', w) => Seen(db, w)
<1>1. /\ Ground(db) => Ground(db')
      /\ Stack(db, Nesting) => Stack(db', Nesting')
  BY DEF Stack, Ground
<1>2. Rows'
  BY <1>1 DEF StackInv, Rows
<1>3. OpenTx' = OpenTx
  BY OpenTxIs DEF Opens
<1> QED  BY <1>2, <1>3 DEF Moves, Promise!txVars, Seen

LEMMA StatementStep ==
  ASSUME BaseInv, StackInv, FreshInv, ~torn, torn' = torn, ~conn.closed, wrk = "run",
         cur.stage \notin {"rest", "close"}, call[Worker].pc = "step",
         Took', UNCHANGED <<wrk, cur, depth>>,
         Legal(call[Worker].sql), db' = After(call[Worker].sql)
  PROVE  /\ Stack(db', Nesting') /\ (Nesting' = 0 <=> db'.saves = <<>>)
         /\ Moves /\ Statement
         /\ \A w : Seen(db', w) =>
              Seen(db, w) \/ (cur.stage = "run" /\ cur.req.verb = "insert" /\ w = cur.req.arg)
         /\ db'.relaxed = IF cur.stage = "relax" THEN TRUE
                          ELSE IF cur.stage \in {"undo", "restore"} THEN FALSE
                          ELSE db.relaxed
<1> DEFINE q == call[Worker].sql
           s == cur.stage
           r == cur.req
           n == Nesting
<1>1. /\ db \in Dbs /\ depth \in Nat /\ n \in Nat /\ s \in Stages /\ q \in Sqls /\ r \in Reqs
      /\ Stack(db, n) /\ (n = 0 <=> db.saves = <<>>)
      /\ SqlInv /\ StageInv
  BY NestingType, SteppingSql, ConnAssumption
     DEF BaseInv, TypeInv, NifType, WorkerType, StackInv, Rows
<1>2. ~Took
  BY DEF Took
<1>sound. Promise!TxSound => Moves
  BY DEF Moves, Promise!TxNext
<1>3. CASE s \in {"relax", "undo", "restore", "create"} \/ (s = "run" /\ r.verb # "insert")
  <2>1. /\ s = "relax" => q.kind = "relax"
        /\ s \in {"undo", "restore"} => q.kind = "restore"
        /\ s = "create" => q.kind = "create"
        /\ s = "run" => q.kind = "select"
    BY <1>1, <1>3 DEF SqlInv, Sql
  <2>2. /\ UNCHANGED <<db.durable, db.visible, db.saves>>
        /\ db'.relaxed = IF s = "relax" THEN TRUE
                         ELSE IF s \in {"undo", "restore"} THEN FALSE ELSE db.relaxed
    <3>1. CASE s = "relax"
      <4>1. db' = [db EXCEPT !.relaxed = TRUE]
        BY <2>1, <3>1 DEF After
      <4> QED  BY <1>1, <3>1, <4>1 DEF Dbs
    <3>2. CASE s \in {"undo", "restore"}
      <4>1. db' = [db EXCEPT !.relaxed = FALSE]
        BY <2>1, <3>2 DEF After
      <4> QED  BY <1>1, <3>2, <4>1 DEF Dbs
    <3>3. CASE s \in {"create", "run"}
      <4>1. db' = db
        BY <2>1, <3>3 DEF After
      <4> QED  BY <3>3, <4>1
    <3> QED  BY <1>3, <3>1, <3>2, <3>3
  <2>3. Nesting' = Nesting
    BY <1>3 DEF Nesting
  <2>4. (Nesting' = 0 <=> db'.saves = <<>>)
    BY <1>1, <2>2, <2>3
  <2>5. UNCHANGED Promise!txVars => Statement
    BY <1>3 DEF Statement
  <2>6. Rows' /\ Moves /\ UNCHANGED Promise!txVars /\ \A w : Seen(db', w) => Seen(db, w)
    BY <2>2, <2>3, Stutters
  <2>7. Stack(db', Nesting')
    BY <2>6 DEF Rows
  <2> QED  BY <2>2, <2>4, <2>5, <2>6, <2>7
<1>4. CASE s = "run" /\ r.verb = "insert"
  <2>1. q.kind = "insert" /\ q.arg = r.arg /\ r.arg \in Writes
    BY <1>1, <1>4 DEF SqlInv, Reqs
  <2>2. /\ Stack(db', n) /\ db'.saves = db.saves
        /\ db'.visible = db.visible \union {r.arg}
        /\ db'.durable = IF db.saves = <<>> THEN db'.visible ELSE db.durable
        /\ db'.relaxed = db.relaxed
    <3> HIDE DEF n, q
    <3> QED  BY <1>1, <2>1, Inserted DEF q
  <2>3. Nesting' = Nesting
    BY <1>4 DEF Nesting
  <2>4. r.arg \notin db.visible
    BY <1>4 DEF FreshInv, Unserved, Seen
  <2>5. OpenTx' = OpenTx /\ (OpenTx = <<>> <=> db.saves = <<>>)
    <3>1. Opens(db.saves, n) = <<>> <=> db.saves = <<>>
      <4>1. db.saves \in Seq(Saves) /\ (db.saves # <<>> => Shaped(db.saves, n))
        BY <1>1 DEF Dbs, Stack
      <4> HIDE DEF n
      <4> QED  BY <1>1, <4>1, OpensType
    <3> QED  BY <2>2, <2>3, <3>1, OpenTxIs
  <2>6. Promise!TxWrite(r.arg)
    BY <2>2, <2>4, <2>5 DEF Promise!TxWrite
  <2>7. Moves /\ Statement
    BY <1>sound, <1>4, <2>1, <2>6 DEF Statement, Promise!TxSound
  <2>8. \A w : Seen(db', w) => Seen(db, w) \/ w = r.arg
    BY <2>2 DEF Seen
  <2>9. Nesting' = 0 <=> db'.saves = <<>>
    BY <1>1, <2>2, <2>3
  <2> QED  BY <1>4, <2>2, <2>3, <2>7, <2>8, <2>9
<1>5. CASE s \in {"begin", "nest"}
  <2>1. n = depth /\ Nesting' = n + 1
    BY <1>1, <1>2, <1>5 DEF Nesting, StageInv
  <2>2. \/ q.kind = "begin" /\ n = 0
        \/ q.kind = "savepoint" /\ q.arg = n /\ n > 0
    BY <1>1, <1>5, <2>1 DEF SqlInv, StageInv, Sql
  <2>3. /\ Stack(db', n + 1) /\ db'.saves # <<>>
        /\ db'.visible = db.visible /\ db'.durable = db.durable /\ db'.relaxed = db.relaxed
        /\ Opens(db'.saves, n + 1) = Append(Opens(db.saves, n), db.visible)
        /\ \A i \in DOMAIN db'.saves :
             \/ db'.saves[i].snap = db.visible
             \/ i \in DOMAIN db.saves /\ db'.saves[i] = db.saves[i]
    <3> HIDE DEF n, q
    <3> QED  BY <1>1, <2>2, Opened1 DEF q
  <2>4. Promise!TxBegin
    BY <2>1, <2>3, OpenTxIs DEF Promise!TxBegin
  <2>5. Moves /\ Statement
    BY <1>sound, <1>5, <2>4 DEF Statement, Promise!TxSound
  <2>6. \A w : Seen(db', w) => Seen(db, w)
    BY <2>3 DEF Seen
  <2>7. Nesting' = 0 <=> db'.saves = <<>>
    BY <1>1, <2>1, <2>3
  <2>8. Stack(db', Nesting') /\ db'.relaxed = db.relaxed
    BY <2>1, <2>3
  <2> QED  BY <1>5, <2>5, <2>6, <2>7, <2>8
<1>6. CASE s \in {"end", "unnest"}
  <2>1. n = depth /\ Nesting' = n - 1 /\ n > 0 /\ n - 1 \in Nat
    BY <1>1, <1>2, <1>6 DEF Nesting, StageInv
  <2>2. /\ \/ q.kind \in {"commit", "rollback"} /\ n = 1
           \/ q.kind \in {"release", "rollback_to"} /\ n > 1 /\ q.arg = n - 1
        /\ q.kind \in {"commit", "rollback", "release", "rollback_to"}
    BY <1>1, <1>6, <2>1 DEF SqlInv, StageInv, Sql
  <2>3. /\ Stack(db', n - 1) /\ (n - 1 = 0 <=> db'.saves = <<>>)
        /\ db'.relaxed = db.relaxed
        /\ Opens(db.saves, n) # <<>>
        /\ Opens(db'.saves, n - 1) = Front(Opens(db.saves, n))
        /\ q.kind \in {"commit", "release"} =>
             /\ db'.visible = db.visible
             /\ db'.durable = IF db'.saves = <<>> THEN db.visible ELSE db.durable
        /\ q.kind \in {"rollback", "rollback_to"} =>
             db'.visible = Last(Opens(db.saves, n)) /\ db'.durable = db.durable
        /\ \A i \in DOMAIN db'.saves : i \in DOMAIN db.saves /\ db'.saves[i] = db.saves[i]
        /\ \/ db'.visible = db.visible \/ db'.visible = db.durable
           \/ \E i \in DOMAIN db.saves : db'.visible = db.saves[i].snap
    <3> HIDE DEF n, q
    <3> QED  BY <1>1, <2>2, Closed1 DEF q
  <2>4. Opens(db'.saves, n - 1) = <<>> <=> db'.saves = <<>>
    <3>1. db' \in Dbs
      <4> HIDE DEF q
      <4> QED  BY <1>1, AfterType DEF q
    <3>2. db'.saves \in Seq(Saves) /\ (db'.saves # <<>> => Shaped(db'.saves, n - 1))
      BY <2>3, <3>1 DEF Dbs, Stack
    <3> HIDE DEF n
    <3> QED  BY <2>1, <3>2, OpensType
  <2>5. /\ Promise!TxCommit \/ Promise!TxRollback
        /\ r.verb = "commit" => Promise!TxCommit
        /\ r.verb # "commit" => Promise!TxRollback
    <3>1. OpenTx = Opens(db.saves, n) /\ OpenTx' = Opens(db'.saves, n - 1)
      BY <2>1, OpenTxIs
    <3>2. q.kind \in {"commit", "release"} => Promise!TxCommit
      BY <2>3, <2>4, <3>1 DEF Promise!TxCommit, Promise!Front, Front
    <3>3. q.kind \in {"rollback", "rollback_to"} => Promise!TxRollback
      BY <2>3, <3>1 DEF Promise!TxRollback, Promise!Front, Promise!Last, Front, Last
    <3>4. r.verb = "commit" <=> q.kind \in {"commit", "release"}
      BY <1>1, <1>6 DEF SqlInv, StageInv, Sql
    <3> QED  BY <2>2, <3>2, <3>3, <3>4
  <2>6. Moves /\ Statement
    BY <1>sound, <1>6, <2>5 DEF Statement, Promise!TxSound
  <2>7. db'.durable = db.durable \/ db'.durable = db.visible
    BY <2>2, <2>3
  <2>8. \A w : Seen(db', w) => Seen(db, w)
    BY <2>3, <2>7 DEF Seen
  <2> QED  BY <1>1, <1>6, <2>1, <2>3, <2>6, <2>8
<1> QED  BY <1>1, <1>3, <1>4, <1>5, <1>6 DEF Stages


-----------------------------------------------------------------------------
(* Statements that come after SQLite has taken the transaction back. *)

TxKinds == {"begin", "savepoint", "commit", "rollback", "release", "rollback_to"}

\* They may open transactions of their own, and none of them loses what is durable.
LEMMA TornAfter ==
  ASSUME db \in Dbs, Ground(db), NEW sql \in Sqls, Legal(sql), NEW d, d = After(sql)
  PROVE  /\ Ground(d) /\ db.durable \subseteq d.durable
         /\ \A w : Seen(d, w) => Seen(db, w) \/ (sql.kind = "insert" /\ w = sql.arg)
         /\ sql.kind \in {"commit", "rollback"} => d.saves = <<>>
         /\ sql.kind \notin TxKinds => d.saves = db.saves
         /\ d.relaxed = IF sql.kind = "relax" THEN TRUE
                        ELSE IF sql.kind = "restore" THEN FALSE ELSE db.relaxed
<1> DEFINE s == db.saves
<1>1. s \in Seq(Saves) /\ db.visible \in SUBSET Writes /\ DOMAIN s = 1..Len(s) /\ Len(s) \in Nat
  BY DEF Dbs
<1>2. CASE sql.kind = "insert"
  <2>1. d = [db EXCEPT !.visible = @ \union {sql.arg},
                       !.durable = IF db.saves = <<>> THEN @ \union {sql.arg} ELSE @]
    BY <1>2 DEF After
  <2>2. /\ d.saves = s /\ d.relaxed = db.relaxed /\ d.visible = db.visible \union {sql.arg}
        /\ d.durable = IF s = <<>> THEN db.durable \union {sql.arg} ELSE db.durable
    BY <2>1 DEF Dbs
  <2>3. Ground(d)
    <3>1. s # <<>> => \A i \in DOMAIN s : db.durable \subseteq s[i].snap
      BY DEF Ground
    <3>2. s = <<>> => DOMAIN s = {}
      BY <1>1
    <3> QED  BY <2>2, <3>1, <3>2 DEF Ground
  <2> QED  BY <1>2, <2>2, <2>3 DEF Seen
<1>3. CASE sql.kind \in {"begin", "savepoint"}
  <2>1. PICK n \in Nat : d = Push(n)
    BY <1>3 DEF After, Sqls
  <2> DEFINE new == [name |-> n, snap |-> db.visible]
             t == Append(s, new)
  <2>2. /\ d.saves = t /\ d.visible = db.visible /\ d.durable = db.durable
        /\ d.relaxed = db.relaxed
    BY <2>1 DEF Dbs, Push
  <2>3. new \in Saves /\ new.snap = db.visible
    BY <1>1 DEF Saves
  <2> HIDE DEF new, s
  <2>4. /\ t \in Seq(Saves) /\ t # <<>> /\ Len(t) = Len(s) + 1 /\ t[Len(s) + 1] = new
        /\ \A i \in 1..Len(s) : t[i] = s[i]
    BY <1>1, <2>3, AppendProperties
  <2> HIDE DEF t
  <2>5. \A i \in DOMAIN t : t[i].snap = db.visible \/ (i \in DOMAIN s /\ t[i] = s[i])
    BY <1>1, <2>3, <2>4
  <2>6. Ground(d)
    BY <2>2, <2>4, <2>5 DEF Ground, s
  <2>7. \A w : Seen(d, w) => Seen(db, w)
    BY <2>2, <2>5 DEF Seen, s
  <2> QED  BY <1>3, <2>2, <2>6, <2>7 DEF TxKinds
<1>4. CASE sql.kind = "commit"
  <2>1. /\ d.saves = <<>> /\ d.visible = db.visible /\ d.durable = db.visible
        /\ d.relaxed = db.relaxed
    BY <1>4 DEF After, Dbs
  <2>2. Ground(d)
    BY <2>1 DEF Ground
  <2> QED  BY <1>4, <2>1, <2>2 DEF Seen, Ground, TxKinds
<1>5. CASE sql.kind = "rollback"
  <2>1. /\ d.saves = <<>> /\ d.visible = db.durable /\ d.durable = db.durable
        /\ d.relaxed = db.relaxed
    BY <1>5 DEF After, Dbs
  <2>2. Ground(d)
    BY <2>1 DEF Ground
  <2> QED  BY <1>5, <2>1, <2>2 DEF Seen, TxKinds
<1>6. CASE sql.kind \in {"release", "rollback_to"}
  <2> DEFINE at == LastSave(sql.arg)
             j == IF sql.kind = "release" THEN at - 1 ELSE at
             t == SubSeq(s, 1, j)
  <2>1. at \in DOMAIN s
    BY <1>6, LastSaveFound DEF Legal
  <2>2. /\ d.saves = t /\ d.relaxed = db.relaxed
        /\ sql.kind = "release" =>
             d.visible = db.visible /\ d.durable = IF at = 1 THEN db.visible ELSE db.durable
        /\ sql.kind = "rollback_to" => d.visible = s[at].snap /\ d.durable = db.durable
    <3>1. CASE sql.kind = "release"
      <4>1. d = [db EXCEPT !.saves = SubSeq(@, 1, at - 1),
                           !.durable = IF at = 1 THEN db.visible ELSE @]
        BY <3>1 DEF After
      <4> HIDE DEF at
      <4> QED  BY <3>1, <4>1 DEF Dbs
    <3>2. CASE sql.kind = "rollback_to"
      <4>1. d = [db EXCEPT !.saves = SubSeq(@, 1, at), !.visible = db.saves[at].snap]
        BY <3>2 DEF After
      <4> HIDE DEF at
      <4> QED  BY <3>2, <4>1 DEF Dbs
    <3> QED  BY <1>6, <3>1, <3>2
  <2> HIDE DEF at
  <2>3. j \in 0..Len(s) /\ (sql.kind = "release" /\ at # 1 => j > 0)
        /\ (sql.kind = "rollback_to" => j > 0)
    BY <1>1, <1>6, <2>1
  <2> HIDE DEF j, s
  <2>4. /\ t \in Seq(Saves) /\ Len(t) = j
        /\ \A i \in 1..j : i \in DOMAIN s /\ t[i] = s[i]
    <3>1. \A i \in 1..j : s[i] \in Saves
      BY <1>1, <2>3
    <3>2. /\ SubSeq(s, 1, j) \in Seq(Saves)
          /\ Len(SubSeq(s, 1, j)) = IF 1 <= j THEN j - 1 + 1 ELSE 0
          /\ \A i \in 1..j - 1 + 1 : SubSeq(s, 1, j)[i] = s[1 + i - 1]
      BY <2>3, <3>1, SubSeqProperties, 1 \in Int, j \in Int
    <3> QED  BY <1>1, <2>3, <3>2
  <2> HIDE DEF t
  <2>5. \A i \in DOMAIN t : i \in DOMAIN s /\ t[i] = s[i]
    BY <2>4
  <2>6. t = <<>> => sql.kind = "release" /\ at = 1
    BY <1>6, <2>3, <2>4
  <2>7. /\ db.durable \subseteq db.visible
        /\ \A i \in DOMAIN s : db.durable \subseteq s[i].snap
    BY DEF Ground, s
  <2>8. CASE sql.kind = "release" /\ at = 1
    <3>1. d.visible = db.visible /\ d.durable = db.visible
      BY <2>2, <2>8
    <3>2. t = <<>>
      <4>1. j = 0
        BY <2>8 DEF j
      <4> QED  BY <2>4, <4>1
    <3>3. Ground(d) /\ DOMAIN d.saves = {}
      BY <2>2, <3>1, <3>2 DEF Ground
    <3>4. \A w : Seen(d, w) => Seen(db, w)
      BY <3>1, <3>3 DEF Seen
    <3> QED  BY <2>2, <2>7, <2>8, <3>1, <3>3, <3>4 DEF TxKinds
  <2>9. CASE sql.kind = "release" /\ at # 1
    <3>1. d.visible = db.visible /\ d.durable = db.durable
      BY <2>2, <2>9
    <3>2. Ground(d)
      BY <2>2, <2>5, <2>6, <2>7, <2>9, <3>1 DEF Ground
    <3>3. \A w : Seen(d, w) => Seen(db, w)
      BY <2>2, <2>5, <3>1 DEF Seen, s
    <3> QED  BY <2>2, <2>9, <3>1, <3>2, <3>3 DEF TxKinds
  <2>10. CASE sql.kind = "rollback_to"
    <3>1. d.visible = s[at].snap /\ d.durable = db.durable
      BY <2>2, <2>10
    <3>2. Ground(d)
      BY <2>1, <2>2, <2>5, <2>6, <2>7, <2>10, <3>1 DEF Ground
    <3>3. \A w : Seen(d, w) => Seen(db, w)
      BY <2>1, <2>2, <2>5, <3>1 DEF Seen, s
    <3> QED  BY <2>2, <2>10, <3>1, <3>2, <3>3 DEF TxKinds
  <2> QED  BY <1>6, <2>8, <2>9, <2>10
<1>7. CASE sql.kind \in {"relax", "restore"}
  <2>1. /\ d.saves = db.saves /\ d.visible = db.visible /\ d.durable = db.durable
        /\ d.relaxed = (sql.kind = "relax")
    <3>1. CASE sql.kind = "relax"
      <4>1. d = [db EXCEPT !.relaxed = TRUE]
        BY <3>1 DEF After
      <4> QED  BY <3>1, <4>1 DEF Dbs
    <3>2. CASE sql.kind = "restore"
      <4>1. d = [db EXCEPT !.relaxed = FALSE]
        BY <3>2 DEF After
      <4> QED  BY <3>2, <4>1 DEF Dbs
    <3> QED  BY <1>7, <3>1, <3>2
  <2> QED  BY <1>7, <2>1 DEF Ground, Seen, TxKinds
<1>8. CASE sql.kind \notin TxKinds \union {"insert", "relax", "restore"}
  <2>1. d = db
    BY <1>8 DEF After, TxKinds
  <2> QED  BY <1>8, <2>1 DEF TxKinds
<1> QED  BY <1>2, <1>3, <1>4, <1>5, <1>6, <1>7, <1>8 DEF TxKinds

LEMMA TornStatement ==
  ASSUME BaseInv, TornType, StackInv, torn, torn' = torn, ~conn.closed, wrk = "run",
         cur.stage \notin {"rest", "close"}, call[Worker].pc = "step",
         Took', UNCHANGED <<wrk, cur, depth>>,
         Legal(call[Worker].sql), db' = After(call[Worker].sql)
  PROVE  /\ Rows' /\ (Nesting' = 0 => db'.saves = <<>>)
         /\ Moves /\ db.durable \subseteq db'.durable
         /\ \A w : Seen(db', w) =>
              Seen(db, w) \/ (cur.stage = "run" /\ cur.req.verb = "insert" /\ w = cur.req.arg)
         /\ db'.relaxed = IF cur.stage = "relax" THEN TRUE
                          ELSE IF cur.stage \in {"undo", "restore"} THEN FALSE
                          ELSE db.relaxed
<1> DEFINE q == call[Worker].sql
           s == cur.stage
           r == cur.req
<1>1. /\ db \in Dbs /\ depth \in Nat /\ depth > 0 /\ s \in Stages /\ q \in Sqls
      /\ Ground(db) /\ (Nesting = 0 => db.saves = <<>>)
      /\ SqlInv /\ StageInv
  BY NestingType, SteppingSql, ConnAssumption
     DEF BaseInv, TypeInv, NifType, WorkerType, StackInv, Rows
<1>2. /\ Ground(db') /\ db.durable \subseteq db'.durable
      /\ \A w : Seen(db', w) => Seen(db, w) \/ (q.kind = "insert" /\ w = q.arg)
      /\ q.kind \in {"commit", "rollback"} => db'.saves = <<>>
      /\ q.kind \notin TxKinds => db'.saves = db.saves
      /\ db'.relaxed = IF q.kind = "relax" THEN TRUE
                       ELSE IF q.kind = "restore" THEN FALSE ELSE db.relaxed
  <2> HIDE DEF q
  <2> QED  BY <1>1, TornAfter DEF q
<1>3. /\ q.kind = "insert" => s = "run" /\ r.verb = "insert" /\ q.arg = r.arg
      /\ q.kind = "relax" <=> s = "relax"
      /\ q.kind = "restore" <=> s \in {"undo", "restore"}
      /\ s = "end" => q.kind \in {"commit", "rollback"}
  BY <1>1 DEF SqlInv, StageInv, Sql, Stages
<1>4. Nesting' = 0 => db'.saves = <<>>
  <2>1. s \notin {"end", "restore"} => Nesting' # 0
    BY <1>1 DEF Nesting, StageInv
  <2>2. s = "restore" => Nesting = 0 /\ q.kind = "restore"
    BY <1>3 DEF Nesting
  <2> QED  BY <1>1, <1>2, <1>3, <2>1, <2>2 DEF TxKinds
<1>5. Rows'
  BY <1>2 DEF Rows
<1>6. Moves
  BY <1>2 DEF Moves, Promise!TxNext, Promise!TxBroken, TornType, Ground
<1> QED  BY <1>1, <1>2, <1>3, <1>4, <1>5, <1>6

\* SQLite takes the transaction back, or a statement of one that it has taken back fails.
LEMMA RolledBackRows ==
  ASSUME BaseInv, TornType, StackInv, ~conn.closed, wrk = "run",
         cur.stage \notin {"rest", "close"}, ~Took, ~Took', UNCHANGED <<wrk, cur, depth>>,
         db' = RolledBack, torn' = (torn \/ db.saves # <<>>)
  PROVE  /\ Rows' /\ Moves /\ (torn' => depth > 0)
         /\ db'.saves = <<>> /\ db'.visible = db.durable /\ db'.durable = db.durable
         /\ db'.relaxed = db.relaxed /\ Nesting' = Nesting
         /\ \A w : Seen(db', w) => Seen(db, w)
<1>1. /\ db \in Dbs /\ Nesting \in Nat /\ depth \in Nat /\ Rows
      /\ torn => depth > 0
      /\ Nesting = 0 => db.saves = <<>>
  BY NestingType DEF BaseInv, TypeInv, NifType, WorkerType, StackInv
<1>2. db.saves = <<>> => db.visible = db.durable
  BY <1>1 DEF Rows, Ground, Stack
<1>3. /\ db'.saves = <<>> /\ db'.visible = db.durable /\ db'.durable = db.durable
      /\ db'.relaxed = db.relaxed
  BY <1>1, <1>2 DEF RolledBack, Dbs
<1>4. Nesting' = Nesting
  BY DEF Nesting
<1>5. Rows'
  BY <1>3 DEF Rows, Ground, Stack
<1>6. \A w : Seen(db', w) => Seen(db, w)
  BY <1>3 DEF Seen
<1>7. torn' => depth > 0
  <2>1. Nesting = depth \/ Nesting = 0
    BY DEF Nesting
  <2>2. torn' => torn \/ db.saves # <<>>
    BY Zenon
  <2> QED  BY <1>1, <2>1, <2>2
<1>8. CASE torn
  <2>1. torn' = TRUE
    BY <1>8
  <2>2. Promise!TxBroken
    BY <1>3, <2>1 DEF Promise!TxBroken
  <2>3. Moves
    BY <1>8, <2>2 DEF Moves, Promise!TxNext
  <2> QED  BY <1>3, <1>4, <1>5, <1>6, <1>7, <2>3
<1>9. CASE ~torn /\ db.saves # <<>>
  <2>1. torn' = TRUE
    BY <1>9
  <2>2. OpenTx # <<>>
    <3>1. db.saves \in Seq(Saves) /\ Shaped(db.saves, Nesting)
      BY <1>1, <1>9 DEF Dbs, Rows, Stack
    <3> QED  BY <1>1, <1>9, <3>1, OpensType, OpenTxIs
  <2>3. Promise!TxBreaks
    BY <1>3, <1>9, <2>1, <2>2 DEF Promise!TxBreaks
  <2>4. Moves
    BY <1>9, <2>3 DEF Moves, Promise!TxNext
  <2> QED  BY <1>3, <1>4, <1>5, <1>6, <1>7, <2>4
<1>10. CASE ~torn /\ db.saves = <<>>
  <2>1. torn' = torn
    BY <1>10 DEF TornType
  <2>2. UNCHANGED <<db.durable, db.visible, db.saves>>
    BY <1>2, <1>3, <1>10
  <2>3. Moves
    BY <1>4, <2>1, <2>2, Stutters
  <2> QED  BY <1>3, <1>4, <1>5, <1>6, <1>7, <2>3
<1> QED  BY <1>8, <1>9, <1>10

\* The worker is out of the transaction that SQLite has taken back.
LEMMA Mends ==
  ASSUME BaseInv, StackInv, ~conn.closed, wrk = "run", torn, torn' = FALSE, db' = db,
         Nesting = 0, Nesting' = Nesting
  PROVE  /\ Rows' /\ Moves /\ db.saves = <<>> /\ db.visible = db.durable
         /\ \A w : Seen(db', w) => Seen(db, w)
<1>1. db.saves = <<>> /\ db.visible = db.durable
  BY DEF StackInv, Rows, Ground
<1>2. Rows'
  BY <1>1 DEF Rows, Stack
<1>3. OpenTx' = <<>>
  BY <1>1 DEF OpenTx
<1>4. Promise!TxMends
  BY <1>1, <1>3 DEF Promise!TxMends
<1> QED  BY <1>1, <1>2, <1>4 DEF Moves, Promise!TxNext


-----------------------------------------------------------------------------
(* The worker between two statements, and the clients, leave the rows alone. *)

LEMMA NestingNew ==
  ASSUME call'[Worker].pc # "ret"
  PROVE  Nesting' = IF cur'.stage = "restore" THEN 0 ELSE depth'
BY DEF Nesting, Took

LEMMA WorkerCalls ==
  ASSUME BaseInv
  PROVE  /\ \A stage, r, nif : Runs(stage, r, nif) =>
              cur'.stage = stage /\ cur'.req = r /\ call'[Worker] = nif
         /\ \A r, ok : Reply(r, ok) => cur' = Rests /\ call'[Worker] = Idle
         /\ Rests.stage = "rest" /\ Idle.pc = "idle" /\ CloseCall.pc = "close"
         /\ \A sql : Exec(sql).pc = "enter"
         /\ Query.pc = "enter"
<1>1. call \in [Procs -> Calls] /\ Worker \in Procs
  BY ConnAssumption DEF BaseInv, TypeInv, NifType
<1> QED  BY <1>1, CallTypes DEF Runs, Reply, Rests

\* The stages that Take starts.
LEMMA Taken ==
  ASSUME BaseInv, Take
  PROVE  /\ wrk = "run" /\ wrk' = "run" /\ cur.stage = "rest" /\ inbox # <<>>
         /\ inbox' = Tail(inbox)
         /\ UNCHANGED <<conn, db, depth, level, ruOn, torn, fresh, unrestored>>
         /\ cur'.stage \in {"rest", "relax", "begin", "nest", "unnest", "end", "run", "create", "close"}
         /\ cur'.stage = "run" /\ cur'.req.verb = "insert" => cur'.req = Head(inbox)
         /\ call'[Worker].pc \in {"idle", "enter", "close"}
<1>1. /\ wrk = "run" /\ wrk' = "run" /\ cur.stage = "rest" /\ inbox # <<>>
      /\ inbox' = Tail(inbox)
      /\ UNCHANGED <<conn, db, depth, level, ruOn, torn, fresh, unrestored>>
  BY DEF Take, Rests, inputVars
<1>2. PICK r : /\ r = Head(inbox)
               /\ StartBegin(r) \/ StartEnd(r) \/ StartOther(r)
  BY DEF Take
<1>3. \/ \E ok : Reply(r, ok)
      \/ \E stage \in {"relax", "begin", "nest", "unnest", "end", "run", "create", "close"} :
           \E nif : Runs(stage, r, nif) /\ nif.pc \in {"enter", "close"}
  BY <1>2, WorkerCalls DEF StartBegin, StartEnd, StartOther
<1>4. CASE \E ok : Reply(r, ok)
  BY <1>1, <1>4, WorkerCalls
<1>5. CASE \E stage \in {"relax", "begin", "nest", "unnest", "end", "run", "create", "close"} :
             \E nif : Runs(stage, r, nif) /\ nif.pc \in {"enter", "close"}
  BY <1>1, <1>2, <1>5, WorkerCalls
<1> QED  BY <1>3, <1>4, <1>5

\* An answer that is not the last, or the next statement of the same request.
LEMMA Went ==
  ASSUME BaseInv,
         RunDone \/ CreateDone \/ RelaxDone \/ BeginDone \/ UndoDone \/ NestDone \/ EndDone
         \/ RestoreDone
  PROVE  /\ wrk = "run" /\ wrk' = "run" /\ call[Worker].pc = "ret"
         /\ Result(cur.stage) /\ cur.stage \notin {"rest", "close"}
         /\ call'[Worker].pc \in {"idle", "enter"} /\ call[Worker].ret # "badarg"
         /\ UNCHANGED <<conn, db, fresh, inbox>>
         /\ Nesting' = Nesting
         /\ cur'.stage = "rest" \/ cur'.req = cur.req
         /\ cur'.stage = "run" => cur.stage = "create"
<1>0. StageInv /\ depth \in Nat /\ (Took <=> call[Worker].pc = "ret" /\ Ok)
  BY DEF BaseInv, TypeInv, WorkerType, Took
<1>1. CASE RunDone \/ CreateDone \/ RelaxDone \/ UndoDone
  <2>1. /\ cur.stage \in {"run", "create", "relax", "undo"} /\ Result(cur.stage)
        /\ SameTx /\ Stays
        /\ \/ \E ok : Reply(cur.req, ok)
           \/ \E nif : Runs("run", cur.req, nif) /\ nif.pc = "enter" /\ cur.stage = "create"
           \/ \E nif : Runs("begin", cur.req, nif) /\ nif.pc = "enter"
    BY <1>1, WorkerCalls DEF RunDone, CreateDone, RelaxDone, UndoDone, Result
  <2>2. /\ call'[Worker].pc \in {"idle", "enter"} /\ cur'.stage \in {"rest", "run", "begin"}
        /\ cur'.stage = "rest" \/ cur'.req = cur.req
        /\ cur'.stage = "run" => cur.stage = "create"
    BY <2>1, WorkerCalls
  <2>3. Nesting' = depth' /\ depth' = depth
    BY <2>1, <2>2, NestingNew DEF SameTx
  <2>4. Nesting = depth
    BY <2>1 DEF Nesting
  <2> QED  BY <2>1, <2>2, <2>3, <2>4 DEF Result, Stays
<1>2. CASE BeginDone
  <2>1. /\ cur.stage = "begin" /\ Result(cur.stage) /\ Stays
        /\ \/ (\E ok : Reply(cur.req, ok)) /\ Ok /\ depth' = 1
           \/ (\E ok : Reply(cur.req, ok)) /\ ~Ok /\ depth' = depth
           \/ (\E nif : Runs("undo", cur.req, nif) /\ nif.pc = "enter") /\ ~Ok /\ depth' = depth
    BY <1>2, WorkerCalls DEF BeginDone, Result, TxState, SameTx
  <2>2. /\ call'[Worker].pc \in {"idle", "enter"} /\ cur'.stage \in {"rest", "undo"}
        /\ cur'.stage = "rest" \/ cur'.req = cur.req
    BY <2>1, WorkerCalls
  <2>3. Nesting' = depth'
    BY <2>2, NestingNew
  <2>4. Nesting = IF Ok THEN 1 ELSE depth
    BY <1>0, <2>1 DEF Nesting, Result
  <2> QED  BY <2>1, <2>2, <2>3, <2>4 DEF Result, Stays
<1>3. CASE NestDone
  <2>1. /\ cur.stage \in {"nest", "unnest"} /\ Result(cur.stage) /\ Stays
        /\ \E ok : Reply(cur.req, ok)
        /\ depth' = IF ~Ok THEN depth ELSE IF cur.stage = "nest" THEN depth + 1 ELSE depth - 1
    BY <1>3 DEF NestDone, Result, TxState
  <2>2. call'[Worker].pc = "idle" /\ cur'.stage = "rest"
    BY <2>1, WorkerCalls
  <2>3. Nesting' = depth'
    BY <2>2, NestingNew
  <2>4. Nesting = IF ~Ok THEN depth ELSE IF cur.stage = "nest" THEN depth + 1 ELSE depth - 1
    BY <1>0, <2>1 DEF Nesting, Result
  <2> QED  BY <2>1, <2>2, <2>3, <2>4 DEF Result, Stays
<1>4. CASE EndDone
  <2>1. /\ cur.stage = "end" /\ Result(cur.stage) /\ Stays
        /\ \/ (\E nif : Runs("restore", cur.req, nif) /\ nif.pc = "enter") /\ Ok
           \/ (\E ok : Reply(cur.req, ok)) /\ Ok /\ depth' = 0
           \/ (\E ok : Reply(cur.req, ok)) /\ ~Ok /\ depth' = depth
    BY <1>4, WorkerCalls DEF EndDone, Result, TxState, SameTx
  <2>2. /\ call'[Worker].pc \in {"idle", "enter"} /\ cur'.stage \in {"rest", "restore"}
        /\ cur'.stage = "rest" \/ cur'.req = cur.req
    BY <2>1, WorkerCalls
  <2>3. Nesting' = IF Ok THEN 0 ELSE depth
    BY <2>1, <2>2, NestingNew, WorkerCalls
  <2>4. Nesting = IF Ok THEN 0 ELSE depth
    BY <1>0, <2>1 DEF Nesting, Result
  <2> QED  BY <2>1, <2>2, <2>3, <2>4 DEF Result, Stays
<1>5. CASE RestoreDone
  <2>1. /\ cur.stage = "restore" /\ Result(cur.stage) /\ Stays
        /\ \E ok : Reply(cur.req, ok)
        /\ depth' = 0
    BY <1>5 DEF RestoreDone, Result, TxState
  <2>2. call'[Worker].pc = "idle" /\ cur'.stage = "rest"
    BY <2>1, WorkerCalls
  <2>3. Nesting' = 0 /\ Nesting = 0
    BY <2>1, <2>2, NestingNew DEF Nesting
  <2> QED  BY <2>1, <2>2, <2>3 DEF Result, Stays
<1> QED  BY <1>1, <1>2, <1>3, <1>4, <1>5

\* With the last level the transaction that SQLite took back is over.
LEMMA WentTorn ==
  ASSUME BaseInv, TornType, torn => depth > 0,
         RunDone \/ CreateDone \/ RelaxDone \/ BeginDone \/ UndoDone \/ NestDone \/ EndDone
         \/ RestoreDone
  PROVE  /\ torn' = torn \/ (torn /\ torn' = FALSE /\ Nesting = 0 /\ depth' = 0)
         /\ torn' => depth' > 0
<1>0. StageInv /\ depth \in Nat /\ (Took <=> call[Worker].pc = "ret" /\ Ok)
  BY DEF BaseInv, TypeInv, WorkerType, Took
<1>1. CASE SameTx
  BY <1>1 DEF SameTx
<1>2. ASSUME NEW d \in Nat, NEW l, NEW ru, TxState(d, l, ru), d = 0 => Nesting = 0
      PROVE  /\ torn' = torn \/ (torn /\ torn' = FALSE /\ Nesting = 0 /\ depth' = 0)
             /\ torn' => depth' > 0
  <2>1. (torn' <=> torn /\ d > 0) /\ depth' = d /\ torn' \in BOOLEAN
    BY <1>2, Zenon DEF TxState
  <2>2. CASE d > 0
    <3>1. torn' = torn
      BY <2>1, <2>2 DEF TornType
    <3> QED  BY <2>1, <2>2, <3>1
  <2>3. CASE d = 0
    <3>1. torn' = FALSE
      BY <2>1, <2>3
    <3>2. torn = TRUE \/ torn = FALSE
      BY DEF TornType
    <3>3. Nesting = 0 /\ depth' = 0
      BY <1>2, <2>1, <2>3
    <3>4. torn' = torn \/ (torn /\ torn' = FALSE /\ Nesting = 0 /\ depth' = 0)
      BY <3>1, <3>2, <3>3, Zenon
    <3>5. ~torn'
      BY <3>1, Zenon
    <3> QED  BY <3>4, <3>5
  <2>4. d > 0 \/ d = 0
    BY <1>2
  <2> QED  BY <2>2, <2>3, <2>4, Zenon
<1>3. CASE RunDone \/ CreateDone \/ RelaxDone \/ UndoDone
  BY <1>1, <1>3 DEF RunDone, CreateDone, RelaxDone, UndoDone
<1>4. CASE BeginDone
  BY <1>1, <1>2, <1>4, 1 \in Nat, 1 # 0 DEF BeginDone
<1>5. CASE NestDone
  <2>1. PICK d \in Nat : d > 0 /\ TxState(d, level, ruOn)
    <3>1. CASE Result("nest") /\ TxState(IF Ok THEN depth + 1 ELSE depth, level, ruOn)
      <4>1. cur.stage = "nest"
        BY <3>1 DEF Result
      <4>2. (IF Ok THEN depth + 1 ELSE depth) \in Nat /\ (IF Ok THEN depth + 1 ELSE depth) > 0
        BY <1>0, <4>1 DEF StageInv
      <4> QED  BY <3>1, <4>2
    <3>2. CASE Result("unnest") /\ TxState(IF Ok THEN depth - 1 ELSE depth, level, ruOn)
      <4>1. cur.stage = "unnest"
        BY <3>2 DEF Result
      <4>2. (IF Ok THEN depth - 1 ELSE depth) \in Nat /\ (IF Ok THEN depth - 1 ELSE depth) > 0
        BY <1>0, <4>1 DEF StageInv
      <4> QED  BY <3>2, <4>2
    <3> QED  BY <1>5, <3>1, <3>2 DEF NestDone
  <2>2. d = 0 => Nesting = 0
    BY <2>1
  <2> QED  BY <1>2, <2>1, <2>2
<1>6. CASE EndDone
  <2>1. cur.stage = "end" /\ call[Worker].pc = "ret"
    BY <1>6 DEF EndDone, Result
  <2>2. Ok => Nesting = 0
    BY <1>0, <2>1 DEF Nesting
  <2> QED  BY <1>1, <1>2, <1>6, <2>2, 0 \in Nat DEF EndDone
<1>7. CASE RestoreDone
  <2>1. Nesting = 0
    BY <1>7 DEF RestoreDone, Result, Nesting
  <2> QED  BY <1>2, <1>7, <2>1, 0 \in Nat DEF RestoreDone
<1> QED  BY <1>3, <1>4, <1>5, <1>6, <1>7

\* The worker ends.
LEMMA Ended ==
  ASSUME BaseInv, AliveInv, StackInv, Crash \/ CloseDone
  PROVE  /\ wrk = "run" /\ wrk' = "dead" /\ inbox' = <<>> /\ cur' = Rests
         /\ UNCHANGED <<conn, db, fresh, depth, torn>>
         /\ Nesting' = Nesting \/ db.saves = <<>>
<1>1. /\ wrk = "run" /\ wrk' = "dead" /\ inbox' = <<>>
      /\ UNCHANGED <<conn, db, fresh, depth, torn>>
  BY DEF Crash, CloseDone, Result, WorkerEnds, SameTx, inputVars
<1>2. cur' = Rests /\ call'[Worker] = Idle
  <2>1. call \in [Procs -> Calls] /\ Worker \in Procs
    BY ConnAssumption DEF BaseInv, TypeInv, NifType
  <2> QED  BY <2>1 DEF Crash, CloseDone, Reply
<1>3. Nesting' = depth
  BY <1>1, <1>2, NestingNew, WorkerCalls
<1>4. Nesting = depth \/ cur.stage = "restore"
  <2>1. ~Took \/ cur.stage \in {"rest", "close"}
    <3>1. CASE Crash
      <4>1. cur = Rests \/ call[Worker].ret = "badarg"
        BY <3>1 DEF Crash
      <4> QED  BY <4>1, WorkerCalls DEF Took, Ok
    <3>2. CASE CloseDone
      BY <3>2 DEF CloseDone, Result
    <3> QED  BY <3>1, <3>2
  <2> QED  BY <2>1 DEF Nesting
<1>5. cur.stage = "restore" => db.saves = <<>>
  BY <1>1 DEF AliveInv, StackInv, Nesting
<1> QED  BY <1>1, <1>2, <1>3, <1>4, <1>5


\* Nothing but an insert that was there stands in the mailbox.
InboxKept ==
  \A i \in DOMAIN inbox' : inbox'[i].verb = "insert" =>
    i \in DOMAIN inbox /\ inbox[i].verb = "insert" /\ inbox'[i].arg = inbox[i].arg

\* The client inserts a row nobody has tried.
Tried(w) ==
  /\ w \in fresh /\ fresh' = fresh \ {w}
  /\ \/ InboxKept
     \/ \E r : r.verb = "insert" /\ r.arg = w /\ inbox' = Append(inbox, r)

LEMMA SendKeeps ==
  ASSUME BaseInv, NEW c \in Clients, NEW verb \in Waiting, NEW arg, NEW val, Send(c, verb, arg, val)
  PROVE  /\ UNCHANGED <<conn, db, call, depth, level, ruOn, torn, unrestored, cur, wrk>>
         /\ \A d \in Clients : cl'[d].pc \in {"opening", "pragmas"} => cl'[d].pc = cl[d].pc
         /\ verb # "insert" => InboxKept
         /\ InboxKept \/ \E r : r.verb = verb /\ r.arg = arg /\ inbox' = Append(inbox, r)
<1>1. UNCHANGED <<conn, db, call, depth, level, ruOn, torn, unrestored, cur, wrk>>
  BY DEF Send, nifVars
<1>2. \A d \in Clients : cl'[d].pc \in {"opening", "pragmas"} => cl'[d].pc = cl[d].pc
  <2>1. cl \in [Clients -> [pc : ClientPcs, frames : Seq(FrameSet)]]
    BY DEF BaseInv, TypeInv, ClientType
  <2> QED  BY <2>1 DEF Send, Waiting
<1>3. inbox \in Seq(Reqs)
  BY DEF BaseInv, TypeInv, WorkerType
<1>4. CASE inbox' = inbox
  BY <1>1, <1>2, <1>4 DEF InboxKept
<1>5. CASE inbox' = Append(inbox, Request(c, verb, arg, val))
  <2> DEFINE r == Request(c, verb, arg, val)
  <2>1. r.verb = verb /\ r.arg = arg
    BY DEF Request
  <2>2. verb # "insert" => InboxKept
    <3> SUFFICES ASSUME verb # "insert" PROVE InboxKept
      OBVIOUS
    <3> SUFFICES ASSUME NEW i \in DOMAIN inbox', inbox'[i].verb = "insert"
                 PROVE  i \in DOMAIN inbox /\ inbox[i].verb = "insert" /\ inbox'[i].arg = inbox[i].arg
      BY DEF InboxKept
    <3> HIDE DEF r
    <3>1. inbox' = Append(inbox, r)
      BY <1>5 DEF r
    <3>2. DOMAIN inbox' = 1..Len(inbox) + 1 /\ DOMAIN inbox = 1..Len(inbox) /\ Len(inbox) \in Nat
          /\ inbox'[Len(inbox) + 1] = r
          /\ \A k \in 1..Len(inbox) : inbox'[k] = inbox[k]
      BY <1>3, <3>1
    <3> QED  BY <2>1, <3>2
  <2> QED  BY <1>1, <1>2, <1>5, <2>1, <2>2
<1> QED  BY <1>4, <1>5 DEF Send

LEMMA OrphansKept ==
  ASSUME BaseInv, NEW c \in Clients, GaveUp(c)
  PROVE  /\ cur'.stage = cur.stage
         /\ cur.stage # "rest" => cur'.req.verb = cur.req.verb /\ cur'.req.arg = cur.req.arg
         /\ InboxKept
<1>1. inbox \in Seq(Reqs) /\ cur \in [req : Reqs \union {None}, stage : Stages]
      /\ (cur.stage # "rest" => cur.req \in Reqs)
  BY DEF BaseInv, TypeInv, WorkerType
<1>2. cur'.stage = cur.stage /\ (cur.stage # "rest" => cur'.req = Orphan(c, cur.req))
  BY <1>1 DEF GaveUp
<1>3. cur.stage # "rest" => cur'.req.verb = cur.req.verb /\ cur'.req.arg = cur.req.arg
  BY <1>1, <1>2, OrphanType
<1>4. \A i \in DOMAIN inbox : inbox[i] \in Reqs
  BY <1>1
<1>5. DOMAIN inbox' = DOMAIN inbox /\ \A i \in DOMAIN inbox : inbox'[i] = Orphan(c, inbox[i])
  BY DEF GaveUp
<1>6. InboxKept
  BY <1>4, <1>5, OrphanType DEF InboxKept
<1> QED  BY <1>2, <1>3, <1>6

LEMMA ClientKeeps ==
  ASSUME BaseInv, NEW c \in Clients, ClientStep(c)
  PROVE  /\ UNCHANGED <<conn, db, depth, level, ruOn, torn, unrestored>>
         /\ call'[Worker] = call[Worker]
         /\ cur'.stage = cur.stage
         /\ cur.stage # "rest" => cur'.req.verb = cur.req.verb /\ cur'.req.arg = cur.req.arg
         /\ wrk' = wrk \/ (wrk = "none" /\ wrk' = "run" /\ cl[c].pc = "pragmas")
         /\ \A d \in Clients : cl'[d].pc \in {"opening", "pragmas"} =>
              cl[d].pc \in {"opening", "pragmas"} \/ conn.res = "none"
         /\ (fresh' = fresh /\ InboxKept) \/ \E w : Tried(w)
<1>0. cl \in [Clients -> [pc : ClientPcs, frames : Seq(FrameSet)]]
      /\ call \in [Procs -> Calls] /\ c # Worker
  BY ConnAssumption DEF BaseInv, TypeInv, ClientType, NifType
<1>1. CASE Connect(c) \/ Opened(c) \/ Ready(c) \/ Abandoned(c)
  <2>1. /\ UNCHANGED <<conn, db, depth, level, ruOn, torn, unrestored, cur, inbox, fresh>>
        /\ \E n : call' = [call EXCEPT ![c] = n]
        /\ \E pc : cl' = [cl EXCEPT ![c].pc = pc]
        /\ cl[c].pc \in {"opening", "pragmas"} \/ conn.res = "none" \/ cl[c].pc = "abandon"
        /\ cl[c].pc = "abandon" => cl'[c].pc = "idle"
        /\ wrk' = wrk \/ (wrk' = "run" /\ cl[c].pc = "pragmas")
    BY <1>0, <1>1 DEF Connect, Opened, Ready, Abandoned, adapterVars, ghostVars, inputVars
  <2>2. call'[Worker] = call[Worker]
    BY <1>0, <2>1, ConnAssumption
  <2>3. \A d \in Clients : d # c => cl'[d].pc = cl[d].pc
    BY <1>0, <2>1
  <2>4. InboxKept
    BY <2>1 DEF InboxKept
  <2>5. cl[c].pc = "pragmas" => wrk = "none"
    BY DEF BaseInv, WhoInv, Opening, TypeInv, WorkerType
  <2> QED  BY <2>1, <2>2, <2>3, <2>4, <2>5
<1>2. ASSUME NEW w \in Writes, NEW v \in Values, Insert(c, w, v)
      PROVE  /\ UNCHANGED <<conn, db, call, depth, level, ruOn, torn, unrestored, cur, wrk>>
             /\ \A d \in Clients : cl'[d].pc \in {"opening", "pragmas"} => cl'[d].pc = cl[d].pc
             /\ Tried(w)
  <2>1. Send(c, "insert", w, v) /\ "insert" \in Waiting /\ w \in fresh /\ fresh' = fresh \ {w}
    BY <1>2 DEF Insert, Waiting
  <2> QED  BY <2>1, SendKeeps DEF Tried
<1>3. CASE Read(c) \/ Begin(c) \/ End(c) \/ CloseHandle(c)
  <2>1. PICK verb \in Waiting \ {"insert"} : (\E arg, val : Send(c, verb, arg, val)) /\ fresh' = fresh
    BY <1>3 DEF Read, Begin, End, CloseHandle, Waiting
  <2>2. /\ UNCHANGED <<conn, db, call, depth, level, ruOn, torn, unrestored, cur, wrk>>
        /\ \A d \in Clients : cl'[d].pc \in {"opening", "pragmas"} => cl'[d].pc = cl[d].pc
        /\ InboxKept
    BY <2>1, SendKeeps
  <2> QED  BY <2>1, <2>2
<1>4. CASE \/ \E verb \in {"commit", "rollback"} : NotFound(c, verb)
           \/ Down(c) \/ Timeout(c) \/ Unregister(c) \/ Die(c)
  <2>1. /\ UNCHANGED <<conn, db, call, depth, level, ruOn, torn, unrestored, wrk, fresh>>
        /\ UNCHANGED <<cur, inbox>> \/ GaveUp(c)
    BY <1>4 DEF NotFound, Down, Timeout, Unregister, Die, nifVars, adapterVars, inputVars
  <2>2. \A d \in Clients : cl'[d].pc \in {"opening", "pragmas"} => cl'[d].pc = cl[d].pc
    <3>1. CASE \E verb, arg, ok : Answered(c, verb, arg, ok)
      BY <1>0, <3>1 DEF Answered
    <3>2. CASE Unregister(c)
      BY <1>0, <3>2 DEF Unregister
    <3>3. CASE Die(c)
      BY <1>0, <3>3 DEF Die
    <3> QED  BY <1>4, <3>1, <3>2, <3>3 DEF NotFound, Down, Timeout
  <2>3. UNCHANGED <<cur, inbox>> => InboxKept
    BY DEF InboxKept
  <2> QED  BY <2>1, <2>2, <2>3, OrphansKept
<1> QED  BY <1>1, <1>2, <1>3, <1>4 DEF ClientStep


-----------------------------------------------------------------------------
(* The invariant, and the refinement step by step. *)

TxsInv == BaseInv /\ TornType /\ RelaxInv /\ AliveInv /\ StackInv /\ FreshInv

\* Nothing new is seen, and no insert is on its way that was not before.
LEMMA FreshKept ==
  ASSUME FreshInv, \A w : Seen(db', w) => Seen(db, w), fresh' = fresh, InboxKept,
         Unserved' /\ cur'.req.verb = "insert" =>
           Unserved /\ cur.req.verb = "insert" /\ cur'.req.arg = cur.req.arg
  PROVE  FreshInv'
<1>1. \A w \in fresh' : ~Seen(db', w)
  BY DEF FreshInv
<1>2. ASSUME NEW i \in DOMAIN inbox', inbox'[i].verb = "insert"
      PROVE  /\ ~Seen(db', inbox[i].arg) /\ ~Seen(db', inbox'[i].arg) /\ inbox'[i].arg \notin fresh'
             /\ \A j \in DOMAIN inbox' :
                  inbox'[j].verb = "insert" /\ inbox'[j].arg = inbox'[i].arg => i = j
             /\ Unserved' /\ cur'.req.verb = "insert" => cur'.req.arg # inbox'[i].arg
  <2>1. i \in DOMAIN inbox /\ inbox[i].verb = "insert" /\ inbox'[i].arg = inbox[i].arg
    BY <1>2 DEF InboxKept
  <2>2. ~Seen(db, inbox[i].arg) /\ inbox[i].arg \notin fresh
    BY <2>1 DEF FreshInv
  <2>3. ~Seen(db', inbox[i].arg) /\ ~Seen(db', inbox'[i].arg)
    BY <2>1, <2>2
  <2>4. \A j \in DOMAIN inbox' :
          inbox'[j].verb = "insert" /\ inbox'[j].arg = inbox'[i].arg => i = j
    BY <2>1 DEF FreshInv, InboxKept
  <2>5. Unserved' /\ cur'.req.verb = "insert" => cur'.req.arg # inbox'[i].arg
    BY <2>1 DEF FreshInv
  <2> QED  BY <2>1, <2>2, <2>3, <2>4, <2>5
<1>3. Unserved' /\ cur'.req.verb = "insert" => ~Seen(db', cur'.req.arg) /\ cur'.req.arg \notin fresh'
  BY DEF FreshInv
<1> QED  BY <1>1, <1>2, <1>3 DEF FreshInv


\* The insert at the head of the mailbox is what the worker serves next.
LEMMA FreshTake ==
  ASSUME BaseInv, FreshInv, Take
  PROVE  FreshInv'
<1>1. /\ cur.stage = "rest" /\ inbox # <<>> /\ inbox' = Tail(inbox)
      /\ db' = db /\ fresh' = fresh
      /\ cur'.stage = "run" /\ cur'.req.verb = "insert" => cur'.req = Head(inbox)
  BY Taken
<1>2. /\ inbox \in Seq(Reqs) /\ Head(inbox) = inbox[1] /\ 1 \in DOMAIN inbox
      /\ \A i \in DOMAIN inbox' : i + 1 \in DOMAIN inbox /\ inbox'[i] = inbox[i + 1] /\ i \in Nat
      /\ \A i \in DOMAIN inbox' : i + 1 # 1
  <2>1. inbox \in Seq(Reqs) /\ Len(inbox) > 0
    BY <1>1 DEF BaseInv, TypeInv, WorkerType
  <2>2. Len(inbox') = Len(inbox) - 1 /\ \A i \in 1..Len(inbox) - 1 : inbox'[i] = inbox[i + 1]
    BY <1>1, <2>1
  <2>3. DOMAIN inbox' = 1..Len(inbox) - 1 /\ DOMAIN inbox = 1..Len(inbox) /\ Len(inbox) \in Nat
    BY <1>1, <2>1
  <2> QED  BY <2>1, <2>2, <2>3
<1>3. ASSUME NEW i \in DOMAIN inbox', inbox'[i].verb = "insert"
      PROVE  /\ ~Seen(db', inbox'[i].arg) /\ inbox'[i].arg \notin fresh'
             /\ \A j \in DOMAIN inbox' :
                  inbox'[j].verb = "insert" /\ inbox'[j].arg = inbox'[i].arg => i = j
             /\ Unserved' /\ cur'.req.verb = "insert" => cur'.req.arg # inbox'[i].arg
  <2>1. i + 1 \in DOMAIN inbox /\ inbox[i + 1].verb = "insert" /\ inbox'[i] = inbox[i + 1]
    BY <1>2, <1>3
  <2>2. ~Seen(db', inbox'[i].arg) /\ inbox'[i].arg \notin fresh'
    BY <1>1, <2>1 DEF FreshInv
  <2>3. ASSUME NEW j \in DOMAIN inbox', inbox'[j].verb = "insert", inbox'[j].arg = inbox'[i].arg
        PROVE  i = j
    <3>1. j + 1 \in DOMAIN inbox /\ inbox[j + 1].verb = "insert" /\ inbox[j + 1].arg = inbox[i + 1].arg
      BY <1>2, <2>1, <2>3
    <3>2. i + 1 = j + 1
      BY <2>1, <3>1 DEF FreshInv
    <3> QED  BY <1>2, <3>2
  <2>4. Unserved' /\ cur'.req.verb = "insert" => cur'.req.arg # inbox'[i].arg
    <3> SUFFICES ASSUME Unserved', cur'.req.verb = "insert", inbox[1].arg = inbox[i + 1].arg
                 PROVE  FALSE
      BY <1>1, <1>2, <2>1 DEF Unserved
    <3>1. inbox[1].verb = "insert"
      BY <1>1, <1>2 DEF Unserved
    <3>2. 1 = i + 1
      BY <1>2, <2>1, <3>1 DEF FreshInv
    <3> QED  BY <1>2, <3>2
  <2> QED  BY <2>2, <2>3, <2>4
<1>4. Unserved' /\ cur'.req.verb = "insert" => ~Seen(db', cur'.req.arg) /\ cur'.req.arg \notin fresh'
  <2> SUFFICES ASSUME Unserved', cur'.req.verb = "insert"
               PROVE  ~Seen(db', cur'.req.arg) /\ cur'.req.arg \notin fresh'
    OBVIOUS
  <2>1. cur'.req = inbox[1]
    BY <1>1, <1>2 DEF Unserved
  <2> QED  BY <1>1, <1>2, <2>1 DEF FreshInv
<1>5. \A w \in fresh' : ~Seen(db', w)
  BY <1>1 DEF FreshInv
<1> QED  BY <1>3, <1>4, <1>5 DEF FreshInv

LEMMA FreshTried ==
  ASSUME BaseInv, FreshInv, NEW w, Tried(w), db' = db, call'[Worker] = call[Worker],
         cur'.stage = cur.stage,
         cur.stage # "rest" => cur'.req.verb = cur.req.verb /\ cur'.req.arg = cur.req.arg
  PROVE  FreshInv'
<1>1. Unserved' /\ cur'.req.verb = "insert" =>
        Unserved /\ cur.req.verb = "insert" /\ cur'.req.arg = cur.req.arg
  BY DEF Unserved
<1>2. fresh' \subseteq fresh /\ w \in fresh /\ w \notin fresh' /\ inbox \in Seq(Reqs)
  BY DEF Tried, BaseInv, TypeInv, WorkerType
<1>3. \A v \in fresh' : ~Seen(db', v)
  BY <1>2 DEF FreshInv
<1>4. Unserved' /\ cur'.req.verb = "insert" => ~Seen(db', cur'.req.arg) /\ cur'.req.arg \notin fresh'
  BY <1>1, <1>2 DEF FreshInv
<1>5. /\ \A i \in DOMAIN inbox' : inbox'[i].verb = "insert" =>
           \/ /\ i \in DOMAIN inbox /\ inbox[i].verb = "insert"
              /\ inbox'[i].arg = inbox[i].arg
           \/ inbox'[i].arg = w /\ i = Len(inbox) + 1
      /\ DOMAIN inbox = 1..Len(inbox)
  <2>1. CASE InboxKept
    BY <1>2, <2>1 DEF InboxKept
  <2>2. ASSUME NEW r, r.verb = "insert", r.arg = w, inbox' = Append(inbox, r)
        PROVE  \A i \in DOMAIN inbox' :
                 \/ i \in DOMAIN inbox /\ inbox'[i] = inbox[i]
                 \/ inbox'[i].arg = w /\ i = Len(inbox) + 1
    <3>1. DOMAIN inbox' = 1..Len(inbox) + 1 /\ DOMAIN inbox = 1..Len(inbox) /\ Len(inbox) \in Nat
          /\ inbox'[Len(inbox) + 1] = r
          /\ \A k \in 1..Len(inbox) : inbox'[k] = inbox[k]
      BY <1>2, <2>2
    <3> QED  BY <2>2, <3>1
  <2> QED  BY <1>2, <2>1, <2>2 DEF Tried
<1>6. ASSUME NEW i \in DOMAIN inbox', inbox'[i].verb = "insert"
      PROVE  /\ ~Seen(db', inbox'[i].arg) /\ inbox'[i].arg \notin fresh'
             /\ \A j \in DOMAIN inbox' :
                  inbox'[j].verb = "insert" /\ inbox'[j].arg = inbox'[i].arg => i = j
             /\ Unserved' /\ cur'.req.verb = "insert" => cur'.req.arg # inbox'[i].arg
  <2>1. \A j \in DOMAIN inbox : inbox[j].verb = "insert" =>
          ~Seen(db, inbox[j].arg) /\ inbox[j].arg \notin fresh
    BY DEF FreshInv
  <2>2. ~Seen(db', inbox'[i].arg) /\ inbox'[i].arg \notin fresh'
    BY <1>2, <1>5, <1>6, <2>1 DEF FreshInv
  <2>3. \A j \in DOMAIN inbox' :
          inbox'[j].verb = "insert" /\ inbox'[j].arg = inbox'[i].arg => i = j
    BY <1>2, <1>5, <1>6, <2>1 DEF FreshInv
  <2>4. Unserved' /\ cur'.req.verb = "insert" => cur'.req.arg # inbox'[i].arg
    <3>1. Unserved /\ cur.req.verb = "insert" => cur.req.arg \notin fresh
      BY DEF FreshInv
    <3>2. i \in DOMAIN inbox /\ inbox[i].verb = "insert" /\ Unserved /\ cur.req.verb = "insert" =>
            cur.req.arg # inbox[i].arg
      BY DEF FreshInv
    <3> QED  BY <1>1, <1>2, <1>5, <1>6, <3>1, <3>2
  <2> QED  BY <2>2, <2>3, <2>4
<1> QED  BY <1>3, <1>4, <1>6 DEF FreshInv

\* The row of the insert that the worker serves is seen, and no other.
LEMMA FreshServed ==
  ASSUME FreshInv, NEW w, Unserved, cur.req.verb = "insert", w = cur.req.arg,
         \A v : Seen(db', v) => Seen(db, v) \/ v = w,
         ~Unserved', UNCHANGED <<fresh, inbox>>
  PROVE  FreshInv'
<1>1. w \notin fresh
  BY DEF FreshInv
<1>2. \A v \in fresh' : ~Seen(db', v)
  BY <1>1 DEF FreshInv
<1>3. \A i \in DOMAIN inbox : inbox[i].verb = "insert" => inbox[i].arg # w
  BY DEF FreshInv
<1>4. \A i \in DOMAIN inbox' : inbox'[i].verb = "insert" =>
        /\ ~Seen(db', inbox'[i].arg) /\ inbox'[i].arg \notin fresh'
        /\ \A j \in DOMAIN inbox' :
             inbox'[j].verb = "insert" /\ inbox'[j].arg = inbox'[i].arg => i = j
  BY <1>3 DEF FreshInv
<1> QED  BY <1>2, <1>4 DEF FreshInv

LEMMA LostRows ==
  ASSUME db' = Lost, db \in Dbs, TornType, torn' = torn
  PROVE  /\ Rows' /\ Moves /\ OpenTx' = <<>>
         /\ db'.visible = db.durable /\ db'.durable = db.durable
         /\ db'.saves = <<>> /\ ~db'.relaxed
         /\ \A w : Seen(db', w) => Seen(db, w)
<1>1. /\ db'.visible = db.durable /\ db'.durable = db.durable /\ db'.saves = <<>>
      /\ db'.relaxed = FALSE
  BY DEF Lost, Dbs
<1>2. OpenTx' = <<>>
  BY <1>1, OpenTxIs DEF Opens
<1>3. ~torn => Moves
  <2>1. ~torn => Promise!TxLost
    BY <1>1, <1>2 DEF Promise!TxLost
  <2> QED  BY <2>1 DEF Moves, Promise!TxNext, Promise!TxSound
<1>4. torn => Moves
  <2>1. torn => Promise!TxBroken
    BY <1>1 DEF Promise!TxBroken, TornType
  <2> QED  BY <2>1 DEF Moves, Promise!TxNext
<1>5. Rows'
  BY <1>1 DEF Rows, Ground, Stack
<1> QED  BY <1>1, <1>2, <1>3, <1>4, <1>5 DEF Seen


LEMMA TxsNative ==
  ASSUME TxsInv, Native
  PROVE  Moves /\ RelaxInv' /\ AliveInv' /\ StackInv' /\ FreshInv'
<1>1. /\ BaseInv /\ RelaxInv /\ AliveInv /\ StackInv /\ FreshInv /\ SqlInv /\ db \in Dbs
      /\ TornType
      /\ wrk = "none" => db.saves = <<>>
      /\ cur.stage = "rest" <=> call[Worker].pc = "idle"
  BY DEF TxsInv, BaseInv, TypeInv, NifType, WhoInv, StackInv
<1>2. UNCHANGED <<reg, wrk, inbox, cur, depth, level, ruOn, cl, fresh, unrestored>>
  BY <1>1, NativeCases
<1>3. InboxKept
  BY <1>2 DEF InboxKept
<1>4. CASE /\ db' = db /\ conn'.closed = conn.closed /\ torn' = torn
           /\ call[Worker].pc \in {"idle", "ret"} => call'[Worker] = call[Worker]
           /\ Took' /\ ~Took => cur.stage = "run" /\ cur.req.verb # "insert"
  <2>1. Took => Took'
    BY <1>4 DEF Took, Ok
  <2>2. Nesting' = Nesting
    BY <1>2, <1>4, <2>1 DEF Nesting
  <2>3. Rows' /\ Moves /\ \A w : Seen(db', w) => Seen(db, w)
    BY <1>1, <1>4, <2>2, Stutters
  <2>4. StackInv'
    BY <1>1, <1>2, <1>4, <2>2, <2>3 DEF StackInv
  <2>5. AliveInv'
    BY <1>1, <1>2, <1>4 DEF AliveInv
  <2>6. RelaxInv'
    BY <1>1, <1>2, <1>4, <2>1 DEF RelaxInv, LevelOf
  <2>7. FreshInv'
    <3>1. Unserved' => Unserved
      BY <1>2, <1>4 DEF Unserved
    <3> QED  BY <1>1, <1>2, <1>3, <2>3, <3>1, FreshKept
  <2> QED  BY <2>3, <2>4, <2>5, <2>6, <2>7
<1>5. CASE db' = Lost /\ conn'.closed /\ wrk = "run" /\ cur.stage = "close"
           /\ call[Worker].pc = "closing" /\ call'[Worker].pc = "ret" /\ torn' = torn
  <2>1. /\ Rows' /\ Moves /\ db'.saves = <<>> /\ ~db'.relaxed
        /\ \A w : Seen(db', w) => Seen(db, w)
    BY <1>1, <1>5, LostRows
  <2>2. \A c \in Clients : cl[c].pc \notin {"opening", "pragmas"}
    BY <1>1, <1>5 DEF BaseInv, WhoInv, Opening
  <2>3. StackInv' /\ AliveInv' /\ RelaxInv'
    BY <1>1, <1>2, <1>5, <2>1, <2>2 DEF StackInv, AliveInv, RelaxInv
  <2>4. FreshInv'
    <3>1. ~Unserved'
      BY <1>2, <1>5 DEF Unserved
    <3> QED  BY <1>1, <1>2, <1>3, <2>1, <3>1, FreshKept
  <2> QED  BY <2>1, <2>3, <2>4
<1>6. CASE /\ db' = Lost /\ wrk = "none" /\ call'[Worker] = call[Worker] /\ torn' = torn
           /\ \E c \in Clients : cl[c].pc = "abandon"
  <2>1. /\ Rows' /\ Moves /\ db'.saves = <<>> /\ ~db'.relaxed
        /\ \A w : Seen(db', w) => Seen(db, w)
    BY <1>1, <1>6, LostRows
  <2>2. \A c \in Clients : cl[c].pc \notin {"opening", "pragmas"}
    BY <1>1, <1>6 DEF BaseInv, WhoInv, Opening
  <2>3. StackInv' /\ AliveInv' /\ RelaxInv'
    BY <1>1, <1>2, <1>6, <2>1, <2>2 DEF StackInv, AliveInv, RelaxInv
  <2>4. FreshInv'
    <3>1. Unserved' => Unserved
      BY <1>2, <1>6 DEF Unserved
    <3> QED  BY <1>1, <1>2, <1>3, <2>1, <3>1, FreshKept
  <2> QED  BY <2>1, <2>3, <2>4
<1>7. CASE /\ wrk = "run" /\ cur.stage \notin {"rest", "close"}
           /\ call[Worker].pc = "step" /\ ~Took /\ Took' /\ conn'.closed = conn.closed
           /\ Legal(call[Worker].sql) /\ db' = After(call[Worker].sql)
           /\ torn' = torn
  <2>1. ~conn.closed
    BY <1>1, <1>7 DEF AliveInv
  <2>2. /\ Rows' /\ (Nesting' = 0 => db'.saves = <<>>)
        /\ ~torn => (db'.saves = <<>> => Nesting' = 0)
        /\ Moves
        /\ \A w : Seen(db', w) =>
             Seen(db, w) \/ (cur.stage = "run" /\ cur.req.verb = "insert" /\ w = cur.req.arg)
        /\ db'.relaxed = IF cur.stage = "relax" THEN TRUE
                         ELSE IF cur.stage \in {"undo", "restore"} THEN FALSE
                         ELSE db.relaxed
    <3>1. CASE torn
      BY <1>1, <1>2, <1>7, <2>1, <3>1, TornStatement
    <3>2. CASE ~torn
      <4>1. /\ Stack(db', Nesting') /\ (Nesting' = 0 <=> db'.saves = <<>>)
            /\ Moves
            /\ \A w : Seen(db', w) =>
                 Seen(db, w) \/ (cur.stage = "run" /\ cur.req.verb = "insert" /\ w = cur.req.arg)
            /\ db'.relaxed = IF cur.stage = "relax" THEN TRUE
                             ELSE IF cur.stage \in {"undo", "restore"} THEN FALSE
                             ELSE db.relaxed
        BY <1>1, <1>2, <1>7, <2>1, <3>2, StatementStep
      <4>2. Rows'
        BY <1>7, <3>2, <4>1 DEF Rows
      <4> QED  BY <4>1, <4>2
    <3> QED  BY <3>1, <3>2
  <2>3. StackInv'
    BY <1>1, <1>2, <1>7, <2>2 DEF StackInv
  <2>4. AliveInv'
    BY <1>1, <1>2, <1>7 DEF AliveInv
  <2>5. RelaxInv'
    BY <1>1, <1>2, <1>7, <2>2 DEF RelaxInv, LevelOf
  <2>6. FreshInv'
    <3>1. ~Unserved'
      BY <1>7 DEF Unserved, Took
    <3>2. CASE cur.stage = "run" /\ cur.req.verb = "insert"
      <4>1. Unserved
        BY <1>7, <3>2 DEF Unserved
      <4> QED  BY <1>1, <1>2, <2>2, <3>1, <3>2, <4>1, FreshServed
    <3>3. CASE ~(cur.stage = "run" /\ cur.req.verb = "insert")
      BY <1>1, <1>2, <1>3, <2>2, <3>1, <3>3, FreshKept
    <3> QED  BY <3>2, <3>3
  <2> QED  BY <2>2, <2>3, <2>4, <2>5, <2>6
<1>8. CASE /\ wrk = "run" /\ cur.stage \notin {"rest", "close"}
           /\ call[Worker].pc = "step" /\ call'[Worker].pc = "ret" /\ ~Took /\ ~Took'
           /\ conn'.closed = conn.closed /\ db' = RolledBack
           /\ torn' = (torn \/ db.saves # <<>>)
  <2>1. ~conn.closed
    BY <1>1, <1>8 DEF AliveInv
  <2>2. /\ Rows' /\ Moves /\ (torn' => depth > 0)
        /\ db'.saves = <<>> /\ db'.relaxed = db.relaxed /\ Nesting' = Nesting
        /\ \A w : Seen(db', w) => Seen(db, w)
    BY <1>1, <1>2, <1>8, <2>1, RolledBackRows
  <2>3. StackInv'
    <3>1. ~torn' => ~torn /\ db.saves = <<>>
      BY <1>8
    <3> QED  BY <1>1, <1>2, <1>8, <2>2, <3>1 DEF StackInv
  <2>4. AliveInv'
    BY <1>1, <1>2, <1>8 DEF AliveInv
  <2>5. RelaxInv'
    BY <1>1, <1>2, <1>8, <2>2 DEF RelaxInv, LevelOf
  <2>6. FreshInv'
    <3>1. ~Unserved'
      BY <1>8 DEF Unserved
    <3> QED  BY <1>1, <1>2, <1>3, <2>2, <3>1, FreshKept
  <2> QED  BY <2>2, <2>3, <2>4, <2>5, <2>6
<1> QED  BY <1>1, <1>4, <1>5, <1>6, <1>7, <1>8, NativeCases

LEMMA TxsWorker ==
  ASSUME TxsInv, WorkerStep
  PROVE  Moves /\ RelaxInv' /\ AliveInv' /\ StackInv' /\ FreshInv'
<1>1. /\ BaseInv /\ RelaxInv /\ AliveInv /\ StackInv /\ FreshInv /\ StageInv
      /\ depth \in Nat /\ TornType
      /\ WhoInv
  BY DEF TxsInv, BaseInv, TypeInv, WorkerType
<1>2. CASE Take
  <2>1. /\ wrk = "run" /\ wrk' = "run" /\ cur.stage = "rest"
        /\ UNCHANGED <<conn, db, depth, level, ruOn, torn, unrestored>>
        /\ cur'.stage \in {"rest", "relax", "begin", "nest", "unnest", "end", "run", "create", "close"}
        /\ call'[Worker].pc \in {"idle", "enter", "close"}
    BY <1>1, <1>2, Taken
  <2>2. Nesting' = depth /\ Nesting = depth
    BY <2>1, NestingNew DEF Nesting
  <2>3. Rows' /\ Moves
    BY <1>1, <2>1, <2>2, Stutters
  <2>4. ~conn.closed
    BY <1>1, <2>1 DEF AliveInv
  <2>5. \A c \in Clients : cl'[c].pc \notin {"opening", "pragmas"}
    BY <1>1, <1>2, <2>1, NextBase DEF BaseInv, WhoInv, Opening, Next, WorkerStep
  <2>6. StackInv' /\ AliveInv'
    BY <1>1, <2>1, <2>2, <2>3, <2>4, <2>5 DEF StackInv, AliveInv
  <2>7. RelaxInv'
    BY <1>1, <2>1 DEF RelaxInv, Took
  <2> QED  BY <1>1, <1>2, <2>3, <2>6, <2>7, FreshTake
<1>3. CASE RunDone \/ CreateDone \/ RelaxDone \/ BeginDone \/ UndoDone \/ NestDone \/ EndDone
           \/ RestoreDone
  <2>1. /\ wrk = "run" /\ wrk' = "run" /\ call[Worker].pc = "ret"
        /\ Result(cur.stage) /\ cur.stage \notin {"rest", "close"}
        /\ call'[Worker].pc \in {"idle", "enter"}
        /\ UNCHANGED <<conn, db, fresh, inbox>>
        /\ Nesting' = Nesting
        /\ cur'.stage = "rest" \/ cur'.req = cur.req
        /\ cur'.stage = "run" => cur.stage = "create"
    BY <1>1, <1>3, Went
  <2>3. ~conn.closed
    BY <1>1, <2>1 DEF AliveInv
  <2>8. /\ torn' = torn \/ (torn /\ torn' = FALSE /\ Nesting = 0 /\ depth' = 0)
        /\ torn' => depth' > 0
    BY <1>1, <1>3, WentTorn DEF StackInv
  <2>9. torn' = torn \/ db.saves = <<>>
    BY <1>1, <2>1, <2>3, <2>8 DEF StackInv
  <2>2. Rows' /\ Moves
    <3>1. CASE torn' = torn
      BY <1>1, <2>1, <3>1, Stutters
    <3>2. CASE torn /\ torn' = FALSE /\ Nesting = 0
      BY <1>1, <2>1, <2>3, <3>2, Mends
    <3> QED  BY <2>8, <3>1, <3>2
  <2>4. \A c \in Clients : cl'[c].pc \notin {"opening", "pragmas"}
    BY <1>1, <1>3, <2>1, NextBase DEF BaseInv, WhoInv, Opening, Next, WorkerStep
  <2>5. StackInv' /\ AliveInv'
    <3>1. wrk' = "run" /\ ~conn'.closed =>
            /\ Nesting' = 0 => db'.saves = <<>>
            /\ ~torn' => (db'.saves = <<>> => Nesting' = 0)
      BY <1>1, <2>1, <2>3, <2>8 DEF StackInv
    <3> QED  BY <1>1, <2>1, <2>2, <2>3, <2>4, <2>8, <3>1 DEF StackInv, AliveInv
  <2>6. FreshInv'
    <3>1. Unserved' /\ cur'.req.verb = "insert" => FALSE
      BY <1>1, <2>1 DEF Unserved, StageInv
    <3>2. InboxKept
      BY <2>1 DEF InboxKept
    <3> QED  BY <1>1, <2>1, <3>1, <3>2, FreshKept
  <2>7. RelaxInv'
    <3>1. wrk' = "run" /\ cur'.stage \in {"undo", "restore"} => ~Took'
      BY <2>1 DEF Took
    <3>2. Took <=> Ok
      BY <2>1 DEF Took
    <3> SUFFICES ASSUME db.relaxed, ~unrestored'
                 PROVE  \/ depth' > 0 /\ ruOn'
                        \/ cur'.stage = "begin" /\ LevelOf(cur'.req) = "ru"
                        \/ cur'.stage = "undo"
      BY <2>1, <3>1 DEF RelaxInv, Took, LevelOf
    <3>3. unrestored' = IF cur.stage \in {"undo", "restore"} THEN ~Ok ELSE unrestored
      BY <2>1 DEF Result
    <3>4. cur.stage \notin {"undo", "restore"} /\ ~unrestored
      BY <1>1, <2>1, <3>2, <3>3 DEF RelaxInv
    <3>5. \/ depth > 0 /\ ruOn
          \/ cur.stage = "relax" /\ Ok
          \/ cur.stage = "begin" /\ LevelOf(cur.req) = "ru"
      BY <1>1, <2>1, <3>2, <3>4 DEF RelaxInv
    <3>6. CASE RunDone \/ CreateDone
      BY <1>1, <3>5, <3>6 DEF RunDone, CreateDone, SameTx, Result, StageInv
    <3>7. CASE RelaxDone
      <4>1. cur.stage = "relax" /\ depth = 0 /\ LevelOf(cur.req) = "ru"
        BY <1>1, <3>7 DEF RelaxDone, Result, StageInv
      <4>2. Ok
        BY <3>5, <4>1
      <4>3. cur'.stage = "begin" /\ cur'.req = cur.req
        BY <1>1, <3>7, <4>2, WorkerCalls DEF RelaxDone
      <4> QED  BY <4>1, <4>3
    <3>8. CASE BeginDone
      <4>1. cur.stage = "begin" /\ depth = 0 /\ LevelOf(cur.req) = "ru"
        BY <1>1, <3>5, <3>8 DEF BeginDone, Result, StageInv
      <4>2. CASE Ok
        <5>1. TxState(1, LevelOf(cur.req), LevelOf(cur.req) = "ru")
          BY <3>8, <4>2 DEF BeginDone
        <5>2. depth' = 1 /\ ruOn'
          BY <4>1, <5>1, Zenon DEF TxState
        <5> QED  BY <5>2
      <4>3. CASE ~Ok
        BY <1>1, <3>8, <4>1, <4>3, WorkerCalls DEF BeginDone
      <4> QED  BY <4>2, <4>3
    <3>9. CASE NestDone
      <4>1. cur.stage \in {"nest", "unnest"} /\ depth > 0 /\ ruOn /\ ruOn' = ruOn
        BY <3>5, <3>9 DEF NestDone, Result, TxState
      <4>2. depth' > 0
        BY <1>1, <3>9, <4>1 DEF NestDone, Result, TxState, StageInv
      <4> QED  BY <4>1, <4>2
    <3>10. CASE EndDone
      <4>1. cur.stage = "end" /\ ruOn /\ depth > 0
        BY <3>5, <3>10 DEF EndDone, Result
      <4>2. UNCHANGED <<depth, ruOn>>
        BY <3>10, <4>1 DEF EndDone, SameTx
      <4> QED  BY <4>1, <4>2
    <3> QED  BY <1>3, <3>4, <3>6, <3>7, <3>8, <3>9, <3>10 DEF UndoDone, RestoreDone, Result
  <2> QED  BY <2>2, <2>5, <2>6, <2>7
<1>4. CASE Crash \/ CloseDone
  <2>1. /\ wrk = "run" /\ wrk' = "dead" /\ inbox' = <<>> /\ cur' = Rests
        /\ UNCHANGED <<conn, db, fresh, depth, torn>>
        /\ Nesting' = Nesting \/ db.saves = <<>>
    BY <1>1, <1>4, Ended
  <2>2. Rows' /\ Moves
    BY <1>1, <2>1, Stutters
  <2>3. \A c \in Clients : cl'[c].pc \notin {"opening", "pragmas"}
    BY <1>1, <1>4, <2>1, NextBase DEF BaseInv, WhoInv, Opening, Next, WorkerStep
  <2>4. StackInv' /\ AliveInv' /\ RelaxInv'
    BY <1>1, <2>1, <2>2, <2>3 DEF StackInv, AliveInv, RelaxInv
  <2>5. FreshInv'
    <3>1. ~Unserved' /\ InboxKept
      BY <1>1, <2>1, WorkerCalls DEF Unserved, InboxKept
    <3> QED  BY <1>1, <2>1, <3>1, FreshKept
  <2> QED  BY <2>2, <2>4, <2>5
<1> QED  BY <1>2, <1>3, <1>4 DEF WorkerStep

LEMMA TxsClient ==
  ASSUME TxsInv, NEW c \in Clients, ClientStep(c)
  PROVE  Moves /\ RelaxInv' /\ AliveInv' /\ StackInv' /\ FreshInv'
<1>1. BaseInv /\ RelaxInv /\ AliveInv /\ StackInv /\ FreshInv /\ HandleInv /\ WhoInv
  BY DEF TxsInv, BaseInv
<1>2. /\ UNCHANGED <<conn, db, depth, level, ruOn, torn, unrestored>>
      /\ call'[Worker] = call[Worker]
      /\ cur'.stage = cur.stage
      /\ cur.stage # "rest" => cur'.req.verb = cur.req.verb /\ cur'.req.arg = cur.req.arg
      /\ wrk' = wrk \/ (wrk = "none" /\ wrk' = "run" /\ cl[c].pc = "pragmas")
      /\ \A d \in Clients : cl'[d].pc \in {"opening", "pragmas"} =>
           cl[d].pc \in {"opening", "pragmas"} \/ conn.res = "none"
      /\ (fresh' = fresh /\ InboxKept) \/ \E w : Tried(w)
  BY <1>1, ClientKeeps
<1>3. Took' <=> Took
  BY <1>2 DEF Took, Ok
<1>4. Nesting' = Nesting
  BY <1>2, <1>3 DEF Nesting
<1>5. Rows' /\ Moves /\ \A w : Seen(db', w) => Seen(db, w)
  BY <1>1, <1>2, <1>4, Stutters
<1>6. wrk = "none" => cur.stage = "rest" /\ Nesting = 0 /\ db.saves = <<>> /\ ~db.relaxed
  BY <1>1 DEF WhoInv, StackInv, RelaxInv, Nesting
<1>7. StackInv'
  BY <1>1, <1>2, <1>4, <1>5, <1>6 DEF StackInv
<1>8. AliveInv'
  BY <1>1, <1>2 DEF AliveInv, HandleInv
<1>9. RelaxInv'
  BY <1>1, <1>2, <1>3, <1>6 DEF RelaxInv, LevelOf
<1>10. FreshInv'
  <2>1. CASE fresh' = fresh /\ InboxKept
    <3>1. Unserved' => Unserved /\ cur.stage # "rest"
      BY <1>2 DEF Unserved
    <3> QED  BY <1>1, <1>2, <1>5, <2>1, <3>1, FreshKept
  <2>2. CASE \E w : Tried(w)
    BY <1>1, <1>2, <2>2, FreshTried
  <2> QED  BY <1>2, <2>1, <2>2
<1> QED  BY <1>5, <1>7, <1>8, <1>9, <1>10


LEMMA TxsCollect ==
  ASSUME TxsInv, Collect
  PROVE  Moves /\ RelaxInv' /\ AliveInv' /\ StackInv' /\ FreshInv'
<1>1. /\ BaseInv /\ RelaxInv /\ AliveInv /\ StackInv /\ FreshInv /\ TornType
      /\ db \in Dbs /\ closes \in Nat /\ stmts \in SUBSET Procs
  BY DEF TxsInv, BaseInv, TypeInv, NifType
<1>2. /\ wrk # "run" /\ \A c \in Clients : cl[c].pc \notin OpeningPcs
      /\ UNCHANGED <<wrk, inbox, cur, depth, torn, cl, call, fresh>>
      /\ IF conn.db /\ ~conn.closed THEN CloseDb ELSE UNCHANGED <<closes, db>>
  BY DEF Collect, ConnDtor, adapterVars, inputVars
<1>3. stmts = {}
  <2>1. \A p \in Procs : call[p].pc = "idle"
    BY <1>1, <1>2, ConnAssumption DEF BaseInv, WhoInv, Opening
  <2> QED  BY <1>1, <2>1 DEF BaseInv, CallInv
<1>4. Nesting' = Nesting /\ (Unserved' => Unserved) /\ InboxKept
  BY <1>2 DEF Nesting, Took, Ok, Unserved, InboxKept
<1>5. /\ Rows' /\ Moves
      /\ db'.relaxed => db.relaxed
      /\ db'.saves = <<>> \/ db'.saves = db.saves
      /\ \A w : Seen(db', w) => Seen(db, w)
  <2>1. CASE db' = db
    BY <1>1, <1>2, <1>4, <2>1, Stutters
  <2>2. CASE db' = Lost
    BY <1>1, <1>2, <2>2, LostRows
  <2>3. db' = db \/ db' = Lost
    BY <1>1, <1>2, <1>3 DEF CloseDb, Released, Lost
  <2> QED  BY <2>1, <2>2, <2>3
<1>6. RelaxInv' /\ AliveInv' /\ StackInv'
  BY <1>1, <1>2, <1>5 DEF RelaxInv, AliveInv, StackInv
<1>7. FreshInv'
  BY <1>1, <1>2, <1>4, <1>5, FreshKept
<1> QED  BY <1>5, <1>6, <1>7

LEMMA TxsStutter ==
  ASSUME TxsInv, UNCHANGED vars
  PROVE  Moves /\ RelaxInv' /\ AliveInv' /\ StackInv' /\ FreshInv'
<1>1. UNCHANGED <<conn, db, call, wrk, inbox, cur, depth, ruOn, torn, cl, fresh, unrestored>>
  BY DEF vars, nifVars, adapterVars, inputVars
<1>2. Nesting' = Nesting /\ (Took' <=> Took) /\ (Unserved' <=> Unserved)
  BY <1>1 DEF Nesting, Took, Ok, Unserved
<1>3. InboxKept
  BY <1>1 DEF InboxKept
<1>4. Rows' /\ Moves /\ \A w : Seen(db', w) => Seen(db, w)
  BY <1>1, <1>2, Stutters DEF TxsInv
<1>5. RelaxInv' /\ AliveInv' /\ StackInv'
  BY <1>1, <1>2, <1>4 DEF TxsInv, RelaxInv, AliveInv, StackInv, LevelOf
<1>6. FreshInv'
  BY <1>1, <1>2, <1>3, <1>4, FreshKept DEF TxsInv
<1> QED  BY <1>4, <1>5, <1>6

LEMMA TxsNext ==
  ASSUME TxsInv, [Next]_vars
  PROVE  TxsInv' /\ Moves
<1>1. BaseInv' /\ TornType'
  BY NextBase, TornNext DEF TxsInv
<1>2. Moves /\ RelaxInv' /\ AliveInv' /\ StackInv' /\ FreshInv'
  BY TxsNative, TxsWorker, TxsClient, TxsCollect, TxsStutter DEF Next
<1> QED  BY <1>1, <1>2 DEF TxsInv

LEMMA TxsInit == ConnInit => TxsInv /\ Promise!TxInit
<1> SUFFICES ASSUME ConnInit PROVE TxsInv /\ Promise!TxInit
  OBVIOUS
<1>1. /\ conn = [res |-> "none", db |-> FALSE, closed |-> FALSE]
      /\ db = [durable |-> {}, visible |-> {}, saves |-> <<>>, relaxed |-> FALSE]
      /\ wrk = "none" /\ inbox = <<>> /\ cur = Rests /\ depth = 0 /\ torn = FALSE
      /\ cl = [c \in Clients |-> [pc |-> "idle", frames |-> <<>>]]
  BY DEF ConnInit, NifInit
<1>2. cur.stage = "rest"
  BY <1>1 DEF Rests
<1>3. Nesting = 0
  BY <1>1, <1>2 DEF Nesting
<1>4. RelaxInv /\ AliveInv
  BY <1>1 DEF RelaxInv, AliveInv
<1>5. StackInv /\ TornType
  BY <1>1 DEF StackInv, Rows, Stack, TornType
<1>6. FreshInv
  BY <1>1, <1>2 DEF FreshInv, Seen, Unserved
<1>7. Promise!TxInit
  BY <1>1 DEF Promise!TxInit, OpenTx
<1> QED  BY <1>4, <1>5, <1>6, <1>7, InitBase DEF TxsInv

LEMMA TxsInvariance == Spec => []TxsInv
BY TxsInit, TxsNext, PTL DEF Spec

\* open_tx and close_tx: no path through the pragma, BEGIN, COMMIT and their failures
\* leaves the connection with relaxed reads and no transaction, except the two where
\* SQLite refuses the pragma itself (maybe_restore_ru ignores its answer) and where it
\* has taken back the transaction that the worker still counts.
THEOREM NeverRelaxedOutside == Spec => []RelaxedOnlyInTx
<1>1. TxsInv => RelaxedOnlyInTx
  <2> SUFFICES ASSUME TxsInv, wrk = "run", cur = Rests, db.relaxed, ~unrestored, ~torn
               PROVE  db.saves # <<>>
    BY DEF RelaxedOnlyInTx
  <2>1. cur.stage = "rest"
    BY DEF Rests
  <2>2. depth > 0
    BY <2>1 DEF TxsInv, RelaxInv
  <2>3. Nesting = depth /\ depth \in Nat
    BY <2>1, NestingType DEF TxsInv, Nesting
  <2>4. ~conn.closed
    BY <2>1 DEF TxsInv, AliveInv
  <2> QED  BY <2>2, <2>3, <2>4 DEF TxsInv, StackInv
<1> QED  BY <1>1, TxsInvariance, PTL

\* The connection behind a handle implements nested transactions: whatever the clients
\* ask, in whichever order, and whatever fails, times out or dies, every step of the
\* adapter is a write, a begin, a commit or rollback of exactly the innermost level, the
\* loss of the connection, or nothing the user of the database can see.  The exception
\* begins when SQLite takes the transaction back by itself: until the worker's depth is 0
\* again nothing is promised but that what is durable stays.
THEOREM NestedTransactions == Spec => ImplementsNestedTx
<1>1. TxsInv /\ [Next]_vars => [Promise!TxNext]_(Promise!txVars)
  BY TxsNext DEF Moves
<1> QED  BY <1>1, TxsInit, TxsInvariance, PTL DEF Spec, ImplementsNestedTx, Promise!TxSpec

-----------------------------------------------------------------------------
(* Who waits for which request. *)

Ends == {"commit", "rollback"}

\* The request that client c waits for is in one place, if it is still anywhere, and a
\* client that ends a transaction has one.
Mine(c) ==
  /\ \A i \in DOMAIN inbox : inbox[i].from = c => cl[c].pc = inbox[i].verb
  /\ \A i, j \in DOMAIN inbox : inbox[i].from = c /\ inbox[j].from = c => i = j
  /\ cur.stage # "rest" /\ cur.req.from = c =>
       /\ cl[c].pc = cur.req.verb
       /\ \A i \in DOMAIN inbox : inbox[i].from # c
  /\ cl[c].pc \in Ends => cl[c].frames # <<>>

AskInv ==
  /\ wrk # "run" => inbox = <<>>
  /\ \A c \in Clients : Mine(c)

\* No request in the mailbox or with the worker is c's, unless it was there.
Less(c) ==
  /\ \A i \in DOMAIN inbox' : inbox'[i].from = c =>
       i \in DOMAIN inbox /\ inbox[i].from = c /\ inbox'[i].verb = inbox[i].verb
  /\ cur'.stage # "rest" /\ cur'.req.from = c =>
       cur.stage # "rest" /\ cur.req.from = c /\ cur'.req.verb = cur.req.verb

LEMMA MineLess ==
  ASSUME NEW c \in Clients, Mine(c), Less(c), cl'[c].pc = cl[c].pc,
         cl'[c].frames = cl[c].frames
  PROVE  Mine(c)'
BY DEF Mine, Less

\* None of the requests is c's.
LEMMA MineNone ==
  ASSUME NEW c \in Clients, \A i \in DOMAIN inbox' : inbox'[i].from # c,
         cur'.stage # "rest" => cur'.req.from # c, cl'[c].pc \notin Ends
  PROVE  Mine(c)'
BY DEF Mine

\* A client that waits for nothing has no request anywhere.
LEMMA NoneAsked ==
  ASSUME BaseInv, NEW c \in Clients, Mine(c), cl[c].pc \notin Waiting
  PROVE  /\ \A i \in DOMAIN inbox : inbox[i].from # c
         /\ cur.stage # "rest" => cur.req.from # c
<1>1. \A i \in DOMAIN inbox : inbox[i].verb \in Waiting
  BY DEF BaseInv, TypeInv, WorkerType, Reqs
<1>2. cur.stage # "rest" => cur.req.verb \in Waiting
  BY DEF BaseInv, TypeInv, WorkerType, Reqs
<1> QED  BY <1>1, <1>2 DEF Mine


LEMMA AnsweredFrames ==
  ASSUME ClientType, NEW c \in Clients, NEW verb, NEW arg, NEW ok,
         verb = "insert" /\ ok => arg \in Writes, Answered(c, verb, arg, ok)
  PROVE  /\ cl'[c].frames = Frames(c, verb, arg, ok, depth = Len(cl[c].frames) /\ ~torn)
         /\ cl'[c].pc = IF verb = "close" THEN "unregister" ELSE "idle"
         /\ \A d \in Clients : d # c => cl'[d] = cl[d]
         /\ Len(cl'[c].frames) =
              IF verb = "begin" /\ ok THEN Len(cl[c].frames) + 1
              ELSE IF verb \in Ends /\ Len(cl[c].frames) > 0 THEN Len(cl[c].frames) - 1
              ELSE Len(cl[c].frames)
<1> DEFINE inStep == depth = Len(cl[c].frames) /\ ~torn
           fs == Marked(c, inStep)
           n == Len(fs)
           out == Frames(c, verb, arg, ok, inStep)
<1>1. cl \in [Clients -> [pc : ClientPcs, frames : Seq(FrameSet)]]
  BY DEF ClientType
<1>2. /\ cl'[c].frames = out
      /\ cl'[c].pc = IF verb = "close" THEN "unregister" ELSE "idle"
      /\ \A d \in Clients : d # c => cl'[d] = cl[d]
  BY <1>1 DEF Answered
<1>3. fs \in Seq(FrameSet) /\ n = Len(cl[c].frames)
  <2>1. inStep \in BOOLEAN
    OBVIOUS
  <2> HIDE DEF inStep
  <2> QED  BY <2>1, MarkedType
<1>4. \/ verb = "begin" /\ ok /\ out = Append(fs, [ws |-> {}, sound |-> inStep])
      \/ verb = "insert" /\ ok /\ n > 0 /\ out = [fs EXCEPT ![n].ws = @ \union {arg}]
      \/ /\ verb = "commit" /\ ok /\ n > 1
         /\ out = Front([fs EXCEPT ![n - 1].ws = @ \union fs[n].ws])
      \/ verb = "commit" /\ ~(ok /\ n > 1) /\ n > 0 /\ out = Front(fs)
      \/ verb = "rollback" /\ n > 0 /\ out = Front(fs)
      \/ /\ out = fs
         /\ ~(verb = "begin" /\ ok) /\ ~(verb = "insert" /\ ok /\ n > 0)
         /\ ~(verb \in {"commit", "rollback"} /\ n > 0)
  <2> HIDE DEF inStep
  <2> QED  BY FramesCases, Zenon
<1> HIDE DEF fs, out
<1>5. Len(out) = IF verb = "begin" /\ ok THEN n + 1
                 ELSE IF verb \in Ends /\ n > 0 THEN n - 1 ELSE n
  <2>0. n \in Nat
    BY <1>3
  <2>1. ASSUME n > 0, NEW gs \in Seq(FrameSet), Len(gs) = n PROVE Len(Front(gs)) = n - 1
    BY <2>1, FrontType
  <2>2. CASE n > 1 /\ out = Front([fs EXCEPT ![n - 1].ws = @ \union fs[n].ws]) /\ verb = "commit"
    <3>1. fs[n] \in FrameSet /\ fs[n - 1] \in FrameSet
      BY <1>3, <2>0, <2>2
    <3> DEFINE gs == [fs EXCEPT ![n - 1] = [fs[n - 1] EXCEPT !.ws = @ \union fs[n].ws]]
    <3>2. [fs[n - 1] EXCEPT !.ws = @ \union fs[n].ws] \in FrameSet
      BY <3>1 DEF FrameSet
    <3>3. gs \in Seq(FrameSet) /\ Len(gs) = n
      BY <1>3, <2>0, <2>2, <3>2
    <3>4. out = Front(gs)
      BY <2>2
    <3> HIDE DEF gs
    <3>5. Len(out) = n - 1
      BY <2>0, <2>2, <3>3, <3>4, FrontType
    <3> QED  BY <2>0, <2>2, <3>5 DEF Ends
  <2> QED  BY <1>3, <1>4, <2>0, <2>1, <2>2 DEF Ends
<1> QED  BY <1>2, <1>3, <1>5 DEF inStep, out

\* The others' requests stay as they are when c gives up; c has none any more.
LEMMA GaveUpLess ==
  ASSUME BaseInv, NEW c \in Clients, GaveUp(c)
  PROVE  /\ \A d \in Clients : d # c => Less(d)
         /\ \A i \in DOMAIN inbox' : inbox'[i].from # c
         /\ cur'.stage # "rest" => cur'.req.from # c
<1>1. inbox \in Seq(Reqs) /\ cur \in [req : Reqs \union {None}, stage : Stages]
      /\ (cur.stage # "rest" => cur.req \in Reqs)
  BY DEF BaseInv, TypeInv, WorkerType
<1>2. DOMAIN inbox' = DOMAIN inbox /\ \A i \in DOMAIN inbox : inbox'[i] = Orphan(c, inbox[i])
  BY DEF GaveUp
<1>3. cur'.stage = cur.stage /\ (cur.stage # "rest" => cur'.req = Orphan(c, cur.req))
  BY <1>1 DEF GaveUp
<1>4. \A r \in Reqs : /\ Orphan(c, r).verb = r.verb
                     /\ Orphan(c, r).from = IF r.from = c THEN None ELSE r.from
  BY OrphanType
<1>5. \A i \in DOMAIN inbox : inbox[i] \in Reqs
  BY <1>1
<1>6. None \notin Clients
  BY ConnAssumption
<1> QED  BY <1>1, <1>2, <1>3, <1>4, <1>5, <1>6 DEF Less


\* A step after which c waits for nothing, and the others as before.
LEMMA AskOne ==
  ASSUME AskInv, NEW c \in Clients,
         \A d \in Clients : d # c => Less(d) /\ cl'[d] = cl[d],
         \A i \in DOMAIN inbox' : inbox'[i].from # c,
         cur'.stage # "rest" => cur'.req.from # c,
         cl'[c].pc \notin Ends, wrk' # "run" => inbox' = <<>>
  PROVE  AskInv'
<1>1. \A d \in Clients : Mine(d)'
  <2> TAKE d \in Clients
  <2>1. CASE d = c
    BY <2>1, MineNone
  <2>2. CASE d # c
    BY <2>2, MineLess DEF AskInv
  <2> QED  BY <2>1, <2>2
<1> QED  BY <1>1 DEF AskInv

LEMMA AskSend ==
  ASSUME BaseInv, AskInv, NEW c \in Clients, NEW verb \in Waiting, NEW arg, NEW val,
         Send(c, verb, arg, val), verb \in Ends => InTx(c)
  PROVE  AskInv'
<1> DEFINE r == Request(c, verb, arg, val)
<1>1. /\ cl[c].pc = "idle" /\ cl' = [cl EXCEPT ![c].pc = verb]
      /\ cur' = cur /\ wrk' = wrk
      /\ inbox' = IF wrk = "run" THEN Append(inbox, r) ELSE inbox
  BY DEF Send
<1>2. cl \in [Clients -> [pc : ClientPcs, frames : Seq(FrameSet)]] /\ inbox \in Seq(Reqs)
  BY DEF BaseInv, TypeInv, ClientType, WorkerType
<1>3. /\ \A d \in Clients : d # c => cl'[d] = cl[d]
      /\ cl'[c].pc = verb /\ cl'[c].frames = cl[c].frames
  BY <1>1, <1>2
<1>4. /\ \A i \in DOMAIN inbox : inbox[i].from # c
      /\ cur.stage # "rest" => cur.req.from # c
  BY <1>1, NoneAsked DEF AskInv, Waiting
<1>5. r.from = c /\ r.verb = verb
  BY DEF Request
<1> HIDE DEF r
<1>6. \A i \in DOMAIN inbox' :
        \/ i \in DOMAIN inbox /\ inbox'[i] = inbox[i]
        \/ i = Len(inbox) + 1 /\ inbox'[i] = r
  <2>1. CASE inbox' = Append(inbox, r)
    <3>1. DOMAIN inbox' = 1..Len(inbox) + 1 /\ DOMAIN inbox = 1..Len(inbox) /\ Len(inbox) \in Nat
          /\ inbox'[Len(inbox) + 1] = r
          /\ \A k \in 1..Len(inbox) : inbox'[k] = inbox[k]
      BY <1>2, <2>1
    <3> QED  BY <3>1
  <2> QED  BY <1>1, <2>1
<1>7. Mine(c)'
  BY <1>1, <1>3, <1>4, <1>5, <1>6 DEF Mine, InTx
<1>8. \A d \in Clients : d # c => Mine(d)'
  <2> TAKE d \in Clients
  <2> HAVE d # c
  <2>1. Less(d)
    BY <1>1, <1>5, <1>6 DEF Less
  <2> QED  BY <1>3, <2>1, MineLess DEF AskInv
<1>9. wrk' # "run" => inbox' = <<>>
  BY <1>1 DEF AskInv
<1> QED  BY <1>7, <1>8, <1>9 DEF AskInv

LEMMA AskClient ==
  ASSUME BaseInv, AskInv, NEW c \in Clients, ClientStep(c)
  PROVE  AskInv'
<1>0. /\ cl \in [Clients -> [pc : ClientPcs, frames : Seq(FrameSet)]] /\ ClientType
      /\ cur.stage # "rest" => wrk = "run"
  BY DEF BaseInv, TypeInv, ClientType, WhoInv
<1>1. CASE \/ Connect(c) \/ Opened(c) \/ Ready(c) \/ Abandoned(c) \/ Unregister(c)
  <2>1. /\ UNCHANGED <<cur, inbox>>
        /\ wrk' = wrk \/ wrk' = "run"
        /\ cl[c].pc \in OpeningPcs \union {"idle", "unregister"}
        /\ \E pc \in OpeningPcs \union {"idle"} : cl' = [cl EXCEPT ![c].pc = pc]
    BY <1>1 DEF Connect, Opened, Ready, Abandoned, Unregister, adapterVars
  <2>2. /\ \A d \in Clients : d # c => cl'[d] = cl[d]
        /\ cl'[c].pc \in OpeningPcs \union {"idle"}
    BY <1>0, <2>1
  <2>3. /\ \A i \in DOMAIN inbox : inbox[i].from # c
        /\ cur.stage # "rest" => cur.req.from # c
    BY <2>1, NoneAsked DEF AskInv, Waiting
  <2>4. \A d \in Clients : Less(d)
    BY <2>1 DEF Less
  <2>5. wrk' # "run" => inbox' = <<>>
    BY <2>1 DEF AskInv
  <2> QED  BY <2>1, <2>2, <2>3, <2>4, <2>5, AskOne DEF Ends
<1>2. CASE \/ \E w \in Writes, v \in Values : Insert(c, w, v)
           \/ Read(c) \/ Begin(c) \/ End(c) \/ CloseHandle(c)
  <2>1. PICK verb \in Waiting :
          /\ verb \in Ends => InTx(c)
          /\ \E arg, val : Send(c, verb, arg, val)
    BY <1>2 DEF Insert, Read, Begin, End, CloseHandle, Waiting, Ends
  <2> QED  BY <2>1, AskSend
<1>3. CASE \/ \E verb \in {"commit", "rollback"} : NotFound(c, verb)
           \/ Down(c)
  <2>1. PICK verb : /\ Answered(c, verb, None, FALSE)
                    /\ UNCHANGED <<cur, inbox, wrk>>
                    /\ cl[c].pc = "idle" \/ wrk = "dead"
    BY <1>3 DEF NotFound, Down, adapterVars
  <2>2. /\ \A i \in DOMAIN inbox : inbox[i].from # c
        /\ cur.stage # "rest" => cur.req.from # c
    <3>1. CASE cl[c].pc = "idle"
      BY <3>1, NoneAsked DEF AskInv, Waiting
    <3>2. CASE wrk = "dead"
      BY <1>0, <3>2 DEF AskInv
    <3> QED  BY <2>1, <3>1, <3>2
  <2>3. \A d \in Clients : Less(d)
    BY <2>1 DEF Less
  <2>4. cl'[c].pc \in {"idle", "unregister"} /\ \A d \in Clients : d # c => cl'[d] = cl[d]
    BY <1>0, <2>1, AnsweredFrames
  <2>5. wrk' # "run" => inbox' = <<>>
    BY <2>1 DEF AskInv
  <2> QED  BY <2>1, <2>2, <2>3, <2>4, <2>5, AskOne DEF Ends
<1>4. CASE Timeout(c) \/ Die(c)
  <2>1. GaveUp(c) /\ wrk' = wrk /\ inbox' = [i \in DOMAIN inbox |-> Orphan(c, inbox[i])]
    BY <1>4 DEF Timeout, Die, GaveUp
  <2>2. cl'[c].pc \in {"idle", "unregister", "dead"} /\ \A d \in Clients : d # c => cl'[d] = cl[d]
    <3>1. CASE Timeout(c)
      BY <1>0, <3>1, AnsweredFrames DEF Timeout
    <3>2. CASE Die(c)
      BY <1>0, <3>2 DEF Die
    <3> QED  BY <1>4, <3>1, <3>2
  <2>3. wrk' # "run" => inbox' = <<>>
    <3> SUFFICES ASSUME wrk' # "run" PROVE inbox' = <<>>
      OBVIOUS
    <3>1. DOMAIN inbox = {} /\ inbox = <<>>
      BY <2>1 DEF AskInv
    <3> QED  BY <2>1, <3>1
  <2> QED  BY <2>1, <2>2, <2>3, GaveUpLess, AskOne DEF Ends
<1> QED  BY <1>1, <1>2, <1>3, <1>4 DEF ClientStep


\* What the worker does with the request at the head of its mailbox.
LEMMA TakenHead ==
  ASSUME BaseInv, Take
  PROVE  /\ inbox' = Tail(inbox) /\ Head(inbox) \in Reqs
         /\ inbox \in Seq(Reqs) /\ inbox # <<>> /\ cur.stage = "rest" /\ wrk = "run"
         /\ UNCHANGED <<wrk, depth, db, conn>>
         /\ \/ /\ cur'.req = Head(inbox) /\ cur'.stage # "rest" /\ cl' = cl
               /\ UNCHANGED <<kept, undone>>
            \/ \E ok \in BOOLEAN :
                 /\ Reply(Head(inbox), ok)
                 /\ \/ Head(inbox).verb \in Ends /\ depth = 0
                    \/ Head(inbox).verb = "begin" /\ ~ok
<1>1. /\ inbox' = Tail(inbox) /\ inbox \in Seq(Reqs) /\ inbox # <<>> /\ cur.stage = "rest"
      /\ wrk = "run" /\ UNCHANGED <<wrk, depth, db, conn>>
  BY DEF Take, Rests, BaseInv, TypeInv, WorkerType
<1>2. Head(inbox) \in Reqs
  BY <1>1
<1>3. PICK r : /\ r = Head(inbox)
               /\ \/ r.verb = "begin" /\ StartBegin(r)
                  \/ r.verb \in {"commit", "rollback"} /\ StartEnd(r)
                  \/ StartOther(r)
  BY DEF Take
<1>4. \/ \E ok \in BOOLEAN :
           /\ Reply(r, ok)
           /\ (r.verb \in Ends /\ depth = 0) \/ (r.verb = "begin" /\ ~ok)
      \/ \E stage \in {"relax", "begin", "nest", "unnest", "end", "run", "create", "close"} :
           \E nif : Runs(stage, r, nif)
  <2>1. CASE r.verb = "begin" /\ StartBegin(r)
    BY <2>1 DEF StartBegin
  <2>2. CASE r.verb \in {"commit", "rollback"} /\ StartEnd(r)
    BY <2>2 DEF StartEnd, Ends
  <2>3. CASE StartOther(r)
    BY <2>3 DEF StartOther
  <2> QED  BY <1>3, <2>1, <2>2, <2>3
<1>5. CASE \E ok \in BOOLEAN :
             /\ Reply(r, ok)
             /\ (r.verb \in Ends /\ depth = 0) \/ (r.verb = "begin" /\ ~ok)
  BY <1>1, <1>2, <1>3, <1>5
<1>6. CASE \E stage \in {"relax", "begin", "nest", "unnest", "end", "run", "create", "close"} :
             \E nif : Runs(stage, r, nif)
  <2>1. cur'.req = r /\ cur'.stage # "rest" /\ cl' = cl /\ UNCHANGED <<kept, undone>>
    BY <1>6 DEF Runs, ghostVars
  <2> QED  BY <1>1, <1>2, <1>3, <2>1
<1> QED  BY <1>4, <1>5, <1>6

\* The worker answers ok, and its depth has moved with it.
Answers(ok) ==
  /\ Reply(cur.req, ok)
  /\ ok => Ok \/ cur.stage = "restore"
  /\ \/ cur.req.verb \notin Ends \union {"begin"} /\ depth' = depth
     \/ cur.req.verb = "begin" /\ depth' = IF ok THEN depth + 1 ELSE depth
     \/ cur.req.verb \in Ends /\ ok /\ depth' = depth - 1 /\ Nesting = depth'
     \/ cur.req.verb \in Ends /\ ~ok /\ depth' = depth

\* Between two native calls the worker goes on with the same request or answers it.
LEMMA WentOn ==
  ASSUME BaseInv,
         RunDone \/ CreateDone \/ RelaxDone \/ BeginDone \/ UndoDone \/ NestDone \/ EndDone
         \/ RestoreDone
  PROVE  /\ cur.req \in Reqs
         /\ \/ /\ cur'.req = cur.req /\ cur'.stage # "rest" /\ cl' = cl /\ depth' = depth
               /\ UNCHANGED <<kept, undone>>
            \/ \E ok \in BOOLEAN : Answers(ok)
<1>0. StageInv /\ depth \in Nat /\ (call[Worker].pc = "ret" => (Took <=> Ok))
      /\ cur.stage \in Stages /\ (cur.stage # "rest" => cur.req \in Reqs)
      /\ (cur.stage # "rest" => cur.req.verb \in Waiting)
  BY DEF BaseInv, TypeInv, WorkerType, Took, Reqs
<1>1. Ok \in BOOLEAN
  BY DEF Ok
<1>2. ASSUME NEW stage \in Stages \ {"rest"}, NEW nif, Runs(stage, cur.req, nif)
      PROVE  cur'.req = cur.req /\ cur'.stage # "rest" /\ cl' = cl /\ UNCHANGED <<kept, undone>>
  BY <1>2 DEF Runs, ghostVars
<1>3. CASE RunDone
  <2>1. cur.stage = "run" /\ Reply(cur.req, Ok) /\ depth' = depth
    BY <1>3 DEF RunDone, Result, SameTx
  <2>2. cur.req.verb \notin Ends \union {"begin"}
    BY <1>0, <2>1 DEF StageInv, Ends
  <2>3. Answers(Ok)
    BY <1>0, <2>1, <2>2 DEF Answers
  <2> QED  BY <1>0, <1>1, <2>1, <2>3
<1>4. CASE CreateDone
  <2>1. cur.stage = "create" /\ depth' = depth
        /\ (Reply(cur.req, FALSE) \/ \E nif : Runs("run", cur.req, nif))
    BY <1>4 DEF CreateDone, Result, SameTx
  <2>2. cur.req.verb \notin Ends \union {"begin"} /\ "run" \in Stages \ {"rest"}
    BY <1>0, <2>1 DEF StageInv, Ends, Stages
  <2> QED  BY <1>0, <1>2, <2>1, <2>2 DEF Answers, Ends
<1>5. CASE RelaxDone
  <2>1. cur.stage = "relax" /\ depth' = depth
        /\ (Reply(cur.req, FALSE) \/ \E nif : Runs("begin", cur.req, nif))
    BY <1>5 DEF RelaxDone, Result, SameTx
  <2>2. cur.req.verb = "begin" /\ "begin" \in Stages \ {"rest"}
    BY <1>0, <2>1 DEF StageInv, Stages
  <2> QED  BY <1>0, <1>2, <2>1, <2>2 DEF Answers, Ends
<1>6. CASE BeginDone
  <2>1. cur.stage = "begin"
        /\ \/ Ok /\ depth' = 1 /\ Reply(cur.req, TRUE)
           \/ depth' = depth /\ (Reply(cur.req, FALSE) \/ \E nif : Runs("undo", cur.req, nif))
    BY <1>6 DEF BeginDone, Result, SameTx, TxState
  <2>2. cur.req.verb = "begin" /\ depth = 0 /\ "undo" \in Stages \ {"rest"}
    BY <1>0, <2>1 DEF StageInv, Stages
  <2>3. CASE Ok /\ depth' = 1 /\ Reply(cur.req, TRUE)
    <3>1. depth' = depth + 1
      BY <2>2, <2>3
    <3>2. Answers(TRUE)
      BY <2>2, <2>3, <3>1, Zenon DEF Answers
    <3> QED  BY <1>0, <2>1, <3>2
  <2>4. CASE depth' = depth /\ (Reply(cur.req, FALSE) \/ \E nif : Runs("undo", cur.req, nif))
    BY <1>0, <1>2, <2>1, <2>2, <2>4 DEF Answers, Ends
  <2> QED  BY <2>1, <2>3, <2>4
<1>7. CASE UndoDone
  <2>1. cur.stage = "undo" /\ depth' = depth /\ Reply(cur.req, FALSE)
    BY <1>7 DEF UndoDone, Result, SameTx
  <2>2. cur.req.verb = "begin"
    BY <1>0, <2>1 DEF StageInv
  <2> QED  BY <1>0, <2>1, <2>2 DEF Answers, Ends
<1>8. CASE NestDone
  <2>1. cur.stage \in {"nest", "unnest"} /\ Reply(cur.req, Ok) /\ call[Worker].pc = "ret"
        /\ depth' = IF ~Ok THEN depth ELSE IF cur.stage = "nest" THEN depth + 1 ELSE depth - 1
    BY <1>8 DEF NestDone, Result, TxState
  <2>2. (cur.stage = "nest" => cur.req.verb = "begin") /\ (cur.stage = "unnest" => cur.req.verb \in Ends)
    BY <1>0, <2>1 DEF StageInv, Ends
  <2>3. Nesting = IF ~Ok THEN depth ELSE IF cur.stage = "nest" THEN depth + 1 ELSE depth - 1
    BY <1>0, <2>1 DEF Nesting
  <2>4. CASE cur.stage = "nest"
    <3>1. Answers(Ok)
      BY <1>0, <2>1, <2>2, <2>4 DEF Answers, Ends
    <3> QED  BY <1>0, <1>1, <2>4, <3>1
  <2>5. CASE cur.stage = "unnest"
    <3>1. Answers(Ok)
      BY <1>0, <2>1, <2>2, <2>3, <2>5 DEF Answers
    <3> QED  BY <1>0, <1>1, <2>5, <3>1
  <2> QED  BY <2>1, <2>4, <2>5
<1>9. CASE EndDone
  <2>1. cur.stage = "end" /\ call[Worker].pc = "ret"
        /\ \/ Ok /\ depth' = depth /\ \E nif : Runs("restore", cur.req, nif)
           \/ Ok /\ Reply(cur.req, TRUE) /\ depth' = 0
           \/ ~Ok /\ Reply(cur.req, FALSE) /\ depth' = depth
    BY <1>9 DEF EndDone, Result, TxState, SameTx
  <2>2. cur.req.verb \in Ends /\ depth = 1 /\ "restore" \in Stages \ {"rest"}
    BY <1>0, <2>1 DEF StageInv, Ends, Stages
  <2>3. CASE Ok /\ depth' = depth /\ \E nif : Runs("restore", cur.req, nif)
    BY <1>0, <1>2, <2>1, <2>2, <2>3
  <2>4. CASE Ok /\ Reply(cur.req, TRUE) /\ depth' = 0
    <3>1. Nesting = 0
      BY <1>0, <2>1, <2>4 DEF Nesting
    <3>2. depth' = depth - 1 /\ Nesting = depth'
      BY <2>2, <2>4, <3>1
    <3>3. Answers(TRUE)
      BY <2>2, <2>4, <3>2, Zenon DEF Answers
    <3> QED  BY <1>0, <2>1, <3>3
  <2>5. CASE ~Ok /\ Reply(cur.req, FALSE) /\ depth' = depth
    <3>1. Answers(FALSE)
      BY <2>2, <2>5 DEF Answers
    <3> QED  BY <1>0, <2>1, <3>1
  <2> QED  BY <2>1, <2>3, <2>4, <2>5
<1>10. CASE RestoreDone
  <2>1. cur.stage = "restore" /\ Reply(cur.req, TRUE) /\ depth' = 0
    BY <1>10 DEF RestoreDone, Result, TxState
  <2>2. cur.req.verb \in Ends /\ depth = 1 /\ Nesting = 0
    BY <1>0, <2>1 DEF StageInv, Ends, Nesting
  <2>3. depth' = depth - 1 /\ Nesting = depth'
    BY <2>1, <2>2
  <2>4. Answers(TRUE)
    BY <2>1, <2>2, <2>3, Zenon DEF Answers
  <2> QED  BY <1>0, <2>1, <2>4
<1> QED  BY <1>3, <1>4, <1>5, <1>6, <1>7, <1>8, <1>9, <1>10


\* Who gets the answer, and what it tells him.
LEMMA Replied ==
  ASSUME BaseInv, NEW r \in Reqs, NEW ok, Reply(r, ok)
  PROVE  /\ cur' = Rests /\ cur'.stage = "rest"
         /\ \A d \in Clients : d # r.from => cl'[d] = cl[d]
         /\ r.from = None => UNCHANGED <<cl, kept, undone>>
         /\ r.from # None =>
              /\ r.from \in Clients /\ Answered(r.from, r.verb, r.arg, ok)
              /\ cl'[r.from].pc \notin Ends
              /\ Len(cl'[r.from].frames) =
                   LET n == Len(cl[r.from].frames)
                   IN IF r.verb = "begin" /\ ok THEN n + 1
                      ELSE IF r.verb \in Ends /\ n > 0 THEN n - 1 ELSE n
<1>1. cur' = Rests /\ cur'.stage = "rest"
  BY WorkerCalls
<1>2. CASE r.from = None
  <2>1. UNCHANGED <<cl, kept, undone>>
    BY <1>2 DEF Reply, ghostVars
  <2> QED  BY <1>1, <1>2, <2>1
<1>3. CASE r.from # None
  <2>1. r.from \in Clients /\ Answered(r.from, r.verb, r.arg, ok)
        /\ (r.verb = "insert" => r.arg \in Writes) /\ ClientType
    BY <1>3 DEF Reply, Reqs, BaseInv, TypeInv
  <2>2. /\ cl'[r.from].pc = IF r.verb = "close" THEN "unregister" ELSE "idle"
        /\ \A d \in Clients : d # r.from => cl'[d] = cl[d]
        /\ Len(cl'[r.from].frames) =
             IF r.verb = "begin" /\ ok THEN Len(cl[r.from].frames) + 1
             ELSE IF r.verb \in Ends /\ Len(cl[r.from].frames) > 0 THEN Len(cl[r.from].frames) - 1
             ELSE Len(cl[r.from].frames)
    BY <2>1, AnsweredFrames
  <2> QED  BY <1>1, <1>3, <2>1, <2>2 DEF Ends
<1> QED  BY <1>2, <1>3

LEMMA AskTake ==
  ASSUME BaseInv, AskInv, Take
  PROVE  AskInv'
<1> DEFINE r == Head(inbox)
<1>1. /\ inbox' = Tail(inbox) /\ r \in Reqs /\ inbox \in Seq(Reqs) /\ inbox # <<>>
      /\ cur.stage = "rest" /\ wrk' = "run"
      /\ \/ cur'.req = r /\ cur'.stage # "rest" /\ cl' = cl
         \/ \E ok \in BOOLEAN : Reply(r, ok)
  BY TakenHead
<1>2. /\ r = inbox[1] /\ 1 \in DOMAIN inbox
      /\ \A i \in DOMAIN inbox' : i + 1 \in DOMAIN inbox /\ inbox'[i] = inbox[i + 1] /\ i \in Nat
      /\ \A i \in DOMAIN inbox' : i + 1 # 1
  <2>1. inbox \in Seq(Reqs) /\ Len(inbox) > 0
    BY <1>1
  <2>2. Len(inbox') = Len(inbox) - 1 /\ \A i \in 1..Len(inbox) - 1 : inbox'[i] = inbox[i + 1]
    BY <1>1, <2>1
  <2>3. DOMAIN inbox' = 1..Len(inbox) - 1 /\ DOMAIN inbox = 1..Len(inbox) /\ Len(inbox) \in Nat
    BY <1>1, <2>1
  <2> QED  BY <2>1, <2>2, <2>3
<1> HIDE DEF r
<1>3. \A d \in Clients : Mine(d)'
  <2> TAKE d \in Clients
  <2>0. Mine(d)
    BY DEF AskInv
  <2>1. ASSUME NEW i \in DOMAIN inbox', inbox'[i].from = d
        PROVE  /\ cl[d].pc = inbox'[i].verb /\ r.from # d
               /\ \A j \in DOMAIN inbox' : inbox'[j].from = d => i = j
    <3>1. i + 1 \in DOMAIN inbox /\ inbox[i + 1].from = d /\ inbox'[i] = inbox[i + 1] /\ i + 1 # 1
      BY <1>2, <2>1
    <3>2. cl[d].pc = inbox'[i].verb /\ r.from # d
      BY <1>2, <2>0, <3>1 DEF Mine
    <3>3. ASSUME NEW j \in DOMAIN inbox', inbox'[j].from = d PROVE i = j
      <4>1. j + 1 \in DOMAIN inbox /\ inbox[j + 1].from = d
        BY <1>2, <3>3
      <4>2. j + 1 = i + 1
        BY <2>0, <3>1, <4>1 DEF Mine
      <4> QED  BY <1>2, <4>2
    <3> QED  BY <3>2, <3>3
  <2>2. CASE cur'.req = r /\ cur'.stage # "rest" /\ cl' = cl
    <3>1. r.from = d => cl[d].pc = r.verb
      BY <1>2, <2>0 DEF Mine
    <3>2. cl[d].pc \in Ends => cl[d].frames # <<>>
      BY <2>0 DEF Mine
    <3> QED  BY <2>1, <2>2, <3>1, <3>2 DEF Mine
  <2>3. CASE \E ok \in BOOLEAN : Reply(r, ok)
    <3>1. /\ cur'.stage = "rest" /\ (d # r.from => cl'[d] = cl[d])
          /\ d = r.from => cl'[d].pc \notin Ends
      BY <1>1, <2>3, Replied, ConnAssumption
    <3>2. cl[d].pc \in Ends => cl[d].frames # <<>>
      BY <2>0 DEF Mine
    <3> QED  BY <2>1, <3>1, <3>2 DEF Mine
  <2> QED  BY <1>1, <2>2, <2>3
<1> QED  BY <1>1, <1>3 DEF AskInv

\* After the answer nothing is left of the request.
LEMMA AskReplied ==
  ASSUME BaseInv, AskInv, NEW ok, cur.stage # "rest", cur.req \in Reqs, Reply(cur.req, ok),
         inbox' = inbox \/ inbox' = <<>>, wrk' # "run" => inbox' = <<>>
  PROVE  AskInv'
<1>1. /\ cur'.stage = "rest" /\ \A d \in Clients : d # cur.req.from => cl'[d] = cl[d]
      /\ cur.req.from # None => cur.req.from \in Clients /\ cl'[cur.req.from].pc \notin Ends
  BY Replied
<1>2. \A d \in Clients : Mine(d)'
  <2> TAKE d \in Clients
  <2>0. Mine(d)
    BY DEF AskInv
  <2>1. CASE d = cur.req.from
    <3>1. cl'[d].pc \notin Ends
      BY <1>1, <2>1, ConnAssumption
    <3>2. \A i \in DOMAIN inbox' : inbox'[i].from # d
      BY <2>0, <2>1 DEF Mine
    <3> QED  BY <1>1, <3>1, <3>2, MineNone
  <2>2. CASE d # cur.req.from
    <3>1. Less(d) /\ cl'[d] = cl[d]
      BY <1>1, <2>2 DEF Less
    <3> QED  BY <2>0, <3>1, MineLess
  <2> QED  BY <2>1, <2>2
<1> QED  BY <1>2 DEF AskInv

\* The mailbox and who is served are as before, or gone.
LEMMA AskKept ==
  ASSUME AskInv, inbox' = inbox \/ inbox' = <<>>, cl' = cl, wrk' # "run" => inbox' = <<>>,
         cur'.stage = "rest" \/ (cur.stage # "rest" /\ cur'.req = cur.req)
  PROVE  AskInv'
<1>1. \A d \in Clients : Mine(d)'
  <2> TAKE d \in Clients
  <2>1. Less(d)
    BY DEF Less
  <2> QED  BY <2>1, MineLess DEF AskInv
<1> QED  BY <1>1 DEF AskInv

LEMMA AskNext ==
  ASSUME BaseInv, AskInv, [Next]_vars
  PROVE  AskInv'
<1>1. CASE Native \/ Collect \/ UNCHANGED vars
  <2>1. UNCHANGED <<inbox, cur, cl, wrk>>
    BY <1>1 DEF Native, Collect, vars, adapterVars
  <2> QED  BY <2>1, AskKept DEF AskInv
<1>2. CASE RunDone \/ CreateDone \/ RelaxDone \/ BeginDone \/ UndoDone \/ NestDone \/ EndDone
           \/ RestoreDone
  <2>1. cur.stage # "rest" /\ inbox' = inbox /\ wrk' = "run"
    BY <1>2, Went
  <2>2. cur.req \in Reqs
        /\ \/ cur'.req = cur.req /\ cl' = cl
           \/ \E ok : Reply(cur.req, ok)
    BY <1>2, WentOn DEF Answers
  <2> QED  BY <2>1, <2>2, AskReplied, AskKept
<1>3. CASE CloseDone
  <2>1. cur.stage # "rest" /\ inbox' = <<>> /\ Reply(cur.req, TRUE)
    BY <1>3 DEF CloseDone, Result, WorkerEnds
  <2>2. cur.req \in Reqs
    BY <2>1 DEF BaseInv, TypeInv, WorkerType
  <2> QED  BY <2>1, <2>2, AskReplied
<1>4. CASE Crash
  <2>1. inbox' = <<>> /\ cur'.stage = "rest" /\ cl' = cl
    BY <1>4 DEF Crash, WorkerEnds, Rests
  <2> QED  BY <2>1, AskKept
<1> QED  BY <1>1, <1>2, <1>3, <1>4, AskTake, AskClient DEF Next, WorkerStep


-----------------------------------------------------------------------------
(* The transactions the clients believe in are no more than the worker has. *)

\* The transactions of all clients.
Tokens == {t \in Clients \X (Nat \ {0}) : t[2] <= Len(cl[t[1]].frames)}

\* A commit or rollback whose client gave up ends a level all the same.
Orphaned == {r \in Reqs : r.from = None /\ r.verb \in Ends}

Claim(r) == IF r \in Orphaned THEN 1 ELSE 0

Served == IF cur.stage = "rest" THEN 0 ELSE Claim(cur.req)

CountInv ==
  /\ IsFiniteSet(Tokens)
  /\ Cardinality(Tokens) + Cardinality(Places(inbox, Orphaned)) + Served <= depth

LEMMA NoPlaces == Cardinality(Places(<<>>, Orphaned)) = 0
<1>1. Places(<<>>, Orphaned) = {}
  BY DEF Places
<1> QED  BY <1>1, FS_EmptySet

LEMMA Lens ==
  ASSUME BaseInv
  PROVE  \A d \in Clients : cl[d].frames \in Seq(FrameSet) /\ Len(cl[d].frames) \in Nat
<1>1. \A d \in Clients : cl[d].frames \in Seq(FrameSet)
  BY DEF BaseInv, TypeInv, ClientType
<1> QED  BY <1>1

LEMMA Numbers ==
  ASSUME BaseInv, IsFiniteSet(Tokens)
  PROVE  /\ Cardinality(Tokens) \in Nat /\ Cardinality(Places(inbox, Orphaned)) \in Nat
         /\ Served \in {0, 1} /\ depth \in Nat
         /\ \A r : Claim(r) \in {0, 1}
<1>1. inbox \in Seq(Reqs) /\ depth \in Nat
  BY DEF BaseInv, TypeInv, WorkerType
<1> QED  BY <1>1, PlacesFinite, FS_CardinalityType DEF Served, Claim

\* One client opens a transaction, or ends some.
LEMMA TokensOne ==
  ASSUME BaseInv, BaseInv', IsFiniteSet(Tokens), NEW c \in Clients,
         \A d \in Clients : d # c => cl'[d].frames = cl[d].frames,
         Len(cl'[c].frames) <= Len(cl[c].frames) + 1
  PROVE  /\ IsFiniteSet(Tokens')
         /\ Cardinality(Tokens') <=
              Cardinality(Tokens) + (IF Len(cl'[c].frames) > Len(cl[c].frames) THEN 1
                                     ELSE IF Len(cl'[c].frames) < Len(cl[c].frames) THEN -1 ELSE 0)
<1> DEFINE n == Len(cl[c].frames)
           m == Len(cl'[c].frames)
<1>1. n \in Nat /\ m \in Nat
  BY Lens
<1>2. Cardinality(Tokens) \in Nat
  BY FS_CardinalityType
<1>3. \A t \in Clients \X (Nat \ {0}) :
        /\ t \in Tokens <=> t[2] <= Len(cl[t[1]].frames)
        /\ t \in Tokens' <=> t[2] <= Len(cl'[t[1]].frames)
        /\ t[1] # c => (t \in Tokens' <=> t \in Tokens)
  BY DEF Tokens
<1>4. Tokens \subseteq Clients \X (Nat \ {0}) /\ Tokens' \subseteq Clients \X (Nat \ {0})
  BY DEF Tokens
<1>5. CASE m > n
  <2>1. m = n + 1 /\ <<c, n + 1>> \in Clients \X (Nat \ {0})
    BY <1>1, <1>5
  <2>2. Tokens' \subseteq Tokens \union {<<c, n + 1>>}
    BY <1>1, <1>3, <1>4, <2>1
  <2>3. <<c, n + 1>> \notin Tokens
    BY <1>1, <1>3, <2>1
  <2>4. /\ IsFiniteSet(Tokens \union {<<c, n + 1>>})
        /\ Cardinality(Tokens \union {<<c, n + 1>>}) = Cardinality(Tokens) + 1
    BY <2>3, FS_AddElement
  <2>5. IsFiniteSet(Tokens') /\ Cardinality(Tokens') <= Cardinality(Tokens) + 1
    BY <2>2, <2>4, FS_Subset
  <2> QED  BY <1>5, <2>5
<1>6. CASE m < n
  <2>1. <<c, n>> \in Clients \X (Nat \ {0}) /\ <<c, n>> \in Tokens
    BY <1>1, <1>3, <1>6
  <2>2. Tokens' \subseteq Tokens \ {<<c, n>>}
    BY <1>1, <1>3, <1>4, <1>6
  <2>3. /\ IsFiniteSet(Tokens \ {<<c, n>>})
        /\ Cardinality(Tokens \ {<<c, n>>}) = Cardinality(Tokens) - 1
    BY <2>1, FS_RemoveElement
  <2>4. IsFiniteSet(Tokens') /\ Cardinality(Tokens') <= Cardinality(Tokens) - 1
    BY <2>2, <2>3, FS_Subset
  <2> QED  BY <1>2, <1>6, <2>4
<1>7. CASE m = n
  <2>1. Tokens' \subseteq Tokens
    BY <1>1, <1>3, <1>4, <1>7
  <2>2. IsFiniteSet(Tokens') /\ Cardinality(Tokens') <= Cardinality(Tokens)
    BY <2>1, FS_Subset
  <2> QED  BY <1>2, <1>7, <2>2
<1> QED  BY <1>1, <1>5, <1>6, <1>7

\* Each of its transactions is a level of the connection.
LEMMA Below ==
  ASSUME BaseInv, CountInv, NEW c \in Clients
  PROVE  Len(cl[c].frames) <= depth
<1> DEFINE n == Len(cl[c].frames)
           S == {t \in Tokens : t[1] = c}
           f == [k \in 1..n |-> <<c, k>>]
<1>1. n \in Nat
  BY Lens
<1>2. f \in Bijection(1..n, S)
  <2>1. \A k \in 1..n : <<c, k>> \in S
    BY <1>1 DEF Tokens
  <2>2. \A t \in S : t[2] \in 1..n /\ t = <<c, t[2]>>
    BY <1>1 DEF Tokens
  <2> HIDE DEF n, S
  <2>3. f \in [1..n -> S]
    BY <2>1
  <2>4. \A i, j \in 1..n : f[i] = f[j] => i = j
    OBVIOUS
  <2>5. \A t \in S : \E k \in 1..n : f[k] = t
    BY <2>2
  <2> HIDE DEF f
  <2> QED  BY <2>3, <2>4, <2>5 DEF Bijection, Injection, Surjection, IsInjective
<1> HIDE DEF f
<1>3. IsFiniteSet(S) /\ Cardinality(S) <= Cardinality(Tokens)
  BY FS_Subset DEF CountInv
<1> HIDE DEF S
<1>4. ExistsBijection(1..n, S)
  BY <1>2, Zenon DEF ExistsBijection
<1>5. Cardinality(1..n) = n /\ IsFiniteSet(1..n)
  <2> HIDE DEF n
  <2> QED  BY <1>1, FS_Interval
<1>6. Cardinality(S) = n
  <2> HIDE DEF n
  <2> QED  BY <1>3, <1>4, <1>5, FS_Bijection
<1>7. Cardinality(Tokens) <= depth
  BY Numbers DEF CountInv
<1> QED  BY <1>1, <1>3, <1>6, <1>7, Numbers DEF CountInv


\* A client that gives up leaves at most one request behind that ends a transaction, the
\* one it was waiting for.
LEMMA CountGaveUp ==
  ASSUME BaseInv, BaseInv', AskInv, IsFiniteSet(Tokens), NEW c \in Clients, GaveUp(c)
  PROVE  Cardinality(Places(inbox', Orphaned)) + Served' <=
           Cardinality(Places(inbox, Orphaned)) + Served + (IF cl[c].pc \in Ends THEN 1 ELSE 0)
<1> DEFINE P == Places(inbox, Orphaned)
           R == Places(inbox', Orphaned)
<1>0. /\ inbox \in Seq(Reqs) /\ inbox' \in Seq(Reqs) /\ Mine(c) /\ None \notin Clients
      /\ cur.stage # "rest" => cur.req \in Reqs
  BY ConnAssumption DEF BaseInv, TypeInv, WorkerType, AskInv
<1>1. IsFiniteSet(P) /\ IsFiniteSet(R) /\ Cardinality(P) \in Nat /\ Cardinality(R) \in Nat
      /\ Served \in {0, 1} /\ Served' \in {0, 1}
  BY <1>0, PlacesFinite DEF Served, Claim
<1>2. DOMAIN inbox' = DOMAIN inbox /\ \A i \in DOMAIN inbox : inbox'[i] = Orphan(c, inbox[i])
  BY DEF GaveUp
<1>3. cur'.stage = cur.stage /\ (cur.stage # "rest" => cur'.req = Orphan(c, cur.req))
  <2>1. cur \in [req : Reqs \union {None}, stage : Stages]
    BY DEF BaseInv, TypeInv, WorkerType
  <2> QED  BY <2>1 DEF GaveUp
<1>4. \A r \in Reqs :
        /\ r.from # c => Orphan(c, r) = r
        /\ r.from = c => r \notin Orphaned
        /\ (r.from = c /\ r.verb \notin Ends) => Orphan(c, r) \notin Orphaned
  BY <1>0, OrphanType DEF Orphaned, Orphan
<1>5. \A i \in DOMAIN inbox : inbox[i] \in Reqs
  BY <1>0
<1>6. \A i \in R : i \in P \/ (i \in DOMAIN inbox /\ inbox[i].from = c /\ inbox[i].verb \in Ends)
  BY <1>2, <1>4, <1>5 DEF Places
<1>7. (cur.stage # "rest" /\ cur.req.from # c) => Served' = Served
  BY <1>0, <1>3, <1>4 DEF Served
<1>8. cur.stage = "rest" => Served' = Served
  BY <1>3 DEF Served
<1>9. CASE cl[c].pc \notin Ends
  <2>1. R \subseteq P
    BY <1>0, <1>6, <1>9 DEF Mine
  <2>2. Cardinality(R) <= Cardinality(P)
    BY <1>1, <2>1, FS_Subset
  <2>3. (cur.stage # "rest" /\ cur.req.from = c) => Served' = Served
    BY <1>0, <1>3, <1>4, <1>9 DEF Served, Claim, Mine
  <2> QED  BY <1>1, <1>7, <1>8, <1>9, <2>2, <2>3
<1>10. CASE cl[c].pc \in Ends /\ cur.stage # "rest" /\ cur.req.from = c
  <2>1. R \subseteq P
    BY <1>0, <1>6, <1>10 DEF Mine
  <2>2. Cardinality(R) <= Cardinality(P)
    BY <1>1, <2>1, FS_Subset
  <2> QED  BY <1>1, <1>10, <2>2
<1>11. CASE cl[c].pc \in Ends /\ ~(cur.stage # "rest" /\ cur.req.from = c)
  <2>1. Served' = Served
    BY <1>7, <1>8, <1>11
  <2>2. Cardinality(R) <= Cardinality(P) + 1
    <3>1. CASE R \subseteq P
      <4>1. Cardinality(R) <= Cardinality(P)
        BY <1>1, <3>1, FS_Subset
      <4> QED  BY <1>1, <4>1
    <3>2. CASE ~(R \subseteq P)
      <4>1. PICK k \in R : k \notin P
        BY <3>2
      <4>2. R \subseteq P \union {k}
        BY <1>0, <1>6, <4>1 DEF Mine
      <4>3. IsFiniteSet(P \union {k}) /\ Cardinality(P \union {k}) = Cardinality(P) + 1
        BY <1>1, <4>1, FS_AddElement
      <4>4. Cardinality(R) <= Cardinality(P \union {k})
        BY <4>2, <4>3, FS_Subset
      <4> QED  BY <4>3, <4>4
    <3> QED  BY <3>1, <3>2
  <2> QED  BY <1>1, <1>11, <2>1, <2>2
<1> QED  BY <1>9, <1>10, <1>11

\* A verb that fails ends a transaction at most, which it does for commit and rollback.
LEMMA Refused ==
  ASSUME BaseInv, NEW c \in Clients, NEW verb, NEW arg, Answered(c, verb, arg, FALSE)
  PROVE  /\ Len(cl'[c].frames) <= Len(cl[c].frames)
         /\ verb \in Ends /\ Len(cl[c].frames) > 0 => Len(cl'[c].frames) < Len(cl[c].frames)
         /\ \A d \in Clients : d # c => cl'[d].frames = cl[d].frames
<1>1. ClientType /\ Len(cl[c].frames) \in Nat
  BY Lens DEF BaseInv, TypeInv
<1>2. /\ Len(cl'[c].frames) = IF verb \in Ends /\ Len(cl[c].frames) > 0 THEN Len(cl[c].frames) - 1
                              ELSE Len(cl[c].frames)
      /\ \A d \in Clients : d # c => cl'[d] = cl[d]
  BY <1>1, AnsweredFrames
<1> QED  BY <1>1, <1>2

LEMMA CountClient ==
  ASSUME BaseInv, BaseInv', AskInv, CountInv, NEW c \in Clients, ClientStep(c)
  PROVE  CountInv'
<1>0. /\ cl \in [Clients -> [pc : ClientPcs, frames : Seq(FrameSet)]] /\ ClientType
      /\ inbox \in Seq(Reqs) /\ depth' = depth /\ Mine(c)
      /\ IsFiniteSet(Tokens)
      /\ Cardinality(Tokens) + Cardinality(Places(inbox, Orphaned)) + Served <= depth
  BY ClientKeeps DEF BaseInv, TypeInv, ClientType, WorkerType, AskInv, CountInv
<1>1. ASSUME Len(cl'[c].frames) <= Len(cl[c].frames),
             \A d \in Clients : d # c => cl'[d].frames = cl[d].frames,
             Cardinality(Places(inbox', Orphaned)) + Served' <=
               Cardinality(Places(inbox, Orphaned)) + Served
               + (IF Len(cl'[c].frames) < Len(cl[c].frames) THEN 1 ELSE 0)
      PROVE  CountInv'
  <2> DEFINE n == Len(cl[c].frames)
             m == Len(cl'[c].frames)
  <2>0. n \in Nat /\ m \in Nat
    BY Lens
  <2>1. IsFiniteSet(Tokens')
        /\ Cardinality(Tokens') <= Cardinality(Tokens) + (IF m > n THEN 1 ELSE IF m < n THEN -1 ELSE 0)
    <3>1. IsFiniteSet(Tokens) /\ m <= n + 1 /\ (\A d \in Clients : d # c => cl'[d].frames = cl[d].frames)
      BY <1>0, <1>1, <2>0
    <3> QED  BY <2>0, <3>1, TokensOne
  <2>2. /\ Cardinality(Tokens) \in Nat /\ Cardinality(Places(inbox, Orphaned)) \in Nat
        /\ Served \in {0, 1} /\ depth \in Nat
        /\ Cardinality(Tokens') \in Nat /\ Cardinality(Places(inbox', Orphaned)) \in Nat
        /\ Served' \in {0, 1}
    <3>1. inbox' \in Seq(Reqs)
      BY DEF BaseInv, TypeInv, WorkerType
    <3> QED  BY <1>0, <2>1, <3>1, Numbers, PlacesFinite, FS_CardinalityType DEF Served, Claim
  <2> DEFINE t == Cardinality(Tokens)
             T == Cardinality(Tokens')
             p == Cardinality(Places(inbox, Orphaned))
             P == Cardinality(Places(inbox', Orphaned))
             e == Served
             E == Served'
  <2>4. /\ t + p + e <= depth /\ depth' = depth
        /\ T <= t + (IF m > n THEN 1 ELSE IF m < n THEN -1 ELSE 0)
        /\ m <= n
        /\ P + E <= p + e + (IF m < n THEN 1 ELSE 0)
        /\ t \in Nat /\ T \in Nat /\ p \in Nat /\ P \in Nat /\ e \in {0, 1} /\ E \in {0, 1}
    BY <1>0, <1>1, <2>1, <2>2
  <2> HIDE DEF n, m, t, T, p, P, e, E
  <2>5. T + P + E <= depth'
    BY <2>0, <2>2, <2>4
  <2>3. Cardinality(Tokens') + Cardinality(Places(inbox', Orphaned)) + Served' <= depth'
    BY <2>5 DEF T, P, E
  <2> QED  BY <2>1, <2>3 DEF CountInv
<1>2. ASSUME UNCHANGED <<inbox, cur>> PROVE
        /\ Cardinality(Places(inbox', Orphaned)) = Cardinality(Places(inbox, Orphaned))
        /\ Served' = Served
  BY <1>2 DEF Served
<1>3. CASE \/ Connect(c) \/ Opened(c) \/ Ready(c) \/ Abandoned(c) \/ Unregister(c)
  <2>1. UNCHANGED <<cur, inbox>> /\ \E pc : cl' = [cl EXCEPT ![c].pc = pc]
    BY <1>3 DEF Connect, Opened, Ready, Abandoned, Unregister, adapterVars
  <2>2. \A d \in Clients : cl'[d].frames = cl[d].frames
    BY <1>0, <2>1
  <2> QED  BY <1>0, <1>1, <1>2, <2>1, <2>2, Lens, Numbers
<1>4. CASE \/ \E w \in Writes, v \in Values : Insert(c, w, v)
           \/ Read(c) \/ Begin(c) \/ End(c) \/ CloseHandle(c)
  <2>1. PICK verb, arg, val : verb \in Waiting /\ Send(c, verb, arg, val)
    BY <1>4 DEF Insert, Read, Begin, End, CloseHandle, Waiting
  <2>2. \A d \in Clients : cl'[d].frames = cl[d].frames
    BY <1>0, <2>1 DEF Send
  <2>3. Served' = Served
    BY <2>1 DEF Send, Served
  <2>4. Cardinality(Places(inbox', Orphaned)) = Cardinality(Places(inbox, Orphaned))
    <3>1. CASE inbox' = inbox
      BY <3>1
    <3>2. CASE inbox' = Append(inbox, Request(c, verb, arg, val))
      <4> DEFINE r == Request(c, verb, arg, val)
      <4>1. r \in Reqs
        <5>1. inbox' \in Seq(Reqs)
          BY DEF BaseInv, TypeInv, WorkerType
        <5> HIDE DEF r
        <5>2. inbox' = Append(inbox, r)
          BY <3>2 DEF r
        <5>3. Len(inbox) + 1 \in 1..Len(inbox') /\ inbox'[Len(inbox) + 1] = r
          BY <1>0, <5>2
        <5> QED  BY <5>1, <5>3
      <4>2. r \notin Orphaned
        BY ConnAssumption DEF Request, Orphaned
      <4> HIDE DEF r
      <4>3. inbox' = Append(inbox, r)
        BY <3>2 DEF r
      <4> QED  BY <1>0, <4>1, <4>2, <4>3, PlacesAppend, Numbers
    <3> QED  BY <2>1, <3>1, <3>2 DEF Send
  <2> QED  BY <1>0, <1>1, <2>2, <2>3, <2>4, Lens, Numbers
<1>5. CASE \/ \E verb \in {"commit", "rollback"} : NotFound(c, verb)
           \/ Down(c)
  <2>1. PICK verb : Answered(c, verb, None, FALSE) /\ UNCHANGED <<cur, inbox>>
    BY <1>5 DEF NotFound, Down, adapterVars
  <2>2. /\ Len(cl'[c].frames) <= Len(cl[c].frames)
        /\ \A d \in Clients : d # c => cl'[d].frames = cl[d].frames
    BY <1>0, <2>1, Refused
  <2> QED  BY <1>0, <1>1, <1>2, <2>1, <2>2, Lens, Numbers
<1>6. CASE Timeout(c) \/ Die(c)
  <2>1. GaveUp(c)
    BY <1>6 DEF Timeout, Die
  <2>2. /\ Len(cl'[c].frames) <= Len(cl[c].frames)
        /\ cl[c].pc \in Ends => Len(cl'[c].frames) < Len(cl[c].frames)
        /\ \A d \in Clients : d # c => cl'[d].frames = cl[d].frames
    <3>0. cl[c].pc \in Ends => Len(cl[c].frames) > 0
      BY <1>0, Lens, EmptySeq DEF Mine
    <3>1. CASE Timeout(c)
      <4>1. Answered(c, cl[c].pc, None, FALSE)
        BY <3>1 DEF Timeout
      <4> QED  BY <1>0, <3>0, <4>1, Refused
    <3>2. CASE Die(c)
      <4>1. cl'[c].frames = <<>> /\ \A d \in Clients : d # c => cl'[d].frames = cl[d].frames
        BY <1>0, <3>2 DEF Die
      <4> QED  BY <3>0, <4>1, Lens
    <3> QED  BY <1>6, <3>1, <3>2
  <2>3. Cardinality(Places(inbox', Orphaned)) + Served' <=
          Cardinality(Places(inbox, Orphaned)) + Served + (IF cl[c].pc \in Ends THEN 1 ELSE 0)
    BY <1>0, <2>1, CountGaveUp
  <2>4. Cardinality(Places(inbox', Orphaned)) \in Nat /\ Served' \in {0, 1}
    <3>1. inbox' \in Seq(Reqs)
      BY DEF BaseInv, TypeInv, WorkerType
    <3> QED  BY <3>1, PlacesFinite DEF Served, Claim
  <2>5. Cardinality(Places(inbox', Orphaned)) + Served' <=
          Cardinality(Places(inbox, Orphaned)) + Served
          + (IF Len(cl'[c].frames) < Len(cl[c].frames) THEN 1 ELSE 0)
    BY <1>0, <2>2, <2>3, <2>4, Lens, Numbers
  <2> QED  BY <1>1, <2>2, <2>5
<1> QED  BY <1>3, <1>4, <1>5, <1>6 DEF ClientStep


\* What an answer does to the transactions of the clients.
LEMMA RepliedTokens ==
  ASSUME BaseInv, BaseInv', IsFiniteSet(Tokens), NEW r \in Reqs, NEW ok, Reply(r, ok),
         r.verb \in Ends /\ r.from # None => cl[r.from].frames # <<>>
  PROVE  /\ IsFiniteSet(Tokens') /\ Served' = 0
         /\ Cardinality(Tokens') <=
              Cardinality(Tokens) + (IF r.verb = "begin" /\ ok THEN 1
                                     ELSE IF r.verb \in Ends THEN Claim(r) - 1 ELSE 0)
<1>1. Served' = 0 /\ Cardinality(Tokens) \in Nat
  BY Replied, FS_CardinalityType DEF Served
<1>2. CASE r.from = None
  <2>1. Tokens' = Tokens
    BY <1>2, Replied DEF Tokens
  <2>2. r.verb \in Ends => Claim(r) = 1
    BY <1>2 DEF Claim, Orphaned
  <2> QED  BY <1>1, <2>1, <2>2
<1>3. CASE r.from # None
  <2> DEFINE c == r.from
             n == Len(cl[c].frames)
             m == Len(cl'[c].frames)
  <2>1. /\ c \in Clients /\ \A d \in Clients : d # c => cl'[d] = cl[d]
        /\ m = IF r.verb = "begin" /\ ok THEN n + 1
               ELSE IF r.verb \in Ends /\ n > 0 THEN n - 1 ELSE n
    BY <1>3, Replied
  <2>2. n \in Nat /\ m \in Nat /\ (r.verb \in Ends => n > 0)
    <3>1. cl[c].frames \in Seq(FrameSet) /\ n \in Nat /\ m \in Nat
      BY <2>1, Lens
    <3> QED  BY <1>3, <3>1, EmptySeq
  <2>3. Claim(r) = 0 /\ "begin" \notin Ends
    BY <1>3 DEF Claim, Orphaned, Ends
  <2>4. IsFiniteSet(Tokens')
        /\ Cardinality(Tokens') <= Cardinality(Tokens) + (IF m > n THEN 1 ELSE IF m < n THEN -1 ELSE 0)
    <3>1. \A d \in Clients : d # c => cl'[d].frames = cl[d].frames
      BY <2>1
    <3>2. m <= n + 1
      BY <2>1, <2>2
    <3> HIDE DEF c
    <3> QED  BY <2>1, <3>1, <3>2, TokensOne
  <2> HIDE DEF n, m
  <2>5. (IF m > n THEN 1 ELSE IF m < n THEN -1 ELSE 0) =
          IF r.verb = "begin" /\ ok THEN 1 ELSE IF r.verb \in Ends THEN -1 ELSE 0
    BY <2>1, <2>2, <2>3
  <2> QED  BY <1>1, <2>3, <2>4, <2>5
<1> QED  BY <1>2, <1>3

LEMMA CountTake ==
  ASSUME BaseInv, BaseInv', AskInv, CountInv, Take
  PROVE  CountInv'
<1> DEFINE r == Head(inbox)
           p == Cardinality(Places(inbox, Orphaned))
           P == Cardinality(Places(inbox', Orphaned))
<1>1. /\ inbox' = Tail(inbox) /\ r \in Reqs /\ inbox \in Seq(Reqs) /\ inbox # <<>>
      /\ cur.stage = "rest" /\ depth' = depth
      /\ \/ cur'.req = r /\ cur'.stage # "rest" /\ cl' = cl
         \/ \E ok \in BOOLEAN : Reply(r, ok) /\ ~(r.verb = "begin" /\ ok)
  <2>1. /\ inbox' = Tail(inbox) /\ r \in Reqs /\ inbox \in Seq(Reqs) /\ inbox # <<>>
        /\ cur.stage = "rest" /\ depth' = depth
    BY TakenHead
  <2>2. \/ cur'.req = r /\ cur'.stage # "rest" /\ cl' = cl
        \/ \E ok \in BOOLEAN : /\ Reply(r, ok)
                               /\ (r.verb \in Ends /\ depth = 0) \/ (r.verb = "begin" /\ ~ok)
    BY TakenHead
  <2> QED  BY <2>1, <2>2 DEF Ends
<1>2. P = p - Claim(r)
  BY <1>1, PlacesTail DEF Claim
<1>3. /\ IsFiniteSet(Tokens) /\ Cardinality(Tokens) + p + Served <= depth
      /\ Cardinality(Tokens) \in Nat /\ p \in Nat /\ Served = 0 /\ depth \in Nat
      /\ Claim(r) \in {0, 1}
  BY <1>1, Numbers DEF CountInv, Served
<1>4. CASE cur'.req = r /\ cur'.stage # "rest" /\ cl' = cl
  <2>1. Served' = Claim(r) /\ Tokens' = Tokens
    BY <1>4 DEF Served, Tokens
  <2> HIDE DEF r, p, P
  <2>2. Cardinality(Tokens') + P + Served' <= depth'
    BY <1>1, <1>2, <1>3, <2>1
  <2> QED  BY <1>3, <2>1, <2>2 DEF CountInv, P
<1>5. CASE \E ok \in BOOLEAN : Reply(r, ok) /\ ~(r.verb = "begin" /\ ok)
  <2>1. PICK ok \in BOOLEAN : Reply(r, ok) /\ ~(r.verb = "begin" /\ ok)
    BY <1>5
  <2>2. r.verb \in Ends /\ r.from # None => cl[r.from].frames # <<>>
    <3>1. r = inbox[1] /\ 1 \in DOMAIN inbox
      BY <1>1
    <3>2. r.from # None => r.from \in Clients
      BY <1>1 DEF Reqs
    <3> HIDE DEF r
    <3> QED  BY <3>1, <3>2 DEF AskInv, Mine
  <2> HIDE DEF r, p, P
  <2>3. /\ IsFiniteSet(Tokens') /\ Served' = 0
        /\ Cardinality(Tokens') <= Cardinality(Tokens) + (IF r.verb \in Ends THEN Claim(r) - 1 ELSE 0)
    BY <1>1, <1>3, <2>1, <2>2, RepliedTokens
  <2>4. Cardinality(Tokens') \in Nat
    BY <2>3, FS_CardinalityType
  <2>5. Cardinality(Tokens') + P + Served' <= depth'
    BY <1>1, <1>2, <1>3, <2>3, <2>4
  <2> QED  BY <2>3, <2>5 DEF CountInv, P
<1> QED  BY <1>1, <1>4, <1>5

\* The mailbox as before or gone, and the same request or none.
LEMMA CountKept ==
  ASSUME BaseInv, CountInv, inbox' = inbox \/ inbox' = <<>>, cl' = cl, depth' = depth,
         cur'.stage = "rest" \/ (cur.stage # "rest" /\ cur'.req = cur.req)
  PROVE  CountInv'
<1>1. /\ IsFiniteSet(Tokens)
      /\ Cardinality(Tokens) + Cardinality(Places(inbox, Orphaned)) + Served <= depth
      /\ Cardinality(Tokens) \in Nat /\ Cardinality(Places(inbox, Orphaned)) \in Nat
      /\ Served \in {0, 1} /\ depth \in Nat
  BY Numbers DEF CountInv
<1>2. Tokens' = Tokens
  BY DEF Tokens
<1>3. Served' = 0 \/ Served' = Served
  BY DEF Served
<1>4. \/ Cardinality(Places(inbox', Orphaned)) = Cardinality(Places(inbox, Orphaned))
      \/ Cardinality(Places(inbox', Orphaned)) = 0
  BY NoPlaces
<1> DEFINE P == Cardinality(Places(inbox', Orphaned))
           p == Cardinality(Places(inbox, Orphaned))
           t == Cardinality(Tokens)
<1> HIDE DEF P, p, t
<1>5. t + P + Served' <= depth'
  BY <1>1, <1>3, <1>4 DEF P, p, t
<1> QED  BY <1>1, <1>2, <1>5 DEF CountInv, P, t

LEMMA CountReplied ==
  ASSUME BaseInv, BaseInv', AskInv, CountInv, NEW ok, cur.stage # "rest", cur.req \in Reqs,
         Reply(cur.req, ok), inbox' = inbox \/ inbox' = <<>>,
         \/ cur.req.verb \notin Ends \union {"begin"} /\ depth' = depth
         \/ cur.req.verb = "begin" /\ depth' = IF ok THEN depth + 1 ELSE depth
         \/ cur.req.verb \in Ends /\ (depth' = depth - 1 \/ depth' = depth)
  PROVE  CountInv'
<1> DEFINE P == Cardinality(Places(inbox', Orphaned))
           p == Cardinality(Places(inbox, Orphaned))
           t == Cardinality(Tokens)
           T == Cardinality(Tokens')
           a == Claim(cur.req)
<1>1. /\ IsFiniteSet(Tokens) /\ t + p + Served <= depth
      /\ t \in Nat /\ p \in Nat /\ depth \in Nat /\ a \in {0, 1} /\ Served = a
  BY Numbers DEF CountInv, Served
<1>2. P = p \/ P = 0
  BY NoPlaces
<1>3. cur.req.verb \in Ends /\ cur.req.from # None => cl[cur.req.from].frames # <<>>
  BY DEF AskInv, Mine, Reqs
<1>4. /\ IsFiniteSet(Tokens') /\ Served' = 0
      /\ T <= t + (IF cur.req.verb = "begin" /\ ok THEN 1
                   ELSE IF cur.req.verb \in Ends THEN a - 1 ELSE 0)
  BY <1>1, <1>3, RepliedTokens
<1>5. T \in Nat /\ "begin" \notin Ends
  BY <1>4, FS_CardinalityType DEF Ends
<1> HIDE DEF P, p, t, T, a
<1>6. T + P + Served' <= depth'
  BY <1>1, <1>2, <1>4, <1>5
<1> QED  BY <1>4, <1>6 DEF CountInv, T, P


LEMMA CountNext ==
  ASSUME BaseInv, BaseInv', AskInv, CountInv, [Next]_vars
  PROVE  CountInv'
<1>1. CASE Native \/ Collect \/ UNCHANGED vars
  <2>1. UNCHANGED <<inbox, cur, cl, depth>>
    BY <1>1 DEF Native, Collect, vars, adapterVars
  <2> QED  BY <2>1, CountKept
<1>2. CASE RunDone \/ CreateDone \/ RelaxDone \/ BeginDone \/ UndoDone \/ NestDone \/ EndDone
           \/ RestoreDone
  <2>1. cur.stage # "rest" /\ inbox' = inbox
    BY <1>2, Went
  <2>2. cur.req \in Reqs
    BY <1>2, WentOn
  <2>3. CASE cur'.req = cur.req /\ cl' = cl /\ depth' = depth
    BY <2>1, <2>3, CountKept
  <2>4. CASE \E ok \in BOOLEAN : Answers(ok)
    <3>1. PICK ok \in BOOLEAN : Answers(ok)
      BY <2>4
    <3>2. /\ Reply(cur.req, ok)
          /\ \/ cur.req.verb \notin Ends \union {"begin"} /\ depth' = depth
             \/ cur.req.verb = "begin" /\ depth' = IF ok THEN depth + 1 ELSE depth
             \/ cur.req.verb \in Ends /\ (depth' = depth - 1 \/ depth' = depth)
      BY <3>1 DEF Answers
    <3> QED  BY <2>1, <2>2, <3>2, CountReplied
  <2> QED  BY <1>2, <2>3, <2>4, WentOn
<1>3. CASE CloseDone
  <2>1. cur.stage = "close" /\ inbox' = <<>> /\ Reply(cur.req, TRUE) /\ depth' = depth
    BY <1>3 DEF CloseDone, Result, WorkerEnds, SameTx
  <2>2. cur.req \in Reqs /\ cur.req.verb = "close"
    BY <2>1 DEF BaseInv, TypeInv, WorkerType, StageInv
  <2> QED  BY <2>1, <2>2, CountReplied DEF Ends
<1>4. CASE Crash
  <2>1. inbox' = <<>> /\ cur'.stage = "rest" /\ cl' = cl /\ depth' = depth
    BY <1>4 DEF Crash, WorkerEnds, Rests
  <2> QED  BY <2>1, CountKept
<1> QED  BY <1>1, <1>2, <1>3, <1>4, CountTake, CountClient DEF Next, WorkerStep


-----------------------------------------------------------------------------
(* What the rows of each transaction of a client are to the connection, while SQLite *)
(* has not taken it back. *)

Alive == wrk = "run" /\ ~conn.closed

\* Rows that were rolled back.
Gone(ws) ==
  /\ ws \intersect (db.durable \union db.visible) = {}
  /\ \A k \in DOMAIN OpenTx : ws \intersect OpenTx[k] = {}

\* Rows written in level i, which is still open.
Held(ws, i) ==
  /\ ws \subseteq db.visible /\ ws \intersect db.durable = {}
  /\ \A k \in DOMAIN OpenTx : IF k <= i THEN ws \intersect OpenTx[k] = {} ELSE ws \subseteq OpenTx[k]

\* Rows of the innermost level, or of a level that was committed into it: durable when no
\* level is left.
Merged(ws) ==
  /\ ws \subseteq db.visible
  /\ OpenTx # <<>> => /\ ws \intersect db.durable = {}
                      /\ \A k \in DOMAIN OpenTx : ws \intersect OpenTx[k] = {}

\* A sound transaction at level i has its rows there, and from the statement that ends it
\* to the answer, where that statement has put them.
Located(c, i) ==
  cl[c].frames[i].sound =>
    /\ i <= Nesting => Held(cl[c].frames[i].ws, i)
    /\ i > Nesting => IF cur.req.verb = "commit" THEN Merged(cl[c].frames[i].ws)
                      ELSE Gone(cl[c].frames[i].ws)

FrameInv ==
  Alive /\ ~torn =>
    /\ \A c \in Clients : \A i \in 1..Len(cl[c].frames) : Located(c, i)
    /\ cur.stage = "run" /\ cur.req.verb = "insert" /\ Took => Merged({cur.req.arg})

RowsInv ==
  /\ db.durable \subseteq db.visible
  /\ kept \subseteq db.durable
  /\ ~torn => Gone(undone) /\ \A k \in DOMAIN OpenTx : db.durable \subseteq OpenTx[k]
  /\ torn => \A w \in undone : ~Seen(db, w)

\* A transaction inside a sound one is sound.
MonoInv ==
  \A c \in Clients : \A i, j \in 1..Len(cl[c].frames) :
    i <= j /\ cl[c].frames[i].sound => cl[c].frames[j].sound

\* Nobody will insert this row any more.
Spent(w) ==
  /\ w \notin fresh
  /\ \A i \in DOMAIN inbox : inbox[i].verb = "insert" => inbox[i].arg # w
  /\ Unserved /\ cur.req.verb = "insert" => cur.req.arg # w

SpentInv ==
  /\ \A c \in Clients : \A i \in 1..Len(cl[c].frames) : \A w \in cl[c].frames[i].ws : Spent(w)
  /\ \A w \in undone : Spent(w)
  /\ cur.stage = "run" /\ cur.req.verb = "insert" /\ call[Worker].pc = "ret" => Spent(cur.req.arg)

BeliefInv == AskInv /\ CountInv /\ MonoInv /\ SpentInv /\ FrameInv /\ RowsInv

Deep ==
  /\ OpenTx \in Seq(SUBSET Writes) /\ DOMAIN OpenTx = 1..Len(OpenTx)
  /\ Len(OpenTx) \in Nat /\ Nesting \in Nat
  /\ Alive => Len(OpenTx) = Nesting
  /\ OpenTx = <<>> => db.visible = db.durable
  /\ \A k \in DOMAIN OpenTx : \E i \in DOMAIN db.saves : OpenTx[k] = db.saves[i].snap

LEMMA HowDeep == BaseInv /\ StackInv /\ ~torn => Deep
<1> SUFFICES ASSUME BaseInv, StackInv, ~torn PROVE Deep
  OBVIOUS
<1> DEFINE s == db.saves
           n == Nesting
<1>1. s \in Seq(Saves) /\ n \in Nat /\ Stack(db, n)
  BY NestingType DEF BaseInv, TypeInv, NifType, Dbs, StackInv, Rows
<1>2. s # <<>> => Shaped(s, n)
  BY <1>1 DEF Stack
<1>3. OpenTx = Opens(s, n)
  BY OpenTxIs
<1>4. /\ Opens(s, n) \in Seq(SUBSET Writes)
      /\ Len(Opens(s, n)) = IF s = <<>> THEN 0 ELSE n
      /\ Opens(s, n) = <<>> <=> s = <<>>
      /\ s # <<>> => \A k \in 1..n : Opens(s, n)[k] = s[At(s, k - 1)].snap
  <2> HIDE DEF s, n
  <2> QED  BY <1>1, <1>2, OpensType
<1>5. s # <<>> => \A k \in 1..n : At(s, k - 1) \in DOMAIN s
  <2> SUFFICES ASSUME s # <<>>, NEW k \in 1..n PROVE At(s, k - 1) \in DOMAIN s
    OBVIOUS
  <2>1. k - 1 \in 0..n - 1
    BY <1>1
  <2> HIDE DEF s, n
  <2> QED  BY <1>1, <1>2, <2>1, ShapedAt
<1>6. DOMAIN OpenTx = 1..Len(OpenTx) /\ Len(OpenTx) \in Nat
  BY <1>3, <1>4
<1>7. OpenTx = <<>> => db.visible = db.durable
  BY <1>1, <1>3, <1>4 DEF Stack
<1>8. Alive => Len(OpenTx) = Nesting
  BY <1>3, <1>4 DEF Alive, StackInv
<1>9. \A k \in DOMAIN OpenTx : \E i \in DOMAIN s : OpenTx[k] = s[i].snap
  BY <1>3, <1>4, <1>5, <1>6
<1> QED  BY <1>1, <1>3, <1>4, <1>6, <1>7, <1>8, <1>9 DEF Deep

LEMMA SpentKept ==
  ASSUME fresh' \subseteq fresh, InboxKept,
         Unserved' /\ cur'.req.verb = "insert" =>
           Unserved /\ cur.req.verb = "insert" /\ cur'.req.arg = cur.req.arg,
         NEW w, Spent(w)
  PROVE  Spent(w)'
BY DEF Spent, InboxKept

LEMMA SpentNext ==
  ASSUME TxsInv, [Next]_vars, NEW w, Spent(w)
  PROVE  Spent(w)'
<1>1. BaseInv /\ StageInv /\ AliveInv /\ StackInv /\ TornType /\ inbox \in Seq(Reqs)
      /\ (cur.stage # "rest" => cur.req \in Reqs) /\ (wrk = "none" => db.saves = <<>>)
  BY DEF TxsInv, BaseInv, TypeInv, WorkerType, StackInv
<1>2. CASE Native
  <2>1. UNCHANGED <<inbox, cur, fresh>> /\ InboxKept
    BY <1>1, <1>2, NativeCases DEF InboxKept
  <2>2. call[Worker].pc = "ret" => call'[Worker].pc = "ret"
    BY <1>1, <1>2, NativeCases
  <2> QED  BY <2>1, <2>2, SpentKept DEF Unserved
<1>3. CASE Take
  <2>1. /\ inbox # <<>> /\ inbox' = Tail(inbox) /\ fresh' = fresh
        /\ cur'.stage = "run" /\ cur'.req.verb = "insert" => cur'.req = Head(inbox)
    BY <1>1, <1>3, Taken
  <2>2. /\ Head(inbox) = inbox[1] /\ 1 \in DOMAIN inbox
        /\ \A i \in DOMAIN inbox' : i + 1 \in DOMAIN inbox /\ inbox'[i] = inbox[i + 1]
    <3>1. inbox \in Seq(Reqs) /\ Len(inbox) > 0
      BY <1>1, <2>1
    <3>2. Len(inbox') = Len(inbox) - 1 /\ \A i \in 1..Len(inbox) - 1 : inbox'[i] = inbox[i + 1]
      BY <2>1, <3>1
    <3>3. DOMAIN inbox' = 1..Len(inbox) - 1 /\ DOMAIN inbox = 1..Len(inbox) /\ Len(inbox) \in Nat
      BY <2>1, <3>1
    <3> QED  BY <3>1, <3>2, <3>3
  <2> QED  BY <2>1, <2>2 DEF Spent, Unserved
<1>4. CASE RunDone \/ CreateDone \/ RelaxDone \/ BeginDone \/ UndoDone \/ NestDone \/ EndDone
           \/ RestoreDone
  <2>1. UNCHANGED <<fresh, inbox>> /\ (cur'.stage = "rest" \/ cur'.req = cur.req)
        /\ (cur'.stage = "run" => cur.stage = "create")
    BY <1>1, <1>4, Went
  <2>2. ~(Unserved' /\ cur'.req.verb = "insert") /\ InboxKept
    BY <1>1, <2>1 DEF Unserved, StageInv, InboxKept
  <2> QED  BY <2>1, <2>2, SpentKept
<1>5. CASE Crash \/ CloseDone
  <2>1. inbox' = <<>> /\ cur' = Rests /\ fresh' = fresh
    BY <1>1, <1>5, Ended
  <2>2. ~Unserved' /\ InboxKept
    BY <1>1, <2>1, WorkerCalls DEF Unserved, InboxKept
  <2> QED  BY <2>1, <2>2, SpentKept
<1>6. ASSUME NEW c \in Clients, ClientStep(c) PROVE Spent(w)'
  <2>1. /\ call'[Worker] = call[Worker] /\ cur'.stage = cur.stage
        /\ cur.stage # "rest" => cur'.req.verb = cur.req.verb /\ cur'.req.arg = cur.req.arg
        /\ (fresh' = fresh /\ InboxKept) \/ \E v : Tried(v)
    BY <1>1, <1>6, ClientKeeps
  <2>2. Unserved' /\ cur'.req.verb = "insert" =>
          Unserved /\ cur.req.verb = "insert" /\ cur'.req.arg = cur.req.arg
    BY <2>1 DEF Unserved
  <2>3. CASE fresh' = fresh /\ InboxKept
    BY <2>2, <2>3, SpentKept
  <2>4. CASE \E v : Tried(v)
    <3>1. PICK v : Tried(v)
      BY <2>4
    <3>2. v # w /\ fresh' \subseteq fresh
      BY <3>1 DEF Tried, Spent
    <3>3. CASE InboxKept
      BY <2>2, <3>2, <3>3, SpentKept
    <3>4. ASSUME NEW r, r.verb = "insert", r.arg = v, inbox' = Append(inbox, r) PROVE Spent(w)'
      <4>1. \A i \in DOMAIN inbox' : (i \in DOMAIN inbox /\ inbox'[i] = inbox[i]) \/ inbox'[i] = r
        <5>1. DOMAIN inbox' = 1..Len(inbox) + 1 /\ DOMAIN inbox = 1..Len(inbox) /\ Len(inbox) \in Nat
              /\ inbox'[Len(inbox) + 1] = r
              /\ \A k \in 1..Len(inbox) : inbox'[k] = inbox[k]
          BY <1>1, <3>4
        <5> QED  BY <5>1
      <4> QED  BY <2>2, <3>2, <3>4, <4>1 DEF Spent
    <3> QED  BY <3>1, <3>3, <3>4 DEF Tried
  <2> QED  BY <2>1, <2>3, <2>4
<1>7. CASE Collect \/ UNCHANGED vars
  <2>1. UNCHANGED <<inbox, cur, fresh, call>>
    BY <1>7 DEF Collect, ConnDtor, vars, nifVars, adapterVars, inputVars
  <2>2. InboxKept
    BY <2>1 DEF InboxKept
  <2> QED  BY <2>1, <2>2, SpentKept DEF Unserved
<1> QED  BY <1>2, <1>3, <1>4, <1>5, <1>6, <1>7 DEF Next, WorkerStep


\* The open transactions g that an answer leaves of the marked ones, m.
Framed(m, g, verb, arg, ok, inStep) ==
  \/ g = Append(m, [ws |-> {}, sound |-> inStep])
  \/ verb = "insert" /\ ok /\ Len(m) > 0 /\ g = [m EXCEPT ![Len(m)].ws = @ \union {arg}]
  \/ /\ verb = "commit" /\ ok /\ Len(m) > 1
     /\ g = Front([m EXCEPT ![Len(m) - 1].ws = @ \union m[Len(m)].ws])
  \/ Len(m) > 0 /\ g = Front(m)
  \/ g = m

\* What an answer leaves in each transaction of the client.
LEMMA FrameSteps ==
  ASSUME NEW f \in Seq(FrameSet), NEW m \in Seq(FrameSet), Len(m) = Len(f), NEW g,
         NEW inStep \in BOOLEAN, NEW verb, NEW arg, NEW ok,
         \A k \in 1..Len(f) : m[k].ws = f[k].ws /\ (m[k].sound <=> (f[k].sound /\ inStep)),
         Framed(m, g, verb, arg, ok, inStep),
         NEW i \in 1..Len(g)
  PROVE  LET n == Len(f)
         IN  /\ i <= n + 1
             /\ g[i].sound <=> (inStep /\ (i <= n => f[i].sound))
             /\ \/ i <= n /\ g[i].ws = f[i].ws
                \/ i = n + 1 /\ g[i].ws = {}
                \/ i = n /\ verb = "insert" /\ ok /\ g[i].ws = f[n].ws \union {arg}
                \/ i = n - 1 /\ verb = "commit" /\ ok /\ g[i].ws = f[n - 1].ws \union f[n].ws
<1> DEFINE n == Len(f)
<1>1. n \in Nat /\ Len(m) = n /\ \A k \in 1..n : m[k] \in FrameSet
  OBVIOUS
<1>2. \A k \in 1..n : m[k].ws = f[k].ws /\ (m[k].sound <=> (f[k].sound /\ inStep))
  OBVIOUS
<1>0. \/ g = Append(m, [ws |-> {}, sound |-> inStep])
      \/ verb = "insert" /\ ok /\ n > 0 /\ g = [m EXCEPT ![n].ws = @ \union {arg}]
      \/ verb = "commit" /\ ok /\ n > 1 /\ g = Front([m EXCEPT ![n - 1].ws = @ \union m[n].ws])
      \/ n > 0 /\ g = Front(m)
      \/ g = m
  BY DEF Framed
<1> HIDE DEF n
<1> SUFFICES /\ i <= n + 1
             /\ g[i].sound <=> (inStep /\ (i <= n => f[i].sound))
             /\ \/ i <= n /\ g[i].ws = f[i].ws
                \/ i = n + 1 /\ g[i].ws = {}
                \/ i = n /\ verb = "insert" /\ ok /\ g[i].ws = f[n].ws \union {arg}
                \/ i = n - 1 /\ verb = "commit" /\ ok /\ g[i].ws = f[n - 1].ws \union f[n].ws
  BY DEF n
<1>3. CASE g = Append(m, [ws |-> {}, sound |-> inStep])
  <2> DEFINE new == [ws |-> {}, sound |-> inStep]
  <2>0. new \in FrameSet /\ new.ws = {} /\ (new.sound <=> inStep)
    BY DEF FrameSet
  <2> HIDE DEF new
  <2>1. Len(g) = n + 1 /\ g[n + 1] = new /\ \A k \in 1..n : g[k] = m[k]
    BY <1>1, <1>3, <2>0 DEF new
  <2>2. CASE i = n + 1
    BY <1>1, <2>0, <2>1, <2>2
  <2>3. CASE i \in 1..n
    BY <1>1, <1>2, <2>1, <2>3
  <2> QED  BY <1>1, <2>1, <2>2, <2>3
<1>4. CASE verb = "insert" /\ ok /\ n > 0 /\ g = [m EXCEPT ![n].ws = @ \union {arg}]
  <2>0. m[n] \in FrameSet
    BY <1>1, <1>4
  <2>1. Len(g) = n /\ (\A k \in 1..n - 1 : g[k] = m[k])
        /\ g[n].ws = m[n].ws \union {arg} /\ g[n].sound = m[n].sound
    BY <1>1, <1>4, <2>0 DEF FrameSet
  <2>2. CASE i = n
    BY <1>1, <1>2, <1>4, <2>1, <2>2
  <2>3. CASE i \in 1..n - 1
    BY <1>1, <1>2, <2>1, <2>3
  <2> QED  BY <1>1, <2>1, <2>2, <2>3
<1>5. CASE verb = "commit" /\ ok /\ n > 1
           /\ g = Front([m EXCEPT ![n - 1].ws = @ \union m[n].ws])
  <2> DEFINE h == [m EXCEPT ![n - 1] = [m[n - 1] EXCEPT !.ws = @ \union m[n].ws]]
  <2>0. m[n - 1] \in FrameSet /\ m[n] \in FrameSet
    BY <1>1, <1>5
  <2>1. [m[n - 1] EXCEPT !.ws = @ \union m[n].ws] \in FrameSet
    BY <2>0 DEF FrameSet
  <2>2. /\ h \in Seq(FrameSet) /\ Len(h) = n /\ (\A k \in 1..n - 2 : h[k] = m[k])
        /\ h[n - 1].ws = m[n - 1].ws \union m[n].ws /\ h[n - 1].sound = m[n - 1].sound
    BY <1>1, <1>5, <2>0, <2>1 DEF FrameSet
  <2>6. g = Front(h)
    BY <1>5
  <2> HIDE DEF h
  <2>3. Len(g) = n - 1 /\ \A k \in 1..n - 1 : g[k] = h[k]
    <3>1. Len(h) > 0
      BY <1>5, <2>2
    <3>2. Len(Front(h)) = Len(h) - 1 /\ \A k \in 1..Len(h) - 1 : Front(h)[k] = h[k]
      BY <2>2, <3>1, FrontType
    <3> QED  BY <2>2, <2>6, <3>2
  <2>4. CASE i = n - 1
    <3>1. n - 1 \in 1..n /\ n \in 1..n
      BY <1>1, <1>5
    <3>2. g[i].ws = f[n - 1].ws \union f[n].ws /\ (g[i].sound <=> (f[n - 1].sound /\ inStep))
      BY <1>2, <2>2, <2>3, <2>4, <3>1
    <3>3. i <= n + 1 /\ i <= n
      BY <1>1, <2>4
    <3>4. g[i].sound <=> (inStep /\ (i <= n => f[i].sound))
      BY <2>4, <3>2, <3>3
    <3> QED  BY <1>5, <2>4, <3>2, <3>3, <3>4, Zenon
  <2>5. CASE i \in 1..n - 2
    BY <1>1, <1>2, <2>2, <2>3, <2>5
  <2> QED  BY <1>1, <2>3, <2>4, <2>5
<1>6. CASE n > 0 /\ g = Front(m)
  <2>1. Len(g) = n - 1 /\ \A k \in 1..n - 1 : g[k] = m[k]
    BY <1>1, <1>6, FrontType
  <2>2. i \in 1..n - 1 /\ i \in 1..n /\ g[i] = m[i]
    BY <1>1, <2>1
  <2> QED  BY <1>1, <1>2, <2>2
<1>7. CASE g = m
  BY <1>1, <1>2, <1>7
<1> QED  BY <1>0, <1>3, <1>4, <1>5, <1>6, <1>7

\* What transaction i of client c is after an answer.
Row(c, i, verb, arg, ok) ==
  LET n == Len(cl[c].frames)
      f == cl[c].frames
      g == cl'[c].frames
  IN  /\ i <= n + 1
      /\ g[i].sound <=> (depth = n /\ ~torn /\ (i <= n => f[i].sound))
      /\ \/ i <= n /\ g[i].ws = f[i].ws
         \/ i = n + 1 /\ g[i].ws = {}
         \/ i = n /\ verb = "insert" /\ ok /\ g[i].ws = f[n].ws \union {arg}
         \/ i = n - 1 /\ verb = "commit" /\ ok /\ g[i].ws = f[n - 1].ws \union f[n].ws

LEMMA AnsweredRows ==
  ASSUME ClientType, NEW c \in Clients, NEW verb, NEW arg, NEW ok, Answered(c, verb, arg, ok),
         NEW i \in 1..Len(cl'[c].frames)
  PROVE  Row(c, i, verb, arg, ok)
<1> DEFINE f == cl[c].frames
           inStep == depth = Len(f) /\ ~torn
           m == Marked(c, inStep)
           g == Frames(c, verb, arg, ok, inStep)
<1>1. cl \in [Clients -> [pc : ClientPcs, frames : Seq(FrameSet)]]
  BY DEF ClientType
<1>2. cl'[c].frames = g
  BY <1>1 DEF Answered
<1>3. inStep \in BOOLEAN
  OBVIOUS
<1>4. /\ f \in Seq(FrameSet) /\ m \in Seq(FrameSet) /\ Len(m) = Len(f)
      /\ \A k \in 1..Len(f) : m[k].ws = f[k].ws /\ (m[k].sound <=> (f[k].sound /\ inStep))
  <2> HIDE DEF inStep
  <2> QED  BY <1>3, MarkedType
<1>5. Framed(m, g, verb, arg, ok, inStep)
  <2> DEFINE n == Len(m)
  <2>1. \/ verb = "begin" /\ ok /\ g = Append(m, [ws |-> {}, sound |-> inStep])
        \/ /\ verb = "insert" /\ ok /\ n > 0
           /\ g = [m EXCEPT ![n].ws = @ \union {arg}]
        \/ /\ verb = "commit" /\ ok /\ n > 1
           /\ g = Front([m EXCEPT ![n - 1].ws = @ \union m[n].ws])
        \/ /\ verb = "commit" /\ ~(ok /\ n > 1) /\ n > 0 /\ g = Front(m)
        \/ /\ verb = "rollback" /\ n > 0 /\ g = Front(m)
        \/ /\ g = m
           /\ ~(verb = "begin" /\ ok) /\ ~(verb = "insert" /\ ok /\ n > 0)
           /\ ~(verb \in {"commit", "rollback"} /\ n > 0)
    <3> HIDE DEF inStep
    <3> QED  BY FramesCases, Zenon
  <2> HIDE DEF m, g, inStep
  <2> QED  BY <2>1, Zenon DEF Framed
<1>6. i \in 1..Len(g)
  BY <1>2
<1> HIDE DEF g, m, f, inStep
<1>7. LET n == Len(f)
      IN  /\ i <= n + 1
          /\ g[i].sound <=> (inStep /\ (i <= n => f[i].sound))
          /\ \/ i <= n /\ g[i].ws = f[i].ws
             \/ i = n + 1 /\ g[i].ws = {}
             \/ i = n /\ verb = "insert" /\ ok /\ g[i].ws = f[n].ws \union {arg}
             \/ i = n - 1 /\ verb = "commit" /\ ok /\ g[i].ws = f[n - 1].ws \union f[n].ws
  BY <1>3, <1>4, <1>5, <1>6, FrameSteps
<1> QED  BY <1>2, <1>7 DEF Row, f, inStep


\* The transactions of a client are levels of the connection.
Within == \A c \in Clients : Len(cl[c].frames) \in Nat /\ Len(cl[c].frames) <= depth

LEMMA AllWithin == BaseInv /\ CountInv => Within
BY Below, Lens DEF Within

LEMMA AllWithinNext ==
  ASSUME BaseInv', CountInv'
  PROVE  Within'
<1>1. BaseInv' /\ CountInv'
  OBVIOUS
<1> QED  BY <1>1, AllWithin, PTL

LEMMA HowDeepNext ==
  ASSUME BaseInv', StackInv', ~torn'
  PROVE  Deep'
<1>1. BaseInv' /\ StackInv' /\ ~torn'
  OBVIOUS
<1> QED  BY <1>1, HowDeep, PTL

\* No client has more than it had.
Fewer ==
  \A c \in Clients : \A i \in 1..Len(cl'[c].frames) :
    /\ i <= Len(cl[c].frames)
    /\ cl'[c].frames[i].ws = cl[c].frames[i].ws
    /\ cl'[c].frames[i].sound => cl[c].frames[i].sound

LEMMA RowsSame ==
  ASSUME UNCHANGED Promise!txVars, torn = FALSE, torn' = FALSE
  PROVE  \A ws, i : /\ Gone(ws) <=> Gone(ws)'
                    /\ Held(ws, i) <=> Held(ws, i)'
                    /\ Merged(ws) <=> Merged(ws)'
BY DEF Promise!txVars, Gone, Held, Merged

\* Nothing happens to the rows, nor to the request while a level is being ended.
LEMMA FramesSame ==
  ASSUME BaseInv, CountInv, FrameInv, RowsInv, UNCHANGED Promise!txVars, Fewer,
         torn = FALSE, torn' = FALSE,
         Nesting' = Nesting, Alive' => Alive, UNCHANGED <<kept, undone>>,
         Nesting < depth => cur'.req.verb = cur.req.verb,
         cur'.stage = "run" /\ cur'.req.verb = "insert" /\ Took' =>
           cur.stage = "run" /\ cur.req.verb = "insert" /\ Took /\ cur'.req.arg = cur.req.arg
  PROVE  FrameInv' /\ RowsInv'
<1>1. RowsInv'
  BY RowsSame DEF RowsInv, Promise!txVars
<1>2. Within /\ Nesting \in Nat /\ depth \in Nat
  BY AllWithin, NestingType
<1>3. ASSUME Alive', NEW c \in Clients, NEW i \in 1..Len(cl'[c].frames) PROVE Located(c, i)'
  <2>1. /\ i \in 1..Len(cl[c].frames) /\ i <= depth
        /\ cl'[c].frames[i].ws = cl[c].frames[i].ws
        /\ cl'[c].frames[i].sound => cl[c].frames[i].sound
    BY <1>2, <1>3 DEF Fewer, Within
  <2>2. Located(c, i)
    BY <1>3, <2>1 DEF FrameInv
  <2>3. i > Nesting => cur'.req.verb = cur.req.verb
    BY <1>2, <2>1
  <2> QED  BY <2>1, <2>2, <2>3, RowsSame DEF Located
<1>4. Alive' /\ cur'.stage = "run" /\ cur'.req.verb = "insert" /\ Took' => Merged({cur.req.arg})'
  <2> SUFFICES ASSUME Alive', cur'.stage = "run", cur'.req.verb = "insert", Took'
               PROVE  Merged({cur.req.arg})'
    OBVIOUS
  <2>1. PICK w : w = {cur.req.arg} /\ w = {cur'.req.arg}
    OBVIOUS
  <2>2. Merged(w)'
    BY <2>1, RowsSame DEF FrameInv
  <2> QED  BY <2>1, <2>2
<1> QED  BY <1>1, <1>3, <1>4 DEF FrameInv

\* A statement of the worker takes effect.
Takes ==
  /\ Alive /\ Alive' /\ cur.stage \notin {"rest", "close"} /\ ~Took /\ Took'
  /\ UNCHANGED <<cur, depth, cl, kept, undone>>
  /\ Statement

LEMMA FramesStatement ==
  ASSUME BaseInv, BaseInv', StackInv, StackInv', FreshInv, CountInv, SpentInv, FrameInv, RowsInv,
         torn = FALSE, torn' = FALSE,
         call[Worker].pc # "ret", Takes
  PROVE  FrameInv' /\ RowsInv'
<1> DEFINE o == OpenTx
           p == OpenTx'
           n == Len(o)
           m == Len(p)
<1>1. /\ Deep /\ Deep' /\ Within /\ depth \in Nat /\ StageInv /\ cur.stage \in Stages
      /\ cur.stage # "rest" => cur.req \in Reqs
  BY HowDeep, HowDeepNext, AllWithin, NestingType DEF BaseInv, TypeInv, WorkerType
<1>2. /\ o \in Seq(SUBSET Writes) /\ p \in Seq(SUBSET Writes) /\ n \in Nat /\ m \in Nat
      /\ DOMAIN o = 1..n /\ DOMAIN p = 1..m /\ n = Nesting /\ m = Nesting'
  BY <1>1 DEF Deep, Takes
<1>3. \A c \in Clients : \A i \in 1..Len(cl[c].frames) : Located(c, i) /\ i <= depth
  BY <1>1 DEF FrameInv, Takes, Within
<1>4. cl' = cl /\ cur' = cur /\ depth' = depth /\ kept' = kept /\ undone' = undone
  BY DEF Takes
<1>5. CASE UNCHANGED Promise!txVars /\ cur.stage \notin {"begin", "nest", "end", "unnest"}
           /\ ~(cur.stage = "run" /\ cur.req.verb = "insert")
  <2>1. Nesting' = Nesting
    BY <1>4, <1>5 DEF Nesting
  <2>2. Fewer
    BY <1>1, <1>4 DEF Fewer, Within
  <2> QED  BY <1>4, <1>5, <2>1, <2>2, FramesSame DEF Takes
<1>6. CASE Promise!TxWrite(cur.req.arg) /\ cur.stage = "run" /\ cur.req.verb = "insert"
  <2> DEFINE w == cur.req.arg
  <2>1. /\ p = o /\ db'.visible = db.visible \union {w}
        /\ db'.durable = IF o = <<>> THEN db'.visible ELSE db.durable
    BY <1>6 DEF Promise!TxWrite
  <2>2. n = depth /\ m = n /\ Unserved
    BY <1>2, <1>6, <2>1 DEF Nesting, Takes, Unserved
  <2>3. w \notin db.visible \union db.durable /\ \A k \in 1..n : w \notin o[k]
    <3>1. ~Seen(db, w)
      BY <1>6, <2>2 DEF FreshInv
    <3> QED  BY <1>1, <1>2, <3>1 DEF Deep, Seen
  <2>4. w \notin undone
    BY <1>6, <2>2 DEF SpentInv, Spent
  <2>5. o = <<>> <=> n = 0
    BY <1>2
  <2> HIDE DEF o, p
  <2>6. ASSUME NEW c \in Clients, NEW i \in 1..Len(cl'[c].frames) PROVE Located(c, i)'
    <3>1. Located(c, i) /\ i <= n /\ i > 0
      BY <1>3, <1>4, <2>2
    <3> QED  BY <1>2, <1>4, <2>1, <2>2, <2>5, <3>1 DEF Located, Held, o, p
  <2>7. Merged({w})'
    BY <1>2, <1>4, <2>1, <2>2, <2>3, <2>5 DEF Merged, o, p
  <2>8. RowsInv'
    BY <1>2, <1>4, <2>1, <2>2, <2>4 DEF RowsInv, Gone, o, p
  <2> QED  BY <1>4, <2>6, <2>7, <2>8 DEF FrameInv
<1>7. CASE Promise!TxBegin /\ cur.stage \in {"begin", "nest"}
  <2>1. p = Append(o, db.visible) /\ db'.visible = db.visible /\ db'.durable = db.durable
    BY <1>7 DEF Promise!TxBegin
  <2>2. n = depth
    BY <1>2, <1>7 DEF Nesting, Takes
  <2> HIDE DEF o, p
  <2>3. m = n + 1 /\ p[n + 1] = db.visible /\ \A k \in 1..n : p[k] = o[k]
    <3>1. db.visible \in SUBSET Writes
      BY DEF BaseInv, TypeInv, NifType, Dbs
    <3> QED  BY <1>2, <2>1, <3>1
  <2>4. ASSUME NEW c \in Clients, NEW i \in 1..Len(cl'[c].frames) PROVE Located(c, i)'
    <3>1. Located(c, i) /\ i <= n /\ i > 0 /\ i \in Nat
      BY <1>3, <1>4, <2>2
    <3>2. cl[c].frames[i].sound => Held(cl[c].frames[i].ws, i)
      BY <1>2, <3>1 DEF Located
    <3>3. cl[c].frames[i].sound => Held(cl[c].frames[i].ws, i)'
      BY <1>2, <1>4, <2>1, <2>3, <3>1, <3>2 DEF Held, o, p
    <3> QED  BY <1>2, <1>4, <2>3, <3>1, <3>3 DEF Located
  <2>5. RowsInv'
    BY <1>2, <1>4, <2>1, <2>3 DEF RowsInv, Gone, o, p
  <2>6. cur'.stage # "run"
    BY <1>4, <1>7
  <2> QED  BY <2>4, <2>5, <2>6 DEF FrameInv
<1>8. CASE /\ cur.stage \in {"end", "unnest"}
           /\ IF cur.req.verb = "commit" THEN Promise!TxCommit ELSE Promise!TxRollback
  <2>1. /\ o # <<>> /\ p = Front(o)
        /\ IF cur.req.verb = "commit"
             THEN db'.visible = db.visible /\ db'.durable = IF p = <<>> THEN db.visible ELSE db.durable
             ELSE db'.visible = Last(o) /\ db'.durable = db.durable
    BY <1>8 DEF Promise!TxCommit, Promise!TxRollback, Promise!Front, Promise!Last, Front, Last
  <2>2. n = depth
    BY <1>2, <1>8 DEF Nesting, Takes
  <2> HIDE DEF o, p
  <2>3. n > 0 /\ m = n - 1 /\ Last(o) = o[n] /\ \A k \in 1..n - 1 : p[k] = o[k]
    <3>1. n > 0
      BY <1>2, <2>1
    <3> QED  BY <1>2, <2>1, <3>1, FrontType
  <2>4. p = <<>> <=> m = 0
    BY <1>2
  <2>5. ASSUME NEW c \in Clients, NEW i \in 1..Len(cl'[c].frames) PROVE Located(c, i)'
    <3>0. PICK ws : ws = cl[c].frames[i].ws
      OBVIOUS
    <3>1. Located(c, i) /\ i <= n /\ i > 0 /\ i \in Nat
      BY <1>3, <1>4, <2>2
    <3>2. SUFFICES ASSUME cl[c].frames[i].sound
                   PROVE  /\ i <= m => Held(ws, i)'
                          /\ i > m => IF cur.req.verb = "commit" THEN Merged(ws)' ELSE Gone(ws)'
      BY <1>2, <1>4, <3>0 DEF Located
    <3>3. Held(ws, i)
      BY <1>2, <3>0, <3>1, <3>2 DEF Located
    <3>4. /\ ws \subseteq db.visible /\ ws \intersect db.durable = {}
          /\ \A k \in 1..n : IF k <= i THEN ws \intersect o[k] = {} ELSE ws \subseteq o[k]
      BY <1>2, <3>3 DEF Held, o
    <3>5. CASE i <= m
      <4>1. ws \subseteq db'.visible /\ ws \intersect db'.durable = {}
        BY <1>2, <2>1, <2>3, <2>4, <3>1, <3>4, <3>5
      <4>2. \A k \in 1..m : IF k <= i THEN ws \intersect p[k] = {} ELSE ws \subseteq p[k]
        BY <1>2, <2>3, <3>4
      <4>3. Held(ws, i)'
        BY <1>2, <4>1, <4>2 DEF Held, p
      <4> QED  BY <1>2, <3>1, <3>5, <4>3
    <3>6. CASE i > m
      <4>1. i = n
        BY <1>2, <2>3, <3>1, <3>6
      <4>2. \A k \in 1..m : ws \intersect p[k] = {}
        BY <1>2, <2>3, <3>4, <4>1
      <4>3. CASE cur.req.verb = "commit"
        <5>1. ws \subseteq db'.visible /\ (p # <<>> => ws \intersect db'.durable = {})
          BY <2>1, <3>4, <4>3
        <5>2. Merged(ws)'
          BY <1>2, <4>2, <5>1 DEF Merged, p
        <5> QED  BY <1>2, <3>1, <3>6, <4>3, <5>2
      <4>4. CASE cur.req.verb # "commit"
        <5>1. ws \intersect (db'.durable \union db'.visible) = {}
          BY <1>2, <2>1, <2>3, <3>4, <4>1, <4>4
        <5>2. Gone(ws)'
          BY <1>2, <4>2, <5>1 DEF Gone, p
        <5> QED  BY <1>2, <3>1, <3>6, <4>4, <5>2
      <4> QED  BY <4>3, <4>4
    <3> QED  BY <1>2, <3>1, <3>5, <3>6
  <2>6. RowsInv'
    <3>1. /\ db.durable \subseteq db.visible /\ kept \subseteq db.durable
          /\ undone \intersect (db.durable \union db.visible) = {}
          /\ \A k \in 1..n : db.durable \subseteq o[k] /\ undone \intersect o[k] = {}
      BY <1>2 DEF RowsInv, Gone, o
    <3>2. db'.durable \subseteq db'.visible /\ kept \subseteq db'.durable
          /\ undone \intersect (db'.durable \union db'.visible) = {}
      BY <1>2, <2>1, <2>3, <3>1
    <3>3. \A k \in 1..m : db'.durable \subseteq p[k] /\ undone \intersect p[k] = {}
      BY <1>2, <2>1, <2>3, <2>4, <3>1
    <3> QED  BY <1>2, <1>4, <3>2, <3>3 DEF RowsInv, Gone, p
  <2>7. cur'.stage # "run"
    BY <1>4, <1>8
  <2> QED  BY <2>5, <2>6, <2>7 DEF FrameInv
<1> QED  BY <1>5, <1>6, <1>7, <1>8 DEF Takes, Statement


\* The connection loses what is not durable, and the handle is closed.
LEMMA RowsLost ==
  ASSUME db \in Dbs, RowsInv, db' = Lost \/ UNCHANGED Promise!txVars, ~Alive',
         torn = FALSE, torn' = FALSE, UNCHANGED <<kept, undone>>
  PROVE  FrameInv' /\ RowsInv'
<1>1. CASE db' = Lost
  <2>1. db'.visible = db.durable /\ db'.durable = db.durable /\ OpenTx' = <<>>
    BY <1>1, LostRows DEF TornType
  <2> QED  BY <2>1 DEF RowsInv, Gone, FrameInv
<1>2. CASE UNCHANGED Promise!txVars
  BY <1>2, RowsSame DEF RowsInv, FrameInv, Promise!txVars
<1> QED  BY <1>1, <1>2

LEMMA FramesNative ==
  ASSUME TxsInv, TxsInv', CountInv, SpentInv, FrameInv, RowsInv, torn = FALSE, torn' = FALSE, Native
  PROVE  FrameInv' /\ RowsInv'
<1>1. /\ BaseInv /\ BaseInv' /\ StackInv /\ StackInv' /\ FreshInv /\ AliveInv /\ db \in Dbs
      /\ Within /\ TornType /\ (wrk = "none" => db.saves = <<>>)
  BY AllWithin DEF TxsInv, BaseInv, TypeInv, NifType, StackInv
<1>2. UNCHANGED <<reg, wrk, inbox, cur, depth, level, ruOn, cl, fresh, unrestored, kept, undone>>
  BY <1>1, NativeCases DEF Native, ghostVars
<1>3. CASE /\ db' = db /\ conn'.closed = conn.closed
           /\ Took => Took'
           /\ Took' /\ ~Took => cur.stage = "run" /\ cur.req.verb # "insert"
  <2>1. Took => Took'
    BY <1>3
  <2>2. Nesting' = Nesting
    BY <1>2, <1>3, <2>1 DEF Nesting
  <2>3. UNCHANGED Promise!txVars
    BY <1>1, <1>3, <2>2, Stutters
  <2>4. Fewer /\ (Alive' => Alive)
    BY <1>1, <1>2, <1>3 DEF Fewer, Within, Alive
  <2>5. cur'.stage = "run" /\ cur'.req.verb = "insert" /\ Took' =>
          cur.stage = "run" /\ cur.req.verb = "insert" /\ Took /\ cur'.req.arg = cur.req.arg
    BY <1>2, <1>3
  <2> QED  BY <1>1, <1>2, <2>2, <2>3, <2>4, <2>5, FramesSame
<1>4. CASE db' = Lost /\ (conn'.closed \/ wrk = "none")
  <2>1. ~Alive'
    BY <1>2, <1>4 DEF Alive
  <2> QED  BY <1>1, <1>2, <1>4, <2>1, RowsLost
<1>5. CASE /\ wrk = "run" /\ cur.stage \notin {"rest", "close"}
           /\ call[Worker].pc = "step" /\ ~Took /\ Took' /\ conn'.closed = conn.closed
           /\ Legal(call[Worker].sql) /\ db' = After(call[Worker].sql)
  <2>1. ~conn.closed /\ Alive /\ Alive'
    BY <1>1, <1>2, <1>5 DEF AliveInv, Alive
  <2>2. Statement
    BY <1>1, <1>2, <1>5, <2>1, StatementStep
  <2>3. Takes
    BY <1>2, <1>5, <2>1, <2>2 DEF Takes
  <2> QED  BY <1>1, <1>5, <2>3, FramesStatement
<1>6. CASE /\ call[Worker].pc = "step" /\ call'[Worker].pc = "ret" /\ ~Took /\ ~Took'
           /\ conn'.closed = conn.closed /\ db' = RolledBack
           /\ torn' = (torn \/ db.saves # <<>>)
  <2>1. db' = db
    BY <1>6 DEF RolledBack
  <2> QED  BY <1>1, <1>2, <1>3, <1>6, <2>1
<1>7. call'[Worker] = call[Worker] /\ Took => Took'
  BY DEF Took, Ok
<1>8. Took => call[Worker].pc \in {"idle", "ret"}
  BY DEF Took
<1> QED  BY <1>1, <1>3, <1>4, <1>5, <1>6, <1>7, <1>8, NativeCases

\* An answer that opens no transaction and settles none.
Idles(c, verb, ok) ==
  \/ ~ok
  \/ verb \notin {"begin", "insert", "commit", "rollback"}
  \/ verb \in Ends /\ cl[c].frames = <<>>

LEMMA FewerOne ==
  ASSUME BaseInv, NEW c \in Clients, NEW verb, NEW arg, NEW ok, Answered(c, verb, arg, ok),
         Idles(c, verb, ok)
  PROVE  Fewer /\ UNCHANGED <<kept, undone>>
<1> DEFINE f == cl[c].frames
           g == cl'[c].frames
<1>1. ClientType /\ \A d \in Clients : Len(cl[d].frames) \in Nat
  BY Lens DEF BaseInv, TypeInv
<1>2. ~(verb = "insert" /\ ok) /\ ~(verb = "begin" /\ ok)
  BY DEF Idles, Ends
<1>3. /\ \A d \in Clients : d # c => cl'[d] = cl[d]
      /\ Len(g) <= Len(f) /\ Len(f) \in Nat /\ (f = <<>> => Len(f) = 0)
  BY <1>1, <1>2, AnsweredFrames
<1>4. UNCHANGED <<kept, undone>>
  <2>0. verb \in Ends /\ ok => f = <<>>
    BY DEF Idles, Ends
  <2>1. ~(verb = "commit" /\ ok /\ Len(f) = 1) /\ ~(verb = "rollback" /\ ok /\ f # <<>>)
    <3> HIDE DEF f
    <3> QED  BY <1>3, <2>0 DEF Ends
  <2> QED  BY <1>2, <2>1 DEF Answered
<1>5. ASSUME NEW i \in 1..Len(g)
      PROVE  i <= Len(f) /\ g[i].ws = f[i].ws /\ (g[i].sound => f[i].sound)
  <2>1. i <= Len(f) /\ Len(f) # 0 /\ i # Len(f) + 1
    BY <1>3
  <2>2. Row(c, i, verb, arg, ok)
    BY <1>1, AnsweredRows
  <2>3. g[i].sound => f[i].sound
    BY <2>1, <2>2 DEF Row
  <2>4. ~(verb = "commit" /\ ok)
    BY <1>3, <2>1 DEF Idles, Ends
  <2>5. g[i].ws = f[i].ws
    BY <1>2, <2>1, <2>2, <2>4 DEF Row
  <2> QED  BY <2>1, <2>3, <2>5
<1>6. ASSUME NEW d \in Clients, d # c, NEW i \in 1..Len(cl'[d].frames)
      PROVE  /\ i <= Len(cl[d].frames) /\ cl'[d].frames[i].ws = cl[d].frames[i].ws
             /\ cl'[d].frames[i].sound => cl[d].frames[i].sound
  BY <1>1, <1>3, <1>6
<1> QED  BY <1>4, <1>5, <1>6 DEF Fewer

LEMMA FewerReplied ==
  ASSUME BaseInv, NEW r \in Reqs, NEW ok, Reply(r, ok),
         r.from # None => Idles(r.from, r.verb, ok)
  PROVE  Fewer /\ UNCHANGED <<kept, undone>>
<1>1. CASE r.from = None
  <2>1. UNCHANGED <<cl, kept, undone>>
    BY <1>1, Replied
  <2> QED  BY <2>1, Lens DEF Fewer
<1>2. CASE r.from # None
  <2>1. r.from \in Clients /\ Answered(r.from, r.verb, r.arg, ok)
    BY <1>2, Replied
  <2> QED  BY <1>2, <2>1, FewerOne
<1> QED  BY <1>1, <1>2

\* What a step does to the transactions of each client.
Moved ==
  \A d \in Clients :
    \/ cl'[d].frames = cl[d].frames \/ cl'[d].frames = <<>>
    \/ \E verb, arg, ok : Answered(d, verb, arg, ok)

\* The same, when none is opened or settled.
LEMMA ClientFrames ==
  ASSUME BaseInv, NEW c \in Clients, ClientStep(c)
  PROVE  Moved /\ Fewer /\ UNCHANGED <<kept, undone>>
<1>0. /\ cl \in [Clients -> [pc : ClientPcs, frames : Seq(FrameSet)]] /\ ClientType
      /\ \A d \in Clients : Len(cl[d].frames) \in Nat
  BY Lens DEF BaseInv, TypeInv, ClientType
<1>1. ASSUME NEW verb, Answered(c, verb, None, FALSE)
      PROVE  Moved /\ Fewer /\ UNCHANGED <<kept, undone>>
  <2>1. Idles(c, verb, FALSE)
    BY DEF Idles
  <2>2. \A d \in Clients : d # c => cl'[d] = cl[d]
    BY <1>0, <1>1, AnsweredFrames
  <2>3. Moved
    <3> SUFFICES ASSUME NEW d \in Clients
                 PROVE  \/ cl'[d].frames = cl[d].frames \/ cl'[d].frames = <<>>
                        \/ \E v, arg, ok : Answered(d, v, arg, ok)
      BY DEF Moved
    <3>1. CASE d = c
      BY <1>1, <3>1, Zenon
    <3> QED  BY <2>2, <3>1
  <2> QED  BY <1>1, <2>1, <2>3, FewerOne
<1>2. CASE /\ UNCHANGED <<kept, undone>>
           /\ \A d \in Clients : cl'[d].frames = cl[d].frames \/ cl'[d].frames = <<>>
  <2>1. \A d \in Clients : \A i \in 1..Len(cl'[d].frames) : cl'[d].frames = cl[d].frames
    BY <1>2
  <2>2. Fewer
    BY <1>0, <2>1 DEF Fewer
  <2> QED  BY <1>2, <2>2 DEF Moved
<1>3. CASE \/ Connect(c) \/ Opened(c) \/ Ready(c) \/ Abandoned(c) \/ Unregister(c)
  <2>1. UNCHANGED <<kept, undone>> /\ \E pc : cl' = [cl EXCEPT ![c].pc = pc]
    BY <1>3 DEF Connect, Opened, Ready, Abandoned, Unregister, ghostVars
  <2>2. \A d \in Clients : cl'[d].frames = cl[d].frames
    BY <1>0, <2>1
  <2> QED  BY <1>2, <2>1, <2>2
<1>4. CASE \/ \E w \in Writes, v \in Values : Insert(c, w, v)
           \/ Read(c) \/ Begin(c) \/ End(c) \/ CloseHandle(c)
  <2>1. PICK verb, arg, val : Send(c, verb, arg, val)
    BY <1>4 DEF Insert, Read, Begin, End, CloseHandle
  <2>2. UNCHANGED <<kept, undone>> /\ cl' = [cl EXCEPT ![c].pc = verb]
    BY <2>1 DEF Send, ghostVars
  <2>3. \A d \in Clients : cl'[d].frames = cl[d].frames
    BY <1>0, <2>2
  <2> QED  BY <1>2, <2>2, <2>3
<1>5. CASE \/ \E verb \in {"commit", "rollback"} : NotFound(c, verb)
           \/ Down(c) \/ Timeout(c)
  <2>1. PICK verb : Answered(c, verb, None, FALSE)
    BY <1>5 DEF NotFound, Down, Timeout
  <2> QED  BY <1>1, <2>1
<1>6. CASE Die(c)
  <2>1. UNCHANGED <<kept, undone>> /\ cl' = [cl EXCEPT ![c] = [pc |-> "dead", frames |-> <<>>]]
    BY <1>6 DEF Die, ghostVars
  <2>2. \A d \in Clients : cl'[d].frames = cl[d].frames \/ cl'[d].frames = <<>>
    BY <1>0, <2>1
  <2> QED  BY <1>2, <2>1, <2>2
<1> QED  BY <1>3, <1>4, <1>5, <1>6 DEF ClientStep


LEMMA MovedReply ==
  ASSUME BaseInv, NEW r \in Reqs, NEW ok, Reply(r, ok)
  PROVE  Moved
<1> SUFFICES ASSUME NEW d \in Clients
             PROVE  \/ cl'[d].frames = cl[d].frames \/ cl'[d].frames = <<>>
                    \/ \E verb, arg, o : Answered(d, verb, arg, o)
  BY DEF Moved
<1>1. CASE d = r.from
  <2>1. r.from # None
    BY <1>1, ConnAssumption
  <2>2. Answered(d, r.verb, r.arg, ok)
    BY <1>1, <2>1, Replied
  <2> QED  BY <2>2, Zenon
<1>2. CASE d # r.from
  BY <1>2, Replied
<1> QED  BY <1>1, <1>2

LEMMA MovedNext ==
  ASSUME BaseInv, [Next]_vars
  PROVE  Moved
<1>1. cl' = cl => Moved
  BY DEF Moved
<1>2. CASE Native \/ Collect \/ UNCHANGED vars
  <2>1. cl' = cl
    BY <1>2 DEF Native, Collect, vars
  <2> QED  BY <1>1, <2>1
<1>3. CASE Take
  BY <1>1, <1>3, TakenHead, MovedReply
<1>4. CASE RunDone \/ CreateDone \/ RelaxDone \/ BeginDone \/ UndoDone \/ NestDone \/ EndDone
           \/ RestoreDone
  BY <1>1, <1>4, WentOn, MovedReply DEF Answers
<1>5. CASE CloseDone
  <2>1. cur.stage = "close" /\ Reply(cur.req, TRUE)
    BY <1>5 DEF CloseDone, Result
  <2>2. cur.req \in Reqs
    BY <2>1 DEF BaseInv, TypeInv, WorkerType
  <2> QED  BY <2>1, <2>2, MovedReply
<1>6. CASE Crash
  <2>1. cl' = cl
    BY <1>6 DEF Crash
  <2> QED  BY <1>1, <2>1
<1>7. ASSUME NEW c \in Clients, ClientStep(c) PROVE Moved
  BY <1>7, ClientFrames
<1> QED  BY <1>2, <1>3, <1>4, <1>5, <1>6, <1>7 DEF Next, WorkerStep

LEMMA MonoNext ==
  ASSUME BaseInv, MonoInv, [Next]_vars
  PROVE  MonoInv'
<1>1. Moved /\ ClientType /\ \A d \in Clients : Len(cl[d].frames) \in Nat
  BY MovedNext, Lens DEF BaseInv, TypeInv
<1> SUFFICES ASSUME NEW d \in Clients, NEW i \in 1..Len(cl'[d].frames),
                    NEW j \in 1..Len(cl'[d].frames), i <= j, cl'[d].frames[i].sound
             PROVE  cl'[d].frames[j].sound
  BY DEF MonoInv
<1>2. CASE cl'[d].frames = cl[d].frames
  BY <1>2 DEF MonoInv
<1>3. CASE cl'[d].frames = <<>>
  BY <1>3
<1>4. CASE \E verb, arg, ok : Answered(d, verb, arg, ok)
  <2>1. PICK verb, arg, ok : Answered(d, verb, arg, ok)
    BY <1>4
  <2>2. Row(d, i, verb, arg, ok) /\ Row(d, j, verb, arg, ok)
    BY <1>1, <2>1, AnsweredRows
  <2>3. /\ depth = Len(cl[d].frames) /\ ~torn
        /\ i <= Len(cl[d].frames) => cl[d].frames[i].sound
    BY <2>2 DEF Row
  <2>4. j <= Len(cl[d].frames) => cl[d].frames[j].sound
    BY <1>1, <2>3 DEF MonoInv
  <2> QED  BY <2>2, <2>3, <2>4 DEF Row
<1> QED  BY <1>1, <1>2, <1>3, <1>4 DEF Moved

\* The row of an insert that the worker is about to answer.
LEMMA InsertServed ==
  ASSUME TxsInv, FrameInv, ~torn, cur.stage = "run", cur.req.verb = "insert", Took, wrk = "run"
  PROVE  Merged({cur.req.arg})
<1>1. AliveInv /\ call[Worker].pc = "ret"
  BY DEF TxsInv, Took
<1> QED  BY <1>1 DEF Alive, AliveInv, FrameInv

\* The worker has a result for the insert of a row: nobody will insert it again.
LEMMA ServedSpent ==
  ASSUME TxsInv, SpentInv, [Next]_vars, cur'.stage = "run", cur'.req.verb = "insert",
         call'[Worker].pc = "ret"
  PROVE  Spent(cur.req.arg)'
<1>1. /\ BaseInv /\ StageInv /\ AliveInv /\ StackInv /\ FreshInv /\ TornType
      /\ wrk = "none" => db.saves = <<>>
  BY DEF TxsInv, BaseInv, StackInv
<1>2. ASSUME cur'.stage = cur.stage, cur'.req.verb = cur.req.verb, cur'.req.arg = cur.req.arg,
             call[Worker].pc = "ret"
      PROVE  Spent(cur.req.arg)'
  <2>1. PICK w : w = cur.req.arg /\ w = cur'.req.arg
    BY <1>2
  <2>2. Spent(w)
    BY <1>2, <2>1 DEF SpentInv
  <2>3. Spent(w)'
    BY <2>2, SpentNext
  <2> QED  BY <2>1, <2>3
<1>3. CASE Native
  <2>1. UNCHANGED <<inbox, cur, fresh>>
    BY <1>1, <1>3, NativeCases
  <2>2. CASE call[Worker].pc # "ret"
    <3>1. Unserved
      BY <2>1, <2>2 DEF Unserved
    <3>2. /\ cur.req.arg \notin fresh
          /\ \A i \in DOMAIN inbox : inbox[i].verb = "insert" => inbox[i].arg # cur.req.arg
      BY <1>1, <2>1, <3>1 DEF FreshInv
    <3> QED  BY <2>1, <3>2 DEF Spent, Unserved
  <2> QED  BY <1>2, <2>1, <2>2
<1>4. CASE Take
  BY <1>1, <1>4, Taken
<1>5. CASE RunDone \/ CreateDone \/ RelaxDone \/ BeginDone \/ UndoDone \/ NestDone \/ EndDone
           \/ RestoreDone
  BY <1>1, <1>5, Went
<1>6. CASE Crash \/ CloseDone
  <2>1. cur' = Rests
    BY <1>1, <1>6, Ended
  <2> QED  BY <1>1, <2>1, WorkerCalls
<1>7. ASSUME NEW c \in Clients, ClientStep(c) PROVE Spent(cur.req.arg)'
  BY <1>1, <1>2, <1>7, ClientKeeps
<1>8. CASE Collect \/ UNCHANGED vars
  <2>1. UNCHANGED <<cur, call>>
    BY <1>8 DEF Collect, ConnDtor, vars, nifVars, adapterVars, inputVars
  <2> QED  BY <1>2, <2>1
<1> QED  BY <1>3, <1>4, <1>5, <1>6, <1>7, <1>8 DEF Next, WorkerStep

\* Spent rows stay spent, and an answer adds only rows that are.
LEMMA SpentInvNext ==
  ASSUME TxsInv, SpentInv, [Next]_vars
  PROVE  SpentInv'
<1>1. \A w : Spent(w) => Spent(w)'
  BY SpentNext
<1>2. BaseInv /\ ClientType /\ \A d \in Clients : Len(cl[d].frames) \in Nat
  BY Lens DEF TxsInv, BaseInv, TypeInv
<1>0. cur'.stage = "run" /\ cur'.req.verb = "insert" /\ call'[Worker].pc = "ret" =>
        Spent(cur.req.arg)'
  BY ServedSpent
<1>3. ASSUME Fewer, UNCHANGED <<kept, undone>> PROVE SpentInv'
  BY <1>0, <1>1, <1>2, <1>3 DEF SpentInv, Fewer
<1>4. ASSUME NEW r \in Reqs, NEW ok, Reply(r, ok), r.verb = "insert" /\ ok => Spent(r.arg)
      PROVE  SpentInv'
  <2>1. CASE r.from = None
    <3>1. UNCHANGED <<cl, undone>>
      BY <1>2, <1>4, <2>1, Replied
    <3> QED  BY <1>0, <1>1, <3>1 DEF SpentInv
  <2>2. CASE r.from # None
    <3>1. PICK c \in Clients : c = r.from
      BY <2>2 DEF Reqs
    <3>2. Answered(c, r.verb, r.arg, ok) /\ \A d \in Clients : d # c => cl'[d] = cl[d]
      BY <1>2, <1>4, <2>2, <3>1, Replied
    <3>3. ASSUME NEW d \in Clients, NEW i \in 1..Len(cl'[d].frames), NEW w \in cl'[d].frames[i].ws
          PROVE  Spent(w)
      <4>1. CASE d # c
        BY <3>2, <3>3, <4>1 DEF SpentInv
      <4>2. CASE d = c
        <5>1. Row(c, i, r.verb, r.arg, ok) /\ Len(cl[c].frames) \in Nat /\ i > 0
          BY <1>2, <3>2, <4>2, AnsweredRows
        <5>2. \/ \E k \in 1..Len(cl[c].frames) : w \in cl[c].frames[k].ws
              \/ r.verb = "insert" /\ ok /\ w = r.arg
          <6> DEFINE n == Len(cl[c].frames)
          <6>1. CASE i <= n /\ cl'[c].frames[i].ws = cl[c].frames[i].ws
            BY <3>3, <4>2, <5>1, <6>1
          <6>2. CASE cl'[c].frames[i].ws = {}
            BY <3>3, <4>2, <6>2
          <6>3. CASE i = n /\ r.verb = "insert" /\ ok
                     /\ cl'[c].frames[i].ws = cl[c].frames[n].ws \union {r.arg}
            BY <3>3, <4>2, <5>1, <6>3
          <6>4. CASE i = n - 1 /\ cl'[c].frames[i].ws = cl[c].frames[n - 1].ws \union cl[c].frames[n].ws
            <7>1. n \in 1..n /\ n - 1 \in 1..n
              BY <5>1, <6>4
            <7> QED  BY <3>3, <4>2, <6>4, <7>1
          <6> QED  BY <5>1, <6>1, <6>2, <6>3, <6>4 DEF Row
        <5> QED  BY <1>4, <5>2 DEF SpentInv
      <4> QED  BY <4>1, <4>2
    <3>4. \A w \in undone' : Spent(w)
      <4>1. CASE undone' = undone
        BY <4>1 DEF SpentInv
      <4>2. CASE cl[c].frames # <<>> /\ undone' = undone \union Last(cl[c].frames).ws
        <5>1. cl[c].frames \in Seq(FrameSet)
          BY <1>2 DEF ClientType
        <5>2. Last(cl[c].frames) = cl[c].frames[Len(cl[c].frames)]
              /\ Len(cl[c].frames) \in 1..Len(cl[c].frames)
          BY <4>2, <5>1 DEF Last
        <5> QED  BY <4>2, <5>2 DEF SpentInv
      <4> QED  BY <3>2, <4>1, <4>2 DEF Answered
    <3> QED  BY <1>0, <1>1, <3>3, <3>4 DEF SpentInv
  <2> QED  BY <2>1, <2>2
<1>6. UNCHANGED <<cl, kept, undone>> => SpentInv'
  BY <1>0, <1>1 DEF SpentInv
<1>7. CASE Native \/ Collect \/ UNCHANGED vars
  <2>1. UNCHANGED <<cl, kept, undone>>
    BY <1>7 DEF Native, Collect, vars, ghostVars
  <2> QED  BY <1>6, <2>1
<1>8. CASE Take
  <2>1. CASE UNCHANGED <<cl, kept, undone>>
    BY <1>6, <2>1
  <2>2. CASE ~ UNCHANGED <<cl, kept, undone>>
    <3>1. PICK ok \in BOOLEAN : Reply(Head(inbox), ok) /\ Head(inbox).verb \in Ends \union {"begin"}
      BY <1>2, <1>8, <2>2, TakenHead
    <3>2. Head(inbox) \in Reqs /\ Head(inbox).verb # "insert"
      BY <1>2, <1>8, <3>1, TakenHead DEF Ends
    <3> QED  BY <1>4, <3>1, <3>2
  <2> QED  BY <2>1, <2>2
<1>9. CASE RunDone \/ CreateDone \/ RelaxDone \/ BeginDone \/ UndoDone \/ NestDone \/ EndDone
           \/ RestoreDone
  <2>1. CASE UNCHANGED <<cl, kept, undone>>
    BY <1>6, <2>1
  <2>2. CASE ~ UNCHANGED <<cl, kept, undone>>
    <3>1. PICK ok \in BOOLEAN : Answers(ok)
      BY <1>2, <1>9, <2>2, WentOn
    <3>2. cur.req \in Reqs /\ Reply(cur.req, ok) /\ (ok => Ok \/ cur.stage = "restore")
          /\ cur.stage # "rest" /\ wrk = "run" /\ call[Worker].pc = "ret"
      BY <1>2, <1>9, <3>1, WentOn, Went DEF Answers
    <3>3. cur.req.verb = "insert" => cur.stage = "run"
      BY <1>2, <3>2 DEF BaseInv, TypeInv, WorkerType, Stages, StageInv
    <3>4. cur.req.verb = "insert" /\ ok => Spent(cur.req.arg)
      BY <3>2, <3>3 DEF SpentInv
    <3> QED  BY <1>4, <3>2, <3>4
  <2> QED  BY <2>1, <2>2
<1>10. CASE CloseDone
  <2>1. cur.stage = "close" /\ Reply(cur.req, TRUE)
    BY <1>10 DEF CloseDone, Result
  <2>2. cur.req \in Reqs /\ cur.req.verb = "close"
    BY <1>2, <2>1 DEF BaseInv, TypeInv, WorkerType, StageInv
  <2> QED  BY <1>4, <2>1, <2>2
<1>11. CASE Crash
  <2>1. UNCHANGED <<cl, kept, undone>>
    BY <1>11 DEF Crash, ghostVars
  <2> QED  BY <1>6, <2>1
<1>12. ASSUME NEW c \in Clients, ClientStep(c) PROVE SpentInv'
  BY <1>2, <1>3, <1>12, ClientFrames
<1> QED  BY <1>7, <1>8, <1>9, <1>10, <1>11, <1>12 DEF Next, WorkerStep


\* Ok to a request that opens or settles something: the client's transactions follow the
\* levels that the statement has left.
LEMMA FramesAnswered ==
  ASSUME TxsInv, TxsInv', CountInv, CountInv', MonoInv, FrameInv, RowsInv,
         Answers(TRUE), cur.req \in Reqs, cur.req.verb \in {"begin", "insert"} \union Ends,
         cur.stage # "rest", wrk = "run", call[Worker].pc = "ret", Nesting' = Nesting,
         torn = FALSE, torn' = FALSE, UNCHANGED Promise!txVars
  PROVE  FrameInv' /\ RowsInv'
<1> DEFINE verb == cur.req.verb
           arg == cur.req.arg
<1>1. /\ BaseInv /\ BaseInv' /\ StackInv /\ AliveInv /\ StageInv /\ Within /\ ClientType /\ Deep
      /\ cur.stage \in Stages /\ depth \in Nat /\ Nesting \in Nat
  BY AllWithin, HowDeep, NestingType DEF TxsInv, BaseInv, TypeInv
<1>2. BaseInv' /\ Within' /\ depth' \in Nat
  BY <1>1, AllWithinNext DEF BaseInv, TypeInv, WorkerType
<1>3. cur'.stage = "rest" /\ Nesting = depth'
  <2>1. cur'.stage = "rest"
    BY <1>1, Replied DEF Answers
  <2>2. Nesting' = depth'
    BY <2>1 DEF Nesting
  <2> QED  BY <2>1, <2>2
<1>4. Alive /\ Len(OpenTx) = Nesting /\ DOMAIN OpenTx = 1..Nesting
  <2>1. Alive
    BY <1>1 DEF Alive, AliveInv, StageInv, Stages, Ends
  <2> QED  BY <1>1, <2>1 DEF Deep
<1>5. /\ verb = "begin" => depth' = depth + 1
      /\ verb = "insert" => depth' = depth
      /\ verb \in Ends => depth' = depth - 1
  BY DEF Answers, Ends
<1>6. verb = "insert" => Merged({arg})
  <2>1. verb = "insert" => cur.stage = "run"
    BY <1>1 DEF StageInv, Stages
  <2>2. verb = "insert" => Took
    BY <2>1 DEF Took, Answers
  <2> QED  BY <2>1, <2>2, InsertServed
<1>7. \A d \in Clients : \A i \in 1..Len(cl[d].frames) :
        cl[d].frames[i].sound =>
          /\ i <= Nesting => Held(cl[d].frames[i].ws, i)
          /\ i > Nesting => IF verb = "commit" THEN Merged(cl[d].frames[i].ws)
                            ELSE Gone(cl[d].frames[i].ws)
  BY <1>4 DEF FrameInv, Located
<1>8. ASSUME NEW d \in Clients, cl'[d].frames = cl[d].frames,
             NEW i \in 1..Len(cl'[d].frames), cl'[d].frames[i].sound
      PROVE  Held(cl'[d].frames[i].ws, i)
  <2>1. i <= Nesting
    BY <1>2, <1>3, <1>8 DEF Within
  <2> QED  BY <1>7, <1>8, <2>1
<1>9. CASE cur.req.from = None
  <2>1. UNCHANGED <<cl, kept, undone>>
    BY <1>1, <1>9, Replied DEF Answers
  <2>2. RowsInv'
    BY <2>1, RowsSame DEF RowsInv, Promise!txVars
  <2>3. ASSUME NEW d \in Clients, NEW i \in 1..Len(cl'[d].frames) PROVE Located(d, i)'
    <3>1. i <= Nesting' /\ i \in Nat
      BY <1>1, <1>2, <1>3, <2>3 DEF Within
    <3>2. cl'[d].frames[i].sound => Held(cl'[d].frames[i].ws, i)
      BY <1>8, <2>1
    <3>3. PICK ws : ws = cl'[d].frames[i].ws
      OBVIOUS
    <3>4. cl'[d].frames[i].sound => Held(ws, i)'
      BY <3>2, <3>3, RowsSame
    <3> QED  BY <1>1, <3>1, <3>3, <3>4 DEF Located
  <2> QED  BY <1>3, <2>2, <2>3 DEF FrameInv
<1>10. CASE cur.req.from # None
  <2>0. PICK c \in Clients : c = cur.req.from
    BY <1>10 DEF Reqs
  <2> DEFINE f == cl[c].frames
             n == Len(f)
             g == cl'[c].frames
  <2>1. Answered(c, verb, arg, TRUE) /\ \A d \in Clients : d # c => cl'[d] = cl[d]
    BY <1>1, <1>10, <2>0, Replied DEF Answers
  <2>2. n \in Nat /\ Len(g) \in Nat /\ Len(g) <= Nesting /\ n <= depth
    BY <1>1, <1>2, <1>3, Lens DEF Within
  <2>3. ASSUME NEW i \in 1..Len(g), g[i].sound PROVE Held(g[i].ws, i)
    <3>1. Row(c, i, verb, arg, TRUE)
      BY <1>1, <2>1, AnsweredRows
    <3>8. i <= Nesting /\ i > 0 /\ i \in Nat
      BY <1>1, <2>2, <2>3
    <3>9. depth = n /\ (i <= n => f[i].sound)
      BY <2>3, <3>1 DEF Row
    <3>10. \/ i <= n /\ g[i].ws = f[i].ws
           \/ i = n + 1 /\ g[i].ws = {}
           \/ i = n /\ verb = "insert" /\ g[i].ws = f[n].ws \union {arg}
           \/ i = n - 1 /\ verb = "commit" /\ g[i].ws = f[n - 1].ws \union f[n].ws
      BY <3>1 DEF Row
    <3>2. /\ depth = n /\ (i <= n => f[i].sound) /\ i <= Nesting /\ i > 0 /\ i \in Nat
          /\ \/ i <= n /\ g[i].ws = f[i].ws
             \/ i = n + 1 /\ g[i].ws = {}
             \/ i = n /\ verb = "insert" /\ g[i].ws = f[n].ws \union {arg}
             \/ i = n - 1 /\ verb = "commit" /\ g[i].ws = f[n - 1].ws \union f[n].ws
      BY <3>8, <3>9, <3>10, Zenon
    <3>3. i <= n => Held(f[i].ws, i)
      BY <1>7, <2>2, <3>2
    <3>4. CASE i <= n /\ g[i].ws = f[i].ws
      BY <3>3, <3>4
    <3>5. CASE g[i].ws = {}
      BY <3>5 DEF Held
    <3>6. CASE i = n /\ verb = "insert" /\ g[i].ws = f[n].ws \union {arg}
      <4>1. PICK ws, new : ws = f[n].ws /\ new = {arg}
        OBVIOUS
      <4>2. Held(ws, i) /\ Merged(new) /\ i = Nesting /\ OpenTx # <<>>
        BY <1>1, <1>3, <1>4, <1>5, <1>6, <3>2, <3>3, <3>6, <4>1
      <4>3. Held(ws \union new, i)
        BY <1>1, <1>4, <4>2 DEF Held, Merged
      <4> QED  BY <3>6, <4>1, <4>3
    <3>7. CASE i = n - 1 /\ verb = "commit" /\ g[i].ws = f[n - 1].ws \union f[n].ws
      <4>1. PICK ws, new : ws = f[i].ws /\ new = f[n].ws
        OBVIOUS
      <4>2. n > Nesting /\ i = Nesting
        BY <1>3, <1>5, <2>2, <3>2, <3>7 DEF Ends
      <4>3. f[n].sound
        BY <2>2, <3>2, <3>7 DEF MonoInv
      <4>4. Held(ws, i) /\ Merged(new) /\ OpenTx # <<>>
        BY <1>1, <1>4, <1>7, <2>2, <3>2, <3>3, <3>7, <4>1, <4>2, <4>3
      <4>5. Held(ws \union new, i)
        BY <1>1, <1>4, <4>2, <4>4 DEF Held, Merged
      <4> QED  BY <3>7, <4>1, <4>5
    <3> QED  BY <3>2, <3>4, <3>5, <3>6, <3>7
  <2>4. ASSUME NEW d \in Clients, NEW i \in 1..Len(cl'[d].frames) PROVE Located(d, i)'
    <3>1. i <= Nesting' /\ i \in Nat
      BY <1>1, <1>2, <1>3, <2>4 DEF Within
    <3>2. cl'[d].frames[i].sound => Held(cl'[d].frames[i].ws, i)
      BY <1>8, <2>1, <2>3
    <3>3. PICK ws : ws = cl'[d].frames[i].ws
      OBVIOUS
    <3>4. cl'[d].frames[i].sound => Held(ws, i)'
      BY <3>2, <3>3, RowsSame
    <3> QED  BY <1>1, <3>1, <3>3, <3>4 DEF Located
  <2>5. depth = n /\ f # <<>> => (Last(f).sound => f[n].sound) /\ Last(f).ws = f[n].ws /\ n \in 1..n
    <3>1. f \in Seq(FrameSet)
      BY <1>1 DEF ClientType
    <3> QED  BY <3>1 DEF Last
  <2>6. kept' \subseteq db.durable
    <3> DEFINE done == CASE verb = "insert" /\ f = <<>> -> {arg}
                         [] verb = "commit" /\ n = 1 -> f[1].ws
                         [] OTHER -> {}
               sound == depth = n /\ ~torn /\ (f # <<>> => Last(f).sound)
    <3>1. kept' = IF sound THEN kept \union done ELSE kept
      BY <2>1 DEF Answered
    <3>2. kept \subseteq db.durable
      BY DEF RowsInv
    <3>3. CASE verb = "insert" /\ f = <<>> /\ sound
      <4>1. n = 0 /\ OpenTx = <<>>
        BY <1>1, <1>3, <1>4, <1>5, <3>3
      <4>2. db.visible = db.durable /\ done = {arg} /\ {arg} \subseteq db.visible
        BY <1>1, <1>6, <3>3, <4>1 DEF Deep, Merged
      <4> QED  BY <3>1, <3>2, <4>2
    <3>4. CASE verb = "commit" /\ n = 1 /\ sound
      <4>1. Nesting = 0 /\ f # <<>> /\ OpenTx = <<>>
        <5>1. depth = 1 /\ depth' = depth - 1 /\ Nesting = depth'
          BY <1>3, <1>5, <3>4 DEF Ends
        <5>3. Nesting = 0
          BY <5>1
        <5>4. f # <<>>
          <6>1. Len(f) = 1
            BY <3>4
          <6>2. Len(<<>>) # 1
            OBVIOUS
          <6> QED  BY <6>1, <6>2, Zenon
        <5>2. Nesting = 0 /\ f # <<>>
          BY <5>3, <5>4
        <5> QED  BY <1>1, <1>4, <5>2 DEF Deep
      <4>2. f[1].sound /\ Merged(f[1].ws)
        BY <1>7, <2>2, <2>5, <3>4, <4>1
      <4>3. db.visible = db.durable /\ done = f[1].ws
        BY <1>1, <3>4, <4>1 DEF Deep
      <4> QED  BY <3>1, <3>2, <4>2, <4>3 DEF Merged
    <3>5. CASE ~sound \/ done = {}
      BY <3>1, <3>2, <3>5
    <3> QED  BY <3>3, <3>4, <3>5
  <2>7. Gone(undone')
    <3>1. Gone(undone)
      BY DEF RowsInv
    <3>2. CASE undone' = undone
      BY <3>1, <3>2
    <3>3. CASE verb = "rollback" /\ depth = n /\ f # <<>> /\ Last(f).sound
               /\ undone' = undone \union Last(f).ws
      <4>1. f[n].sound /\ Last(f).ws = f[n].ws /\ n \in 1..n
        BY <2>5, <3>3
      <4>2. n > Nesting
        BY <1>3, <1>5, <2>2, <3>3 DEF Ends
      <4>3. Gone(f[n].ws)
        BY <1>7, <2>2, <3>3, <4>1, <4>2
      <4>4. PICK ws : ws = f[n].ws
        OBVIOUS
      <4>5. Gone(undone \union ws)
        BY <3>1, <4>3, <4>4 DEF Gone
      <4> QED  BY <3>3, <4>1, <4>4, <4>5
    <3> QED  BY <2>1, <3>2, <3>3 DEF Answered
  <2>8. RowsInv'
    <3>1. PICK u : u = undone'
      OBVIOUS
    <3>2. Gone(u)'
      BY <2>7, <3>1, RowsSame
    <3>3. Gone(undone)'
      BY <3>1, <3>2
    <3> QED  BY <2>6, <3>3 DEF RowsInv, Promise!txVars
  <2> QED  BY <1>3, <2>4, <2>8 DEF FrameInv
<1> QED  BY <1>9, <1>10


LEMMA FramesTake ==
  ASSUME TxsInv, CountInv, FrameInv, RowsInv, torn = FALSE, torn' = FALSE, Take
  PROVE  FrameInv' /\ RowsInv'
<1>1. /\ BaseInv /\ StackInv /\ Within /\ cur.stage = "rest" /\ UNCHANGED <<conn, db, depth>>
      /\ wrk' = wrk /\ call'[Worker].pc \in {"idle", "enter", "close"}
  BY AllWithin, Taken DEF TxsInv
<1>2. Nesting = depth /\ Nesting' = Nesting /\ ~Took'
  <2>1. ~Took'
    BY <1>1 DEF Took
  <2>2. cur'.stage \notin {"restore"}
    BY <1>1, Taken
  <2> QED  BY <1>1, <2>1, <2>2 DEF Nesting
<1>3. UNCHANGED Promise!txVars
  BY <1>1, <1>2, Stutters
<1>4. Fewer /\ UNCHANGED <<kept, undone>>
  <2>1. CASE UNCHANGED <<cl, kept, undone>>
    BY <1>1, <2>1 DEF Fewer, Within
  <2>2. CASE \E ok \in BOOLEAN :
               /\ Reply(Head(inbox), ok)
               /\ \/ Head(inbox).verb \in Ends /\ depth = 0
                  \/ Head(inbox).verb = "begin" /\ ~ok
    <3>1. PICK ok \in BOOLEAN :
            /\ Reply(Head(inbox), ok)
            /\ \/ Head(inbox).verb \in Ends /\ depth = 0
               \/ Head(inbox).verb = "begin" /\ ~ok
      BY <2>2
    <3>2. Head(inbox) \in Reqs
      BY <1>1, TakenHead
    <3>3. PICK r \in Reqs : r = Head(inbox)
      BY <3>2
    <3>4. r.from # None => r.from \in Clients
      BY DEF Reqs
    <3>5. depth = 0 => \A c \in Clients : cl[c].frames = <<>>
      <4>1. \A c \in Clients : cl[c].frames \in Seq(FrameSet)
        BY <1>1 DEF BaseInv, TypeInv, ClientType
      <4>2. \A c \in Clients : depth = 0 => Len(cl[c].frames) = 0
        BY <1>1 DEF Within
      <4> QED  BY <4>1, <4>2
    <3>6. r.from # None => Idles(r.from, r.verb, ok)
      BY <3>1, <3>3, <3>4, <3>5 DEF Idles
    <3> QED  BY <1>1, <3>1, <3>3, <3>6, FewerReplied
  <2> QED  BY <1>1, <2>1, <2>2, TakenHead
<1>5. Alive' => Alive
  BY <1>1 DEF Alive
<1>6. ~(Nesting < depth)
  BY <1>1, <1>2, NestingType
<1> QED  BY <1>1, <1>2, <1>3, <1>4, <1>5, <1>6, FramesSame

LEMMA FramesWent ==
  ASSUME TxsInv, TxsInv', CountInv, CountInv', MonoInv, FrameInv, RowsInv,
         torn = FALSE, torn' = FALSE,
         RunDone \/ CreateDone \/ RelaxDone \/ BeginDone \/ UndoDone \/ NestDone \/ EndDone
         \/ RestoreDone
  PROVE  FrameInv' /\ RowsInv'
<1>1. /\ BaseInv /\ BaseInv' /\ StackInv /\ StageInv /\ Within /\ cur.req \in Reqs
      /\ wrk = "run" /\ wrk' = "run" /\ call[Worker].pc = "ret" /\ cur.stage # "rest"
      /\ UNCHANGED <<conn, db>> /\ Nesting' = Nesting
      /\ cur'.stage = "run" => cur.stage = "create"
  BY AllWithin, Went, WentOn DEF TxsInv, BaseInv
<1>2. UNCHANGED Promise!txVars
  BY <1>1, Stutters
<1>3. Alive' => Alive
  BY <1>1 DEF Alive
<1>4. CASE /\ cur'.req = cur.req /\ cl' = cl /\ UNCHANGED <<kept, undone>>
  <2>1. Fewer
    BY <1>1, <1>4 DEF Fewer, Within
  <2>2. cur'.stage = "run" => cur'.req.verb # "insert"
    BY <1>1, <1>4 DEF StageInv
  <2> QED  BY <1>1, <1>2, <1>3, <1>4, <2>1, <2>2, FramesSame
<1>5. ASSUME NEW ok \in BOOLEAN, Answers(ok) PROVE FrameInv' /\ RowsInv'
  <2>1. CASE ok /\ cur.req.verb \in {"begin", "insert"} \union Ends
    <3>1. Answers(TRUE)
      <4>1. ok = TRUE
        BY <2>1
      <4> QED  BY <1>5, <4>1, Zenon
    <3>2. cur.req.verb \in {"begin", "insert"} \union Ends
      BY <2>1
    <3> QED  BY <1>1, <1>2, <3>1, <3>2, FramesAnswered
  <2>2. CASE ~ok \/ cur.req.verb \notin {"begin", "insert"} \union Ends
    <3>1. Reply(cur.req, ok) /\ depth' = depth /\ "begin" \notin Ends
      BY <2>2 , <1>5 DEF Answers, Ends
    <3>2. cur.req.from # None => Idles(cur.req.from, cur.req.verb, ok)
      BY <2>2 DEF Idles, Ends
    <3>3. Fewer /\ UNCHANGED <<kept, undone>>
      BY <1>1, <3>1, <3>2, FewerReplied
    <3>4. cur'.stage = "rest"
      BY <1>1, <3>1, Replied
    <3>5. Nesting = depth
      <4>1. Nesting' = depth'
        BY <3>4 DEF Nesting
      <4> QED  BY <1>1, <3>1, <4>1
    <3>6. ~(Nesting < depth)
      BY <1>1, <3>5, NestingType
    <3> QED  BY <1>1, <1>2, <1>3, <3>3, <3>4, <3>6, FramesSame
  <2> QED  BY <2>1, <2>2
<1> QED  BY <1>1, <1>4, <1>5, WentOn

LEMMA FramesEnded ==
  ASSUME TxsInv, FrameInv, RowsInv, torn = FALSE, torn' = FALSE, Crash \/ CloseDone
  PROVE  FrameInv' /\ RowsInv'
<1>1. /\ BaseInv /\ AliveInv /\ StackInv /\ db \in Dbs
      /\ wrk' = "dead" /\ UNCHANGED db /\ (Nesting' = Nesting \/ db.saves = <<>>)
  BY Ended DEF TxsInv, BaseInv, TypeInv, NifType
<1>2. UNCHANGED Promise!txVars
  BY <1>1, Stutters
<1>3. UNCHANGED <<kept, undone>>
  <2>1. CASE Crash
    BY <2>1 DEF Crash, ghostVars
  <2>2. CASE CloseDone
    <3>1. cur.stage = "close" /\ Reply(cur.req, TRUE)
      BY <2>2 DEF CloseDone, Result
    <3>2. cur.req \in Reqs /\ cur.req.verb = "close"
      BY <1>1, <3>1 DEF BaseInv, TypeInv, WorkerType, StageInv
    <3>3. Idles(cur.req.from, cur.req.verb, TRUE)
      BY <3>2 DEF Idles
    <3> QED  BY <1>1, <3>1, <3>2, <3>3, FewerReplied
  <2> QED  BY <2>1, <2>2
<1>4. ~Alive'
  BY <1>1 DEF Alive
<1> QED  BY <1>1, <1>2, <1>3, <1>4, RowsLost

LEMMA FramesClient ==
  ASSUME TxsInv, TxsInv', CountInv, CountInv', FrameInv, RowsInv, torn = FALSE, torn' = FALSE,
         NEW c \in Clients, ClientStep(c)
  PROVE  FrameInv' /\ RowsInv'
<1>1. /\ BaseInv /\ BaseInv' /\ StackInv /\ Within
      /\ UNCHANGED <<conn, db, depth>> /\ call'[Worker] = call[Worker] /\ cur'.stage = cur.stage
      /\ cur.stage # "rest" => cur'.req.verb = cur.req.verb /\ cur'.req.arg = cur.req.arg
      /\ wrk' = wrk \/ (wrk = "none" /\ wrk' = "run")
  BY AllWithin, ClientKeeps DEF TxsInv
<1>2. (Took' <=> Took) /\ Nesting' = Nesting
  BY <1>1 DEF Took, Ok, Nesting
<1>3. UNCHANGED Promise!txVars
  BY <1>1, <1>2, Stutters
<1>4. Fewer /\ UNCHANGED <<kept, undone>>
  BY <1>1, ClientFrames
<1>5. CASE wrk' = wrk
  <2>1. Alive' => Alive
    BY <1>1, <1>5 DEF Alive
  <2>2. Nesting < depth => cur.stage # "rest"
    <3>1. cur.stage = "rest" => Nesting = depth
      BY DEF Nesting
    <3> QED  BY <1>1, <3>1, NestingType
  <2>3. cur'.stage = "run" /\ cur'.req.verb = "insert" /\ Took' =>
          cur.stage = "run" /\ cur.req.verb = "insert" /\ Took /\ cur'.req.arg = cur.req.arg
    BY <1>1, <1>2
  <2> QED  BY <1>1, <1>2, <1>3, <1>4, <2>1, <2>2, <2>3, FramesSame
<1>6. CASE wrk = "none"
  <2>1. depth = 0 /\ cur'.stage = "rest"
    BY <1>1, <1>6 DEF StackInv, BaseInv, WhoInv
  <2>2. Within'
    BY <1>1, AllWithinNext
  <2>3. \A d \in Clients : \A i \in 1..Len(cl'[d].frames) : FALSE
    BY <1>1, <2>1, <2>2 DEF Within
  <2>4. RowsInv'
    BY <1>3, <1>4, RowsSame DEF RowsInv, Promise!txVars
  <2> QED  BY <2>1, <2>3, <2>4 DEF FrameInv
<1> QED  BY <1>1, <1>5, <1>6

LEMMA FramesCollect ==
  ASSUME TxsInv, FrameInv, RowsInv, torn = FALSE, torn' = FALSE, Collect
  PROVE  FrameInv' /\ RowsInv'
<1>1. /\ BaseInv /\ StackInv /\ db \in Dbs /\ stmts \in SUBSET Procs
      /\ wrk # "run" /\ \A c \in Clients : cl[c].pc \notin OpeningPcs
      /\ UNCHANGED <<wrk, cur, depth, call, kept, undone>>
      /\ IF conn.db /\ ~conn.closed THEN CloseDb ELSE UNCHANGED <<closes, db>>
  BY DEF Collect, ConnDtor, adapterVars, inputVars, ghostVars, TxsInv, BaseInv, TypeInv, NifType
<1>2. stmts = {}
  <2>1. \A p \in Procs : call[p].pc = "idle"
    BY <1>1, ConnAssumption DEF BaseInv, WhoInv, Opening
  <2> QED  BY <1>1, <2>1 DEF BaseInv, CallInv
<1>3. db' = db \/ db' = Lost
  BY <1>1, <1>2 DEF CloseDb, Released, Lost
<1>4. Nesting' = Nesting /\ ~Alive'
  BY <1>1 DEF Nesting, Took, Ok, Alive
<1>5. db' = db => UNCHANGED Promise!txVars
  BY <1>1, <1>4, Stutters
<1> QED  BY <1>1, <1>3, <1>4, <1>5, RowsLost

LEMMA FramesStutter ==
  ASSUME TxsInv, CountInv, FrameInv, RowsInv, torn = FALSE, torn' = FALSE, UNCHANGED vars
  PROVE  FrameInv' /\ RowsInv'
<1>1. UNCHANGED <<conn, db, call, wrk, cur, depth, cl, kept, undone>>
  BY DEF vars, nifVars, adapterVars, ghostVars
<1>2. Nesting' = Nesting /\ (Took' <=> Took) /\ (Alive' <=> Alive)
  BY <1>1 DEF Nesting, Took, Ok, Alive
<1>3. BaseInv /\ StackInv /\ Within
  BY AllWithin DEF TxsInv
<1>4. UNCHANGED Promise!txVars
  BY <1>1, <1>2, <1>3, Stutters
<1>6. Fewer
  BY <1>1, <1>3 DEF Fewer, Within
<1>5. cur'.stage = "run" /\ cur'.req.verb = "insert" /\ Took' =>
        cur.stage = "run" /\ cur.req.verb = "insert" /\ Took /\ cur'.req.arg = cur.req.arg
  BY <1>1, <1>2
<1> QED  BY <1>1, <1>2, <1>3, <1>4, <1>5, <1>6, FramesSame

\* The transaction has been taken back: an answer settles nothing for anybody.
LEMMA TornReplied ==
  ASSUME BaseInv, torn = TRUE, NEW r \in Reqs, NEW ok, Reply(r, ok)
  PROVE  UNCHANGED <<kept, undone>>
<1>1. CASE r.from = None
  BY <1>1, Replied
<1>2. CASE r.from # None
  <2>1. Answered(r.from, r.verb, r.arg, ok)
    BY <1>2, Replied
  <2> QED  BY <2>1 DEF Answered
<1> QED  BY <1>1, <1>2

LEMMA TornSettles ==
  ASSUME BaseInv, torn = TRUE, [Next]_vars
  PROVE  UNCHANGED <<kept, undone>>
<1>1. CASE Native \/ Collect \/ UNCHANGED vars
  BY <1>1 DEF Native, Collect, vars, ghostVars
<1>2. CASE Take
  BY <1>2, TakenHead, TornReplied
<1>3. CASE RunDone \/ CreateDone \/ RelaxDone \/ BeginDone \/ UndoDone \/ NestDone \/ EndDone
           \/ RestoreDone
  BY <1>3, WentOn, TornReplied DEF Answers
<1>4. CASE CloseDone
  <2>1. cur.stage = "close" /\ Reply(cur.req, TRUE)
    BY <1>4 DEF CloseDone, Result
  <2>2. cur.req \in Reqs
    BY <2>1 DEF BaseInv, TypeInv, WorkerType
  <2> QED  BY <2>1, <2>2, TornReplied
<1>5. CASE Crash
  BY <1>5 DEF Crash, ghostVars
<1>6. ASSUME NEW c \in Clients, ClientStep(c) PROVE UNCHANGED <<kept, undone>>
  BY <1>6, ClientFrames
<1> QED  BY <1>1, <1>2, <1>3, <1>4, <1>5, <1>6 DEF Next, WorkerStep

\* What becomes of the rows meanwhile.
LEMMA TornRows ==
  ASSUME TxsInv, torn = TRUE, [Next]_vars
  PROVE  /\ db.durable \subseteq db'.durable
         /\ \A w : Seen(db', w) =>
              Seen(db, w) \/ (Unserved /\ cur.req.verb = "insert" /\ w = cur.req.arg)
<1>1. /\ BaseInv /\ StackInv /\ AliveInv /\ TornType /\ db \in Dbs
      /\ wrk = "none" => db.saves = <<>>
  BY DEF TxsInv, BaseInv, TypeInv, NifType, StackInv
<1>2. db' = db => /\ db.durable \subseteq db'.durable
                  /\ \A w : Seen(db', w) => Seen(db, w)
  OBVIOUS
<1>3. db' = Lost /\ torn' = torn => /\ db.durable \subseteq db'.durable
                                    /\ \A w : Seen(db', w) => Seen(db, w)
  BY <1>1, LostRows
<1>4. CASE Native
  <2>1. UNCHANGED <<wrk, cur, depth>>
    BY <1>1, <1>4, NativeCases
  <2>2. CASE /\ wrk = "run" /\ cur.stage \notin {"rest", "close"}
             /\ call[Worker].pc = "step" /\ ~Took /\ Took' /\ conn'.closed = conn.closed
             /\ Legal(call[Worker].sql) /\ db' = After(call[Worker].sql) /\ torn' = torn
    <3>1. ~conn.closed
      BY <1>1, <2>2 DEF AliveInv
    <3>2. /\ db.durable \subseteq db'.durable
          /\ \A w : Seen(db', w) =>
               Seen(db, w) \/ (cur.stage = "run" /\ cur.req.verb = "insert" /\ w = cur.req.arg)
      BY <1>1, <2>1, <2>2, <3>1, TornStatement
    <3> QED  BY <2>2, <3>2 DEF Unserved
  <2>3. CASE /\ wrk = "run" /\ cur.stage \notin {"rest", "close"}
             /\ ~Took /\ ~Took' /\ db' = RolledBack /\ torn' = (torn \/ db.saves # <<>>)
    <3>1. ~conn.closed
      BY <1>1, <2>3 DEF AliveInv
    <3>2. db'.durable = db.durable /\ \A w : Seen(db', w) => Seen(db, w)
      BY <1>1, <2>1, <2>3, <3>1, RolledBackRows
    <3> QED  BY <3>2
  <2> QED  BY <1>1, <1>2, <1>3, <1>4, <2>2, <2>3, NativeCases
<1>5. CASE Take
  BY <1>1, <1>2, <1>5, Taken
<1>6. CASE RunDone \/ CreateDone \/ RelaxDone \/ BeginDone \/ UndoDone \/ NestDone \/ EndDone
           \/ RestoreDone
  BY <1>1, <1>2, <1>6, Went
<1>7. CASE Crash \/ CloseDone
  BY <1>1, <1>2, <1>7, Ended
<1>8. ASSUME NEW c \in Clients, ClientStep(c) PROVE db' = db
  BY <1>1, <1>8, ClientKeeps
<1>9. CASE Collect
  <2>1. db' = db \/ db' = Lost
    BY <1>9 DEF Collect, ConnDtor, CloseDb, Released, Lost
  <2>2. torn' = torn
    BY <1>9 DEF Collect, adapterVars
  <2> QED  BY <1>2, <1>3, <2>1, <2>2
<1>10. CASE UNCHANGED vars
  <2>1. db' = db
    BY <1>10 DEF vars, nifVars
  <2> QED  BY <1>2, <2>1
<1> QED  BY <1>2, <1>4, <1>5, <1>6, <1>7, <1>8, <1>9, <1>10 DEF Next, WorkerStep

\* The step that takes the transaction back, and the one that ends it.
LEMMA Turns ==
  ASSUME TxsInv, [Next]_vars, torn' # torn
  PROVE  \/ /\ Native /\ wrk = "run" /\ cur.stage \notin {"rest", "close"} /\ ~Took /\ ~Took'
            /\ db' = RolledBack /\ torn' = (torn \/ db.saves # <<>>)
         \/ /\ torn = TRUE /\ torn' = FALSE /\ Nesting = 0 /\ Nesting' = Nesting /\ depth' = 0
            /\ wrk = "run" /\ cur.stage # "close" /\ db' = db
            /\ call'[Worker].pc \in {"idle", "enter"}
<1>1. /\ BaseInv /\ StackInv /\ AliveInv /\ TornType
      /\ (wrk = "none" => db.saves = <<>>) /\ (torn => depth > 0)
  BY DEF TxsInv, StackInv
<1>2. CASE Native
  BY <1>1, <1>2, NativeCases
<1>3. CASE Take
  BY <1>1, <1>3, Taken
<1>4. CASE RunDone \/ CreateDone \/ RelaxDone \/ BeginDone \/ UndoDone \/ NestDone \/ EndDone
           \/ RestoreDone
  <2>1. /\ wrk = "run" /\ cur.stage # "close" /\ db' = db /\ Nesting' = Nesting
        /\ call'[Worker].pc \in {"idle", "enter"}
    BY <1>1, <1>4, Went
  <2>2. torn' = torn \/ (torn /\ torn' = FALSE /\ Nesting = 0 /\ depth' = 0)
    BY <1>1, <1>4, WentTorn
  <2>3. torn => torn = TRUE
    BY <1>1 DEF TornType
  <2> QED  BY <2>1, <2>2, <2>3
<1>5. CASE Crash \/ CloseDone
  BY <1>1, <1>5, Ended
<1>6. ASSUME NEW c \in Clients, ClientStep(c) PROVE FALSE
  BY <1>1, <1>6, ClientKeeps
<1>7. CASE Collect \/ UNCHANGED vars
  BY <1>7 DEF Collect, vars, adapterVars
<1> QED  BY <1>2, <1>3, <1>4, <1>5, <1>6, <1>7 DEF Next, WorkerStep

\* What was kept stays durable, and what was undone stays away, when SQLite takes the
\* transaction back, while its client goes on and when it starts afresh.
LEMMA FramesTorn ==
  ASSUME TxsInv, TxsInv', CountInv', SpentInv, RowsInv, [Next]_vars,
         torn = TRUE \/ torn' = TRUE
  PROVE  FrameInv' /\ RowsInv'
<1>1. /\ BaseInv /\ BaseInv' /\ StackInv /\ StackInv' /\ AliveInv /\ TornType /\ TornType'
      /\ db \in Dbs
  BY DEF TxsInv, BaseInv, TypeInv, NifType
<1>2. ASSUME torn' = TRUE, UNCHANGED <<kept, undone>>, kept \subseteq db'.durable,
             \A w \in undone : ~Seen(db', w)
      PROVE  FrameInv' /\ RowsInv'
  <2>1. FrameInv'
    BY <1>2 DEF FrameInv
  <2>2. db'.durable \subseteq db'.visible
    BY <1>1, <1>2 DEF StackInv, Rows, Ground
  <2>3. kept' \subseteq db'.durable /\ \A w \in undone' : ~Seen(db', w)
    BY <1>2
  <2>4. RowsInv'
    BY <1>2, <2>2, <2>3 DEF RowsInv
  <2> QED  BY <2>1, <2>4
<1>3. CASE torn = FALSE /\ torn' = TRUE
  <2>1. Native /\ wrk = "run" /\ cur.stage \notin {"rest", "close"} /\ ~Took /\ ~Took'
        /\ db' = RolledBack /\ torn' = (torn \/ db.saves # <<>>)
    BY <1>3, Turns
  <2>2. UNCHANGED <<wrk, cur, depth, kept, undone>> /\ ~conn.closed
    BY <1>1, <2>1 DEF Native, ghostVars, AliveInv
  <2>3. db'.saves = <<>> /\ db'.visible = db.durable /\ db'.durable = db.durable
    BY <1>1, <2>1, <2>2, RolledBackRows
  <2>4. \A w \in undone : ~Seen(db', w)
    BY <1>3, <2>3 DEF RowsInv, Gone, Seen
  <2>5. kept \subseteq db'.durable
    BY <2>3 DEF RowsInv
  <2> QED  BY <1>2, <1>3, <2>2, <2>4, <2>5
<1>4. CASE torn = TRUE /\ torn' = TRUE
  <2>1. UNCHANGED <<kept, undone>>
    BY <1>1, <1>4, TornSettles
  <2>2. kept \subseteq db'.durable
    BY <1>4, TornRows DEF RowsInv
  <2>3. ASSUME NEW w \in undone PROVE ~Seen(db', w)
    <3>1. ~Seen(db, w)
      BY <1>4 DEF RowsInv
    <3>2. Unserved /\ cur.req.verb = "insert" => cur.req.arg # w
      BY DEF SpentInv, Spent
    <3> QED  BY <1>4, <3>1, <3>2, TornRows
  <2> QED  BY <1>2, <1>4, <2>1, <2>2, <2>3
<1>5. CASE torn = TRUE /\ torn' = FALSE
  <2>1. /\ Nesting = 0 /\ Nesting' = Nesting /\ depth' = 0
        /\ wrk = "run" /\ cur.stage # "close" /\ db' = db
        /\ call'[Worker].pc \in {"idle", "enter"}
    BY <1>5, Turns
  <2>2. ~conn.closed
    BY <1>1, <2>1 DEF AliveInv
  <2>3. db.saves = <<>> /\ db.visible = db.durable
    BY <1>1, <1>5, <2>1, <2>2, Mends
  <2>4. UNCHANGED <<kept, undone>>
    BY <1>1, <1>5, TornSettles
  <2>5. OpenTx' = <<>>
    BY <2>1, <2>3 DEF OpenTx
  <2>6. RowsInv'
    <3>1. \A w \in undone : ~Seen(db, w)
      BY <1>5 DEF RowsInv
    <3>2. undone' \intersect (db'.durable \union db'.visible) = {}
      BY <2>1, <2>4, <3>1 DEF Seen
    <3>3. Gone(undone)'
      BY <2>5, <3>2 DEF Gone
    <3> QED  BY <1>5, <2>1, <2>3, <2>4, <2>5, <3>3 DEF RowsInv
  <2>7. Within'
    BY <1>1, AllWithinNext
  <2>8. \A d \in Clients : \A i \in 1..Len(cl'[d].frames) : FALSE
    BY <2>1, <2>7 DEF Within
  <2>9. FrameInv'
    BY <2>1, <2>8 DEF FrameInv, Took
  <2> QED  BY <2>6, <2>9
<1>6. torn \in BOOLEAN /\ torn' \in BOOLEAN
  BY <1>1 DEF TornType
<1> QED  BY <1>3, <1>4, <1>5, <1>6

LEMMA BeliefNext ==
  ASSUME TxsInv, TxsInv', BeliefInv, [Next]_vars
  PROVE  BeliefInv'
<1>1. BaseInv /\ BaseInv' /\ AskInv /\ CountInv /\ MonoInv /\ SpentInv /\ FrameInv /\ RowsInv
  BY DEF TxsInv, BeliefInv
<1>2. AskInv' /\ CountInv' /\ MonoInv' /\ SpentInv'
  BY <1>1, AskNext, CountNext, MonoNext, SpentInvNext
<1>3. CASE torn = FALSE /\ torn' = FALSE
  <2>1. FrameInv' /\ RowsInv'
    BY <1>1, <1>2, <1>3, FramesNative, FramesTake, FramesWent, FramesEnded, FramesClient,
       FramesCollect, FramesStutter DEF Next, WorkerStep
  <2> QED  BY <1>2, <2>1 DEF BeliefInv
<1>4. CASE torn = TRUE \/ torn' = TRUE
  <2>1. FrameInv' /\ RowsInv'
    BY <1>1, <1>2, <1>4, FramesTorn
  <2> QED  BY <1>2, <2>1 DEF BeliefInv
<1>5. torn \in BOOLEAN /\ torn' \in BOOLEAN
  BY DEF TxsInv, TornType
<1> QED  BY <1>3, <1>4, <1>5

LEMMA BeliefInit == ConnInit => BeliefInv
<1> SUFFICES ASSUME ConnInit PROVE BeliefInv
  OBVIOUS
<1>1. /\ db = [durable |-> {}, visible |-> {}, saves |-> <<>>, relaxed |-> FALSE]
      /\ wrk = "none" /\ inbox = <<>> /\ cur = Rests /\ depth = 0 /\ torn = FALSE
      /\ cl = [c \in Clients |-> [pc |-> "idle", frames |-> <<>>]]
      /\ kept = {} /\ undone = {}
  BY DEF ConnInit, NifInit
<1>2. cur.stage = "rest" /\ OpenTx = <<>> /\ db.durable = {} /\ db.visible = {}
  BY <1>1 DEF Rests, OpenTx
<1>3. \A c \in Clients : cl[c].pc = "idle" /\ cl[c].frames = <<>>
  BY <1>1
<1>4. AskInv
  BY <1>1, <1>2, <1>3 DEF AskInv, Mine, Ends
<1>5. MonoInv /\ SpentInv /\ FrameInv /\ RowsInv
  BY <1>1, <1>2, <1>3 DEF MonoInv, SpentInv, FrameInv, Alive, RowsInv, Gone
<1>6. CountInv
  <2>1. Tokens = {}
    BY <1>3 DEF Tokens
  <2>2. Served = 0 /\ Cardinality(Places(inbox, Orphaned)) = 0 /\ IsFiniteSet({})
        /\ Cardinality({}) = 0
    BY <1>1, <1>2, NoPlaces, FS_EmptySet DEF Served
  <2> QED  BY <1>1, <2>1, <2>2 DEF CountInv
<1> QED  BY <1>4, <1>5, <1>6 DEF BeliefInv

\* The worker serves one verb at a time and names each savepoint by its depth: whatever
\* the other clients, timeouts and failed statements do, a client whose every verb found
\* the connection at the level it believes in, in a transaction that SQLite had not taken
\* back, has what it committed on disk and what it rolled back nowhere, and also when
\* SQLite takes a transaction back later.
THEOREM InStepTransactions == Spec => []InStepAtomic
<1>1. TxsInv /\ TxsInv' /\ BeliefInv /\ [Next]_vars => BeliefInv'
  BY BeliefNext
<1>2. BeliefInv /\ TornType => InStepAtomic
  <2>1. CASE torn
    BY <2>1 DEF BeliefInv, RowsInv, Seen, InStepAtomic
  <2>2. CASE ~torn
    BY <2>2 DEF BeliefInv, RowsInv, Gone, InStepAtomic
  <2> QED  BY <2>1, <2>2
<1>3. TxsInv => TornType
  BY DEF TxsInv
<1> QED  BY BeliefInit, TxsInvariance, <1>1, <1>2, <1>3, PTL DEF Spec
=============================================================================
