---------------------------- MODULE PgPoolProofs ----------------------------
(***************************************************************************)
(* Theorems about PgPool for every number of callers, connections, verbs   *)
(* and faults.                                                             *)
(*                                                                         *)
(* Sized: the size of the pool is decided by mons alone; only OpenFor      *)
(* makes it larger, and only below the maximum.                            *)
(*                                                                         *)
(* CallersInv: the types, and who awaits a reply of the manager: one       *)
(* checkout in the mailbox or one place in the queue for each such caller. *)
(*                                                                         *)
(* ConnsInv: where each connection is, which leans on CallersInv: only a   *)
(* caller that holds nothing is lent a connection.                         *)
(*                                                                         *)
(* CleanInv: whose request a connection has, and whose transaction, which  *)
(* leans on ConnsInv: only one caller holds it.                            *)
(***************************************************************************)
EXTENDS PgPool, CountingLemmas, SequenceTheorems

\* The manager's State is a record of its five fields.
Shaped(p) ==
  p = [idle |-> p.idle, busy |-> p.busy, mons |-> p.mons,
       checking |-> p.checking, waiters |-> p.waiters]

\* What makes WithinMax inductive.
Sized(p) == Shaped(p) /\ IsFiniteSet(p.mons) /\ Cardinality(p.mons) <= MaxConns

-----------------------------------------------------------------------------
(* The operators that build a State. *)

LEMMA SizedRetired ==
  ASSUME NEW p, Sized(p), NEW ws
  PROVE  Sized(Retired(p, ws))
<1>1. Shaped(Retired(p, ws)) /\ Retired(p, ws).mons = p.mons \ ws
  <2> DEFINE idle == Without(p.idle, ws)
  <2>1. Retired(p, ws) = [p EXCEPT !.idle = idle, !.busy = @ \ ws, !.mons = @ \ ws,
                                   !.checking = @ \ ws]
    BY Zenon DEF Retired
  <2> HIDE DEF idle
  <2> QED  BY <2>1 DEF Sized, Shaped
<1>2. IsFiniteSet(p.mons \ ws) /\ Cardinality(p.mons \ ws) <= Cardinality(p.mons)
  BY FS_Subset DEF Sized
<1>3. Cardinality(p.mons \ ws) \in Nat /\ Cardinality(p.mons) \in Nat
  BY <1>2, FS_CardinalityType DEF Sized
<1> QED  BY <1>1, <1>2, <1>3, PoolAssumption DEF Sized

\* A State with the same connections is as large.
LEMMA SizedSame ==
  ASSUME NEW p, Sized(p), NEW q, Shaped(q), q.mons = p.mons
  PROVE  Sized(q)
BY DEF Sized

LEMMA SizedWaiters ==
  ASSUME NEW p, Sized(p), NEW q, q = [p EXCEPT !.waiters = q.waiters]
  PROVE  Sized(q) /\ q.mons = p.mons
BY DEF Sized, Shaped

LEMMA SizedOpenFor ==
  ASSUME NEW p, Sized(p), HasRoom(p), NEW ps, NEW c, OpenFor(p, ps, c)
  PROVE  Sized(pool')
<1>1. CASE pool' = p
  BY <1>1
<1>2. CASE \E w : pool' = [p EXCEPT !.busy = @ \union {w}, !.mons = @ \union {w}]
  <2>1. PICK w : pool' = [p EXCEPT !.busy = @ \union {w}, !.mons = @ \union {w}]
    BY <1>2
  <2>2. Shaped(pool') /\ pool'.mons = p.mons \union {w}
    BY <2>1 DEF Sized, Shaped
  <2>3. /\ IsFiniteSet(p.mons \union {w})
        /\ Cardinality(p.mons \union {w}) =
             IF w \in p.mons THEN Cardinality(p.mons) ELSE Cardinality(p.mons) + 1
    <3>1. IsFiniteSet(p.mons)
      BY DEF Sized
    <3> QED  BY <3>1, FS_AddElement, Zenon
  <2>4. Cardinality(p.mons) \in Nat
    BY FS_CardinalityType DEF Sized
  <2> QED  BY <2>2, <2>3, <2>4, PoolAssumption DEF Sized, HasRoom
<1> QED  BY <1>1, <1>2 DEF OpenFor

LEMMA SizedServeWaiter ==
  ASSUME NEW p, Sized(p), NEW ps, ServeWaiter(p, ps)
  PROVE  Sized(pool')
<1>1. CASE p.waiters = <<>> \/ ~HasRoom(p)
  BY <1>1 DEF ServeWaiter
<1>2. CASE ~(p.waiters = <<>> \/ ~HasRoom(p))
  <2> DEFINE q == [p EXCEPT !.waiters = Tail(@)]
  <2> DEFINE served == Tail(p.waiters)
  <2>1. q = [p EXCEPT !.waiters = served]
    OBVIOUS
  <2>2. Sized(q) /\ HasRoom(q)
    <3> HIDE DEF q, served
    <3>1. q.waiters = served
      BY <2>1 DEF Sized, Shaped
    <3> QED  BY <1>2, <2>1, <3>1, SizedWaiters DEF HasRoom
  <2>3. OpenFor(q, ps, Head(p.waiters))
    BY <1>2 DEF ServeWaiter
  <2> QED  BY <2>2, <2>3, SizedOpenFor
<1> QED  BY <1>1, <1>2

LEMMA SizedHandOver ==
  ASSUME Sized(pool), NEW w, HandOver(w)
  PROVE  Sized(pool')
BY SizedSame DEF HandOver, Sized, Shaped

-----------------------------------------------------------------------------
(* The handlers of the manager; nobody else touches its State. *)

LEMMA SizedCheckout ==
  ASSUME Sized(pool), HandleCheckout
  PROVE  Sized(pool')
<1> DEFINE none == [pool EXCEPT !.idle = <<>>]
<1>1. Shaped(none) /\ none.mons = pool.mons
  BY DEF Sized, Shaped
<1>2. Sized(none)
  BY <1>1, SizedSame
<1>3. CASE \E i : pool' = [pool EXCEPT !.idle = SubSeq(@, i + 1, Len(@)),
                                       !.busy = @ \union {pool.idle[i]}]
  BY <1>3, SizedSame DEF Sized, Shaped
<1>4. CASE HasRoom(pool) /\ OpenFor(none, st, From)
  <2>1. HasRoom(none)
    BY <1>1, <1>4 DEF HasRoom
  <2> QED  BY <1>2, <1>4, <2>1, SizedOpenFor
<1>5. CASE pool' = none
  BY <1>2, <1>5
<1>6. CASE pool' = [none EXCEPT !.waiters = Append(@, From)]
  BY <1>2, <1>6, SizedSame DEF Sized, Shaped
<1> QED  BY <1>3, <1>4, <1>5, <1>6 DEF HandleCheckout

LEMMA SizedCheckin ==
  ASSUME Sized(pool), HandleCheckin
  PROVE  Sized(pool')
<1>1. CASE UNCHANGED pool
  BY <1>1 DEF Sized, Shaped
<1>2. CASE pool' = [pool EXCEPT !.busy = @ \ {From}]
  BY <1>2, SizedSame DEF Sized, Shaped
<1>3. CASE HandOver(From)
  BY <1>3, SizedHandOver
<1>4. CASE pool' = [pool EXCEPT !.busy = @ \ {From}, !.idle = <<From>> \o @]
  BY <1>4, SizedSame DEF Sized, Shaped
<1>5. CASE pool' = Retired(pool, {From})
  BY <1>5, SizedRetired
<1> QED  BY <1>1, <1>2, <1>3, <1>4, <1>5 DEF HandleCheckin, poolVars

LEMMA SizedDown ==
  ASSUME Sized(pool), HandleDown
  PROVE  Sized(pool')
BY SizedRetired, SizedServeWaiter DEF HandleDown

LEMMA SizedWaiterTimeout ==
  ASSUME Sized(pool), WaiterTimeout
  PROVE  Sized(pool')
<1>1. CASE UNCHANGED pool
  BY <1>1
<1>2. CASE pool' = [pool EXCEPT !.waiters = Without(@, {From})]
  BY <1>2, SizedSame DEF Sized, Shaped
<1> QED  BY <1>1, <1>2 DEF WaiterTimeout

LEMMA SizedMaintenance ==
  ASSUME Sized(pool), Maintenance
  PROVE  Sized(pool')
<1>1. PICK ws, idle, checking :
        pool' = [Retired(pool, ws) EXCEPT !.idle = idle, !.checking = @ \union checking]
  BY Zenon DEF Maintenance
<1> DEFINE r == Retired(pool, ws)
<1>2. Sized(r)
  BY SizedRetired
<1>3. Shaped(pool') /\ pool'.mons = r.mons
  BY <1>1, <1>2 DEF Sized, Shaped
<1> QED  BY <1>2, <1>3, SizedSame

LEMMA SizedPingDone ==
  ASSUME Sized(pool), PingDone
  PROVE  Sized(pool')
<1> DEFINE p == [pool EXCEPT !.checking = @ \ {From}]
<1>1. Shaped(p) /\ p.mons = pool.mons
  BY DEF Sized, Shaped
<1>2. Sized(p)
  BY <1>1, SizedSame
<1>3. CASE UNCHANGED pool
  BY <1>3
<1>4. CASE HandOver(From)
  BY <1>4, SizedHandOver
<1>5. CASE pool' = [p EXCEPT !.idle = <<From>> \o @]
  BY <1>2, <1>5, SizedSame DEF Sized, Shaped
<1>6. CASE pool' = p
  BY <1>2, <1>6
<1>7. CASE ServeWaiter(Retired(p, {From}), Killed({From}))
  BY <1>2, <1>7, SizedRetired, SizedServeWaiter
<1> QED  BY <1>3, <1>4, <1>5, <1>6, <1>7 DEF PingDone, poolVars

LEMMA SizedClose ==
  ASSUME Close
  PROVE  Sized(pool')
BY FS_EmptySet, PoolAssumption DEF Close, Sized, Shaped

LEMMA SizedNext ==
  ASSUME Sized(pool), [Next]_vars
  PROVE  Sized(pool')
<1>1. CASE Manager
  BY <1>1, SizedCheckout, SizedCheckin, SizedDown, SizedWaiterTimeout, SizedMaintenance,
     SizedPingDone, SizedClose DEF Manager
<1>2. ASSUME NEW c \in Callers, Caller(c) \/ TimerFires(c)
      PROVE  UNCHANGED pool
  BY <1>2 DEF Caller, Checkout, Borrow, PinnedVerb, Timeout, Unanswered, PoolGone, Die,
     CloseHandle, TimerFires, poolVars
<1>3. ASSUME NEW w \in Conns, Conn(w)
      PROVE  UNCHANGED pool
  BY <1>3 DEF Conn, Serve, Breaks, Takes, Exits, PingTimeout, poolVars
<1>4. CASE Tick
  BY <1>4 DEF Tick, poolVars
<1>5. CASE UNCHANGED vars
  BY <1>5 DEF vars, poolVars
<1> QED  BY <1>1, <1>2, <1>3, <1>4, <1>5 DEF Next

\* pool_size bounds the connections that the manager monitors, whatever callers, timers
\* and connections do (handle_checkout and serve_waiter open one only below it).
THEOREM PoolSize == Spec => []WithinMax
<1>1. Init => Sized(pool)
  <2>1. IsFiniteSet({1}) /\ Cardinality({1}) = 1
    BY FS_Singleton, Zenon
  <2> QED  BY <2>1, PoolAssumption DEF Init, Sized, Shaped
<1>2. Sized(pool) /\ [Next]_vars => Sized(pool)'
  BY SizedNext DEF Sized, Shaped
<1>3. Sized(pool) => WithinMax
  BY DEF Sized, WithinMax
<1> QED  BY <1>1, <1>2, <1>3, PTL DEF Spec

-----------------------------------------------------------------------------
(* What Without leaves. *)

\* The places of I up to i; their number is the rank of i in I.
UpTo(I, i) == {j \in I : j <= i}
Rank(I, i) == Cardinality(UpTo(I, i))

LEMMA RankRange ==
  ASSUME NEW I, IsFiniteSet(I), I \subseteq Int, NEW i \in I
  PROVE  Rank(I, i) \in 1..Cardinality(I) /\ IsFiniteSet(UpTo(I, i))
<1>1. UpTo(I, i) \subseteq I /\ i \in UpTo(I, i)
  BY DEF UpTo
<1>2. IsFiniteSet(UpTo(I, i)) /\ Cardinality(UpTo(I, i)) <= Cardinality(I)
  BY <1>1, FS_Subset
<1>3. Cardinality(UpTo(I, i)) \in Nat /\ Cardinality(UpTo(I, i)) # 0
  BY <1>1, <1>2, FS_CardinalityType, FS_EmptySet
<1>4. Cardinality(I) \in Nat
  BY FS_CardinalityType
<1> QED  BY <1>2, <1>3, <1>4 DEF Rank

LEMMA RankOrder ==
  ASSUME NEW I, IsFiniteSet(I), I \subseteq Int, NEW i \in I, NEW j \in I, i < j
  PROVE  Rank(I, i) < Rank(I, j)
<1>0. i \in Int /\ j \in Int
  OBVIOUS
<1>1. UpTo(I, i) \subseteq UpTo(I, j)
  <2> SUFFICES ASSUME NEW k \in I, k <= i PROVE k <= j
    BY DEF UpTo
  <2>1. k \in Int
    OBVIOUS
  <2> QED  BY <1>0, <2>1
<1>2. j \in UpTo(I, j) /\ j \notin UpTo(I, i)
  BY <1>0 DEF UpTo
<1>3. UpTo(I, i) # UpTo(I, j)
  BY <1>2
<1>4. IsFiniteSet(UpTo(I, i)) /\ IsFiniteSet(UpTo(I, j))
  BY RankRange
<1>5. Cardinality(UpTo(I, i)) <= Cardinality(UpTo(I, j))
      /\ Cardinality(UpTo(I, i)) # Cardinality(UpTo(I, j))
  BY <1>1, <1>3, <1>4, FS_Subset
<1>6. Cardinality(UpTo(I, i)) \in Nat /\ Cardinality(UpTo(I, j)) \in Nat
  BY <1>4, FS_CardinalityType
<1> QED  BY <1>5, <1>6 DEF Rank

LEMMA RankInjective ==
  ASSUME NEW I, IsFiniteSet(I), I \subseteq Int, NEW i \in I, NEW j \in I,
         Rank(I, i) = Rank(I, j)
  PROVE  i = j
<1>1. i \in Int /\ j \in Int
  OBVIOUS
<1>2. Rank(I, i) \in Int
  <2>1. Cardinality(I) \in Nat /\ Rank(I, i) \in 1..Cardinality(I)
    BY RankRange, FS_CardinalityType
  <2> QED  BY <2>1
<1>3. ~(i < j)
  <2>1. i < j => Rank(I, i) < Rank(I, j)
    BY RankOrder
  <2> QED  BY <1>2, <2>1
<1>4. ~(j < i)
  <2>1. j < i => Rank(I, j) < Rank(I, i)
    BY RankOrder
  <2> QED  BY <1>2, <2>1
<1> QED  BY <1>1, <1>3, <1>4

LEMMA RankOnto ==
  ASSUME NEW I, IsFiniteSet(I), I \subseteq Int, NEW k \in 1..Cardinality(I)
  PROVE  \E i \in I : Rank(I, i) = k
<1> DEFINE n == Cardinality(I)
           rank == [i \in I |-> Rank(I, i)]
<1>1. rank \in [I -> 1..n]
  BY RankRange
<1>2. \A a, b \in I : rank[a] = rank[b] => a = b
  BY RankInjective
<1>3. rank \in Injection(I, 1..n)
  <2> HIDE DEF rank, n
  <2> QED  BY <1>1, <1>2, Zenon DEF Injection, IsInjective
<1>4. n \in Nat
  BY FS_CardinalityType
<1>5. IsFiniteSet(1..n) /\ Cardinality(1..n) = n
  <2> HIDE DEF n
  <2>1. Cardinality(1..n) = IF 1 > n THEN 0 ELSE n - 1 + 1
    BY <1>4, FS_Interval
  <2> QED  BY <1>4, <2>1, FS_Interval
<1>6. rank \in Surjection(I, 1..n)
  <2> HIDE DEF rank
  <2> QED  BY <1>3, <1>5, FS_Injection
<1> QED  BY <1>6 DEF Surjection

\* Without keeps as many places as elements stay, and its k-th element is the one at
\* the k-th of their places: h gives them, in order.
LEMMA WithoutPlaces ==
  ASSUME NEW T, NEW q \in Seq(T), NEW S
  PROVE  /\ Without(q, S) \in Seq(T)
         /\ \E h :
              /\ \A k \in DOMAIN Without(q, S) :
                   /\ h[k] \in DOMAIN q /\ q[h[k]] \notin S /\ Without(q, S)[k] = q[h[k]]
                   /\ \A l \in DOMAIN Without(q, S) : k < l => h[k] < h[l]
              /\ \A i \in DOMAIN q : q[i] \notin S =>
                   \E k \in DOMAIN Without(q, S) : h[k] = i
<1> DEFINE I == {i \in DOMAIN q : q[i] \notin S}
           n == Cardinality(I)
           nth(k) == CHOOSE i \in I : Rank(I, i) = k
           h == [k \in 1..n |-> nth(k)]
<1>1. Without(q, S) = [k \in 1..n |-> q[nth(k)]]
  BY DEF Without, Rank, UpTo
<1>2. I \subseteq 1..Len(q) /\ Len(q) \in Nat
  OBVIOUS
<1>3. /\ \A i \in I : i \in DOMAIN q /\ q[i] \notin S
      /\ \A i \in DOMAIN q : q[i] \notin S => i \in I
      /\ \A i \in DOMAIN q : q[i] \in T
  OBVIOUS
<1> HIDE DEF I
<1>4. I \subseteq Int
  BY <1>2
<1>5. IsFiniteSet(I) /\ n \in Nat
  <2>1. IsFiniteSet(1..Len(q))
    BY <1>2, FS_Interval
  <2>2. IsFiniteSet(I)
    BY <1>2, <2>1, FS_Subset
  <2> QED  BY <2>2, FS_CardinalityType
<1>6. \A k \in 1..n : nth(k) \in I /\ Rank(I, nth(k)) = k
  BY <1>4, <1>5, RankOnto
<1>7. \A k \in 1..n : h[k] = nth(k)
  OBVIOUS
<1>8. DOMAIN Without(q, S) = 1..n /\ \A k \in 1..n : Without(q, S)[k] = q[h[k]]
  BY <1>1
<1>9. \A k \in 1..n : h[k] \in I /\ Rank(I, h[k]) = k
  BY <1>6, <1>7
<1>10. Without(q, S) = [k \in 1..n |-> q[h[k]]]
  BY <1>1
<1> HIDE DEF n, nth, h
<1>11. ASSUME NEW k \in 1..n, NEW l \in 1..n, k < l
       PROVE  h[k] < h[l]
  <2>1. h[k] \in I /\ h[l] \in I /\ h[k] \in Int /\ h[l] \in Int /\ k \in Int /\ l \in Int
    <3>1. k \in Int /\ l \in Int
      BY <1>5
    <3> QED  BY <1>4, <1>9, <3>1
  <2>2. h[l] # h[k]
    <3>1. k # l
      BY <1>11, <2>1
    <3> QED  BY <1>9, <3>1
  <2>3. ~(h[l] < h[k])
    <3>1. h[l] < h[k] => Rank(I, h[l]) < Rank(I, h[k])
      BY <1>4, <1>5, <2>1, RankOrder
    <3>2. h[l] < h[k] => l < k
      BY <1>9, <3>1
    <3> QED  BY <1>11, <2>1, <3>2
  <2> QED  BY <2>1, <2>2, <2>3
<1>12. ASSUME NEW i \in I
       PROVE  \E k \in 1..n : h[k] = i
  <2>1. Rank(I, i) \in 1..n
    BY <1>4, <1>5, RankRange DEF n
  <2>2. h[Rank(I, i)] \in I /\ Rank(I, h[Rank(I, i)]) = Rank(I, i)
    BY <1>9, <2>1
  <2>3. h[Rank(I, i)] = i
    BY <1>4, <1>5, <2>2, RankInjective
  <2> QED  BY <2>1, <2>3
<1>13. Without(q, S) \in Seq(T)
  <2>1. Without(q, S) \in [1..n -> T]
    BY <1>3, <1>9, <1>10
  <2> QED  BY <1>5, <2>1
<1>14. /\ \A k \in 1..n :
            /\ h[k] \in DOMAIN q /\ q[h[k]] \notin S /\ Without(q, S)[k] = q[h[k]]
            /\ \A l \in 1..n : k < l => h[k] < h[l]
       /\ \A i \in DOMAIN q : q[i] \notin S => \E k \in 1..n : h[k] = i
  BY <1>3, <1>8, <1>9, <1>11, <1>12
<1> HIDE DEF n
<1> DEFINE W == Without(q, S)
<1>15. /\ \A k \in DOMAIN W :
            /\ h[k] \in DOMAIN q /\ q[h[k]] \notin S /\ W[k] = q[h[k]]
            /\ \A l \in DOMAIN W : k < l => h[k] < h[l]
       /\ \A i \in DOMAIN q : q[i] \notin S => \E k \in DOMAIN W : h[k] = i
  BY <1>8, <1>14, Zenon
<1> HIDE DEF W
<1>16. \E g :
         /\ \A k \in DOMAIN W :
              /\ g[k] \in DOMAIN q /\ q[g[k]] \notin S /\ W[k] = q[g[k]]
              /\ \A l \in DOMAIN W : k < l => g[k] < g[l]
         /\ \A i \in DOMAIN q : q[i] \notin S => \E k \in DOMAIN W : g[k] = i
  BY <1>15, Zenon
<1> QED  BY <1>13, <1>16, Zenon DEF W

-----------------------------------------------------------------------------
(* What the proofs say of a mailbox and of a list of connections or callers. *)

\* A message of this kind about x is in q, at most once, and before any of kind l.
In(q, k, x) == \E i \in DOMAIN q : q[i].kind = k /\ q[i].who = x
Once(q, k, x) ==
  \A i, j \in DOMAIN q :
    q[i].kind = k /\ q[i].who = x /\ q[j].kind = k /\ q[j].who = x => i = j
Before(q, k, l, x) ==
  \A i, j \in DOMAIN q :
    q[i].kind = k /\ q[i].who = x /\ q[j].kind = l /\ q[j].who = x => i < j

\* Nothing is in q twice.
Unique(q) == \A i, j \in DOMAIN q : q[i] = q[j] => i = j

LEMMA AppendMessage ==
  ASSUME NEW T, NEW q \in Seq(T), NEW m \in T
  PROVE  /\ Append(q, m) \in Seq(T) /\ Append(q, m) # <<>>
         /\ \A k, x : In(Append(q, m), k, x) <=> In(q, k, x) \/ (m.kind = k /\ m.who = x)
         /\ \A k, x : Once(q, k, x) /\ (m.kind = k /\ m.who = x => ~In(q, k, x))
                        => Once(Append(q, m), k, x)
         /\ \A k, l, x : Before(q, k, l, x) /\ k # l /\ (m.kind = k /\ m.who = x => ~In(q, l, x))
                        => Before(Append(q, m), k, l, x)
<1> DEFINE r == Append(q, m)
<1>1. /\ r \in Seq(T) /\ r # <<>> /\ Len(q) \in Nat /\ DOMAIN q = 1..Len(q)
      /\ DOMAIN r = 1..Len(q) + 1 /\ r[Len(q) + 1] = m
      /\ \A i \in 1..Len(q) : r[i] = q[i]
  OBVIOUS
<1> HIDE DEF r
<1>2. \A i \in DOMAIN r : (i \in DOMAIN q /\ r[i] = q[i]) \/ (i = Len(q) + 1 /\ r[i] = m)
  BY <1>1
<1>3. /\ \A i \in DOMAIN q : i \in DOMAIN r /\ r[i] = q[i] /\ i < Len(q) + 1
      /\ Len(q) + 1 \in DOMAIN r
  BY <1>1
<1>4. \A k, x : In(r, k, x) <=> In(q, k, x) \/ (m.kind = k /\ m.who = x)
  BY <1>1, <1>2, <1>3 DEF In
<1>5. \A k, x : Once(q, k, x) /\ (m.kind = k /\ m.who = x => ~In(q, k, x)) => Once(r, k, x)
  BY <1>1, <1>2, <1>3 DEF In, Once
<1>6. \A k, l, x : Before(q, k, l, x) /\ k # l /\ (m.kind = k /\ m.who = x => ~In(q, l, x))
                     => Before(r, k, l, x)
  BY <1>1, <1>2, <1>3 DEF In, Before
<1> QED  BY <1>1, <1>4, <1>5, <1>6 DEF r

LEMMA TailMessage ==
  ASSUME NEW T, NEW q \in Seq(T), q # <<>>
  PROVE  /\ Tail(q) \in Seq(T) /\ Head(q) \in T
         /\ \A k, x : In(q, k, x) <=> In(Tail(q), k, x) \/ (Head(q).kind = k /\ Head(q).who = x)
         /\ \A k, x : Once(q, k, x) =>
              Once(Tail(q), k, x) /\ (Head(q).kind = k /\ Head(q).who = x => ~In(Tail(q), k, x))
         /\ \A k, l, x : Before(q, k, l, x) =>
              /\ Before(Tail(q), k, l, x)
              /\ Head(q).kind = l /\ Head(q).who = x => ~In(Tail(q), k, x)
<1> DEFINE r == Tail(q)
           m == Head(q)
<1>1. /\ r \in Seq(T) /\ m \in T /\ Len(q) \in Nat /\ Len(q) > 0 /\ DOMAIN q = 1..Len(q)
      /\ DOMAIN r = 1..Len(q) - 1 /\ q[1] = m
      /\ \A i \in 1..Len(q) - 1 : r[i] = q[i + 1]
  OBVIOUS
<1> HIDE DEF r, m
<1>2. /\ \A i \in DOMAIN r : i + 1 \in DOMAIN q /\ r[i] = q[i + 1] /\ i \in Nat
      /\ \A i \in DOMAIN q : i = 1 \/ (i - 1 \in DOMAIN r /\ r[i - 1] = q[i])
      /\ 1 \in DOMAIN q
  BY <1>1
<1>3. \A k, x : In(q, k, x) <=> In(r, k, x) \/ (m.kind = k /\ m.who = x)
  BY <1>1, <1>2 DEF In
<1>4. ASSUME NEW k, NEW x, Once(q, k, x)
      PROVE  Once(r, k, x) /\ (m.kind = k /\ m.who = x => ~In(r, k, x))
  BY <1>1, <1>2, <1>4 DEF In, Once
<1>5. ASSUME NEW k, NEW l, NEW x, Before(q, k, l, x)
      PROVE  Before(r, k, l, x) /\ (m.kind = l /\ m.who = x => ~In(r, k, x))
  <2>1. ASSUME NEW i \in DOMAIN r, NEW j \in DOMAIN r, r[i].kind = k, r[i].who = x,
               r[j].kind = l, r[j].who = x
        PROVE  i < j
    <3>1. i + 1 < j + 1
      BY <1>2, <1>5, <2>1 DEF Before
    <3> QED  BY <1>2, <3>1
  <2>2. ASSUME m.kind = l, m.who = x, NEW i \in DOMAIN r, r[i].kind = k, r[i].who = x
        PROVE  FALSE
    <3>1. i + 1 < 1
      BY <1>1, <1>2, <1>5, <2>2 DEF Before
    <3> QED  BY <1>2, <3>1
  <2> QED  BY <2>1, <2>2 DEF Before, In
<1> QED  BY <1>1, <1>3, <1>4, <1>5 DEF r, m

LEMMA WithoutMessages ==
  ASSUME NEW T, NEW q \in Seq(T), NEW ws
  PROVE  LET r == Without(q, {Msg("DOWN", w, TRUE) : w \in ws}) IN
         /\ r \in Seq(T)
         /\ \A k, x : In(r, k, x) => In(q, k, x)
         /\ \A k, x : k # "DOWN" => (In(q, k, x) => In(r, k, x))
         /\ \A k, x : Once(q, k, x) => Once(r, k, x)
         /\ \A k, l, x : Before(q, k, l, x) => Before(r, k, l, x)
<1> DEFINE S == {Msg("DOWN", w, TRUE) : w \in ws}
           r == Without(q, S)
<1>0. \A m \in S : m.kind = "DOWN"
  BY DEF Msg
<1> HIDE DEF S
<1>1. Without(q, S) \in Seq(T) /\
      \E h :
        /\ \A k \in DOMAIN Without(q, S) :
             /\ h[k] \in DOMAIN q /\ q[h[k]] \notin S /\ Without(q, S)[k] = q[h[k]]
             /\ \A l \in DOMAIN Without(q, S) : k < l => h[k] < h[l]
        /\ \A i \in DOMAIN q : q[i] \notin S => \E k \in DOMAIN Without(q, S) : h[k] = i
  BY WithoutPlaces
<1>2. r = Without(q, S)
  OBVIOUS
<1> HIDE DEF r
<1>3. r \in Seq(T)
  BY <1>2, <1>1
<1>4. PICK h :
        /\ \A k \in DOMAIN r :
             /\ h[k] \in DOMAIN q /\ q[h[k]] \notin S /\ r[k] = q[h[k]]
             /\ \A l \in DOMAIN r : k < l => h[k] < h[l]
        /\ \A i \in DOMAIN q : q[i] \notin S => \E k \in DOMAIN r : h[k] = i
  BY <1>2, <1>1, Zenon
<1>5. \A k, x : In(r, k, x) => In(q, k, x)
  BY <1>4 DEF In
<1>6. \A k, x : k # "DOWN" => (In(q, k, x) => In(r, k, x))
  BY <1>0, <1>4 DEF In
<1>7. /\ DOMAIN r \subseteq Int /\ DOMAIN q \subseteq Int
      /\ \A k, l \in DOMAIN r : k < l \/ l < k \/ k = l
  <2>1. DOMAIN r = 1..Len(r) /\ DOMAIN q = 1..Len(q) /\ Len(r) \in Nat /\ Len(q) \in Nat
    BY <1>3
  <2> QED  BY <2>1
<1>8. \A k, x : Once(q, k, x) => Once(r, k, x)
  <2> SUFFICES ASSUME NEW k, NEW x, Once(q, k, x),
                      NEW i \in DOMAIN r, NEW j \in DOMAIN r,
                      r[i].kind = k, r[i].who = x, r[j].kind = k, r[j].who = x
               PROVE  i = j
    BY DEF Once
  <2>1. h[i] = h[j]
    BY <1>4 DEF Once
  <2>2. h[i] \in Int
    BY <1>4, <1>7
  <2> QED  BY <1>4, <1>7, <2>1, <2>2
<1>9. \A k, l, x : Before(q, k, l, x) => Before(r, k, l, x)
  <2> SUFFICES ASSUME NEW k, NEW l, NEW x, Before(q, k, l, x),
                      NEW i \in DOMAIN r, NEW j \in DOMAIN r,
                      r[i].kind = k, r[i].who = x, r[j].kind = l, r[j].who = x
               PROVE  i < j
    BY DEF Before
  <2>1. h[i] < h[j] /\ h[i] \in Int /\ h[j] \in Int
    BY <1>4, <1>7 DEF Before
  <2> QED  BY <1>4, <1>7, <2>1
<1> QED  BY <1>3, <1>5, <1>6, <1>8, <1>9 DEF r, S

LEMMA AppendList ==
  ASSUME NEW T, NEW q \in Seq(T), NEW w \in T
  PROVE  /\ Append(q, w) \in Seq(T) /\ ToSet(Append(q, w)) = ToSet(q) \union {w}
         /\ Unique(q) /\ w \notin ToSet(q) => Unique(Append(q, w))
<1> DEFINE r == Append(q, w)
<1>1. /\ r \in Seq(T) /\ Len(q) \in Nat /\ DOMAIN q = 1..Len(q)
      /\ DOMAIN r = 1..Len(q) + 1 /\ r[Len(q) + 1] = w
      /\ \A i \in 1..Len(q) : r[i] = q[i]
  OBVIOUS
<1> HIDE DEF r
<1>2. \A i \in DOMAIN r : (i \in DOMAIN q /\ r[i] = q[i]) \/ (i = Len(q) + 1 /\ r[i] = w)
  BY <1>1
<1>3. /\ \A i \in DOMAIN q : i \in DOMAIN r /\ r[i] = q[i]
      /\ Len(q) + 1 \in DOMAIN r
  BY <1>1
<1>4. ToSet(r) = ToSet(q) \union {w}
  BY <1>1, <1>2, <1>3 DEF ToSet
<1>5. Unique(q) /\ w \notin ToSet(q) => Unique(r)
  BY <1>2 DEF Unique, ToSet
<1> QED  BY <1>1, <1>4, <1>5 DEF r

LEMMA TailList ==
  ASSUME NEW T, NEW q \in Seq(T), q # <<>>
  PROVE  /\ Tail(q) \in Seq(T) /\ Head(q) \in T
         /\ ToSet(q) = ToSet(Tail(q)) \union {Head(q)}
         /\ Unique(q) => Unique(Tail(q)) /\ Head(q) \notin ToSet(Tail(q))
<1> DEFINE r == Tail(q)
           m == Head(q)
<1>1. /\ r \in Seq(T) /\ m \in T /\ Len(q) \in Nat /\ Len(q) > 0 /\ DOMAIN q = 1..Len(q)
      /\ DOMAIN r = 1..Len(q) - 1 /\ q[1] = m
      /\ \A i \in 1..Len(q) - 1 : r[i] = q[i + 1]
  OBVIOUS
<1> HIDE DEF r, m
<1>2. /\ \A i \in DOMAIN r : i + 1 \in DOMAIN q /\ r[i] = q[i + 1] /\ i \in Nat /\ i + 1 # 1
      /\ \A i \in DOMAIN q : i = 1 \/ (i - 1 \in DOMAIN r /\ r[i - 1] = q[i])
      /\ 1 \in DOMAIN q
  BY <1>1
<1>3. ToSet(q) = ToSet(r) \union {m}
  BY <1>1, <1>2 DEF ToSet
<1>4. ASSUME Unique(q)
      PROVE  Unique(r) /\ m \notin ToSet(r)
  <2>1. ASSUME NEW i \in DOMAIN r, NEW j \in DOMAIN r, r[i] = r[j]
        PROVE  i = j
    <3>1. i + 1 = j + 1
      BY <1>2, <1>4, <2>1 DEF Unique
    <3> QED  BY <1>2, <3>1
  <2>2. ASSUME NEW i \in DOMAIN r
        PROVE  r[i] # m
    BY <1>1, <1>2, <1>4 DEF Unique
  <2> QED  BY <2>1, <2>2 DEF Unique, ToSet
<1> QED  BY <1>1, <1>3, <1>4 DEF r, m

LEMMA ConsList ==
  ASSUME NEW T, NEW q \in Seq(T), NEW w \in T
  PROVE  /\ <<w>> \o q \in Seq(T) /\ ToSet(<<w>> \o q) = ToSet(q) \union {w}
         /\ Unique(q) /\ w \notin ToSet(q) => Unique(<<w>> \o q)
<1> DEFINE r == <<w>> \o q
<1>1. /\ r \in Seq(T) /\ Len(q) \in Nat /\ DOMAIN q = 1..Len(q)
      /\ DOMAIN r = 1..Len(q) + 1 /\ r[1] = w
      /\ \A i \in 1..Len(q) : r[i + 1] = q[i]
  OBVIOUS
<1> HIDE DEF r
<1>2. /\ \A i \in DOMAIN q : i + 1 \in DOMAIN r /\ r[i + 1] = q[i] /\ i \in Nat
      /\ \A i \in DOMAIN r : i = 1 \/ (i - 1 \in DOMAIN q /\ r[i] = q[i - 1])
      /\ \A i \in DOMAIN r : i \in Int
      /\ 1 \in DOMAIN r
  <2>1. \A i \in DOMAIN r : i = 1 \/ (i - 1 \in DOMAIN q /\ i = (i - 1) + 1)
    BY <1>1
  <2> QED  BY <1>1, <2>1
<1>3. ToSet(r) = ToSet(q) \union {w}
  BY <1>1, <1>2 DEF ToSet
<1>4. ASSUME Unique(q), w \notin ToSet(q)
      PROVE  Unique(r)
  <2> SUFFICES ASSUME NEW i \in DOMAIN r, NEW j \in DOMAIN r, r[i] = r[j]
               PROVE  i = j
    BY DEF Unique
  <2>1. CASE i = 1 \/ j = 1
    BY <1>1, <1>2, <1>4, <2>1 DEF ToSet
  <2>2. CASE i # 1 /\ j # 1
    <3>1. i - 1 = j - 1
      BY <1>2, <1>4, <2>2 DEF Unique
    <3> QED  BY <1>2, <3>1
  <2> QED  BY <2>1, <2>2
<1> QED  BY <1>1, <1>3, <1>4 DEF r

LEMMA SubSeqList ==
  ASSUME NEW T, NEW q \in Seq(T), NEW i \in DOMAIN q
  PROVE  LET r == SubSeq(q, i + 1, Len(q)) IN
         /\ r \in Seq(T) /\ ToSet(r) \subseteq ToSet(q)
         /\ \A j \in DOMAIN q : j <= i \/ q[j] \in ToSet(r)
         /\ Unique(q) => Unique(r) /\ q[i] \notin ToSet(r)
<1> DEFINE r == SubSeq(q, i + 1, Len(q))
<1>1. /\ r \in Seq(T) /\ Len(q) \in Nat /\ DOMAIN q = 1..Len(q) /\ i \in 1..Len(q)
      /\ DOMAIN r = 1..Len(q) - i
      /\ \A j \in 1..Len(q) - i : r[j] = q[i + j]
  OBVIOUS
<1> HIDE DEF r
<1>2. /\ \A j \in DOMAIN r : j \in Nat /\ i + j \in DOMAIN q /\ r[j] = q[i + j] /\ i + j # i
      /\ \A j \in DOMAIN q : j <= i \/ (j - i \in DOMAIN r /\ r[j - i] = q[j])
  <2>1. \A j \in DOMAIN q : j <= i \/ (j - i \in DOMAIN r /\ j = i + (j - i))
    BY <1>1
  <2> QED  BY <1>1, <2>1
<1>3. ToSet(r) \subseteq ToSet(q) /\ \A j \in DOMAIN q : j <= i \/ q[j] \in ToSet(r)
  BY <1>1, <1>2 DEF ToSet
<1>4. ASSUME Unique(q)
      PROVE  Unique(r) /\ q[i] \notin ToSet(r)
  <2>1. ASSUME NEW j \in DOMAIN r, NEW k \in DOMAIN r, r[j] = r[k]
        PROVE  j = k
    <3>1. i + j = i + k
      BY <1>2, <1>4, <2>1 DEF Unique
    <3> QED  BY <1>1, <1>2, <3>1
  <2>2. ASSUME NEW j \in DOMAIN r
        PROVE  r[j] # q[i]
    BY <1>2, <1>4 DEF Unique
  <2> QED  BY <2>1, <2>2 DEF Unique, ToSet
<1> QED  BY <1>1, <1>3, <1>4 DEF r

LEMMA ReverseList ==
  ASSUME NEW T, NEW q \in Seq(T)
  PROVE  /\ Reverse(q) \in Seq(T) /\ ToSet(Reverse(q)) = ToSet(q)
         /\ Unique(q) => Unique(Reverse(q))
<1> DEFINE r == Reverse(q)
           n == Len(q)
<1>1. /\ n \in Nat /\ DOMAIN q = 1..n /\ r = [i \in 1..n |-> q[(n - i) + 1]]
      /\ \A i \in 1..n : q[i] \in T /\ (n - i) + 1 \in 1..n /\ i = (n - ((n - i) + 1)) + 1
  BY DEF Reverse
<1>2. r \in Seq(T)
  <2> HIDE DEF r
  <2>1. r \in [1..n -> T]
    BY <1>1
  <2> QED  BY <1>1, <2>1
<1> HIDE DEF r, n
<1>3. /\ \A i \in DOMAIN r : i \in Int /\ (n - i) + 1 \in DOMAIN q /\ r[i] = q[(n - i) + 1]
      /\ \A i \in DOMAIN q : (n - i) + 1 \in DOMAIN r /\ r[(n - i) + 1] = q[i]
  BY <1>1
<1>4. ToSet(r) = ToSet(q)
  BY <1>3 DEF ToSet
<1>5. ASSUME Unique(q)
      PROVE  Unique(r)
  <2> SUFFICES ASSUME NEW i \in DOMAIN r, NEW j \in DOMAIN r, r[i] = r[j]
               PROVE  i = j
    BY DEF Unique
  <2>1. (n - i) + 1 = (n - j) + 1
    BY <1>3, <1>5 DEF Unique
  <2> QED  BY <1>1, <1>3, <2>1
<1> QED  BY <1>2, <1>4, <1>5 DEF r

LEMMA WithoutList ==
  ASSUME NEW T, NEW q \in Seq(T), NEW S
  PROVE  /\ Without(q, S) \in Seq(T) /\ ToSet(Without(q, S)) = ToSet(q) \ S
         /\ Unique(q) => Unique(Without(q, S))
<1> DEFINE r == Without(q, S)
<1>1. r \in Seq(T) /\
      \E h :
        /\ \A k \in DOMAIN r :
             /\ h[k] \in DOMAIN q /\ q[h[k]] \notin S /\ r[k] = q[h[k]]
             /\ \A l \in DOMAIN r : k < l => h[k] < h[l]
        /\ \A i \in DOMAIN q : q[i] \notin S => \E k \in DOMAIN r : h[k] = i
  BY WithoutPlaces
<1> HIDE DEF r
<1>2. PICK h :
        /\ \A k \in DOMAIN r :
             /\ h[k] \in DOMAIN q /\ q[h[k]] \notin S /\ r[k] = q[h[k]]
             /\ \A l \in DOMAIN r : k < l => h[k] < h[l]
        /\ \A i \in DOMAIN q : q[i] \notin S => \E k \in DOMAIN r : h[k] = i
  BY <1>1, Zenon
<1>3. ToSet(r) = ToSet(q) \ S
  BY <1>2 DEF ToSet
<1>4. /\ DOMAIN r \subseteq Int /\ DOMAIN q \subseteq Int
      /\ \A k, l \in DOMAIN r : k < l \/ l < k \/ k = l
  <2>1. DOMAIN r = 1..Len(r) /\ DOMAIN q = 1..Len(q) /\ Len(r) \in Nat /\ Len(q) \in Nat
    BY <1>1
  <2> QED  BY <2>1
<1>5. ASSUME Unique(q)
      PROVE  Unique(r)
  <2> SUFFICES ASSUME NEW i \in DOMAIN r, NEW j \in DOMAIN r, r[i] = r[j]
               PROVE  i = j
    BY DEF Unique
  <2>1. h[i] = h[j] /\ h[i] \in Int
    BY <1>2, <1>4, <1>5 DEF Unique
  <2> QED  BY <1>2, <1>4, <2>1
<1> QED  BY <1>1, <1>3, <1>5 DEF r

-----------------------------------------------------------------------------
(* The states the processes are in: the types, and what a caller may be doing. *)

Messages ==
  {m \in [kind : Kinds, who : Callers \union Conns \union {None}, ok : BOOLEAN] :
     /\ m.kind \in {"checkout", "waiter_timeout"} => m.who \in Callers
     /\ m.kind \in {"checkin", "DOWN", "ping_done"} => m.who \in Conns}

Requests ==
  {r \in [by : Callers \union {Ping}, verb : Verbs, waits : BOOLEAN] :
     r.by = Ping <=> r.verb = "ping"}

States ==
  [idle : Seq(Conns), busy : SUBSET Conns, mons : SUBSET Conns,
   checking : SUBSET Conns, waiters : Seq(Callers)]

\* A caller at rest has a connection exactly when it is in a transaction, and a verb
\* fits the depth of the transaction it was started in.
Callings ==
  {r \in [pc : Pcs, verb : Verbs \union {None}, conn : Conns \union {None},
          depth : 0..MaxNest] :
     /\ r.pc = "rest" => (r.conn = None <=> r.depth = 0)
     /\ r.pc \in {"checkout", "lent"} => r.depth = 0
     /\ r.pc = "checkout" => r.conn = None
     /\ r.pc \in {"lent", "asked"} => r.conn \in Conns
     /\ r.pc = "asked" =>
          /\ r.verb \in Verbs \ {"ping"}
          /\ r.verb = "begin" => r.depth = 0
          /\ r.verb = "savepoint" => r.depth > 0 /\ r.depth < MaxNest
          /\ r.verb \in {"release", "rollback_to"} => r.depth > 1
          /\ r.verb \in {"commit", "rollback"} => r.depth = 1}

ConnsTyped ==
  /\ st \in [Conns -> {"none", "up", "closing", "dead"}]
  /\ todo \in [Conns -> Seq(Requests)]
  /\ session \in [Conns -> [owner : Callers \union {None}, failed : BOOLEAN]]

Typed ==
  /\ up \in BOOLEAN
  /\ mbox \in Seq(Messages)
  /\ pool \in States
  /\ timers \subseteq Callers
  /\ ConnsTyped
  /\ pings \subseteq Conns /\ suspect \subseteq Conns
  /\ cl \in [Callers -> Callings]

Parked == ToSet(pool.waiters)

\* A caller that awaits the reply of the manager, or died awaiting it.
Waits(c) == cl[c].pc \in {"checkout", "dead"} /\ cl[c].conn = None

\* A caller that awaits a reply has one checkout in the mailbox or one place in the
\* queue, and its timer rings for that place alone.
Asking ==
  /\ Unique(pool.waiters)
  /\ timers \subseteq Parked
  /\ \A c \in Callers :
       /\ In(mbox, "checkout", c) => Waits(c) /\ c \notin Parked
       /\ c \in Parked => Waits(c)
       /\ Once(mbox, "checkout", c)
       /\ c \in timers => ~In(mbox, "waiter_timeout", c)
       /\ Before(mbox, "waiter_timeout", "checkout", c)

\* A pool that was closed keeps nothing.
Down ==
  ~up =>
    /\ mbox = <<>> /\ pool.idle = <<>> /\ pool.waiters = <<>>
    /\ pool.busy = {} /\ pool.mons = {} /\ pool.checking = {}

CallersInv == Typed /\ Asking /\ Down

-----------------------------------------------------------------------------
(* What the operators of the callers do. *)

\* One message more, from a process other than the manager.
Posts(m) == m \in Messages /\ (mbox' = IF up THEN Append(mbox, m) ELSE mbox)

LEMMA PostsViews ==
  ASSUME Typed, NEW m, Posts(m)
  PROVE  /\ mbox' \in Seq(Messages) /\ (~up => mbox' = mbox)
         /\ \A k, x : In(mbox', k, x) => In(mbox, k, x) \/ (m.kind = k /\ m.who = x)
         /\ \A k, x : In(mbox, k, x) => In(mbox', k, x)
         /\ up => In(mbox', m.kind, m.who)
         /\ \A k, x : Once(mbox, k, x) /\ (m.kind = k /\ m.who = x => ~In(mbox, k, x))
                        => Once(mbox', k, x)
         /\ \A k, l, x : Before(mbox, k, l, x) /\ k # l /\ (m.kind = k /\ m.who = x => ~In(mbox, l, x))
                        => Before(mbox', k, l, x)
<1>1. mbox \in Seq(Messages)
  BY DEF Typed
<1>2. CASE ~up
  BY <1>1, <1>2 DEF Posts
<1>3. CASE up
  <2>1. m \in Messages /\ mbox' = Append(mbox, m)
    BY <1>3 DEF Posts
  <2> QED  BY <1>1, <1>3, <2>1, AppendMessage
<1> QED  BY <1>2, <1>3

LEMMA PinnedRange ==
  ASSUME Typed, NEW c \in Callers, cl[c].pc = "asked", NEW ok
  PROVE  /\ Pinned(c, cl[c].verb, ok) \in 0..MaxNest
         /\ cl[c].verb \in {"savepoint", "release", "rollback_to"} => Pinned(c, cl[c].verb, ok) > 0
         /\ cl[c].verb = "call" => Pinned(c, cl[c].verb, ok) = cl[c].depth
         /\ cl[c].verb \in {"commit", "rollback"} => Pinned(c, cl[c].verb, ok) = 0
         /\ cl[c].verb = "begin" => Pinned(c, cl[c].verb, ok) = IF ok THEN 1 ELSE 0
<1>1. cl[c] \in Callings
  BY DEF Typed
<1>2. MaxNest \in Nat \ {0}
  BY PoolAssumption
<1> QED  BY <1>1, <1>2 DEF Pinned, Callings, Verbs

\* The outcome of a verb gives the connection back, or keeps it for the transaction.
LEMMA OutcomeViews ==
  ASSUME Typed, NEW c \in Callers, cl[c].pc = "asked", NEW ok, Outcome(c, ok)
  PROVE  /\ cl' \in [Callers -> Callings]
         /\ \A d \in Callers : d # c => cl'[d] = cl[d]
         /\ cl'[c].pc = "rest" /\ cl'[c].depth = Pinned(c, cl[c].verb, ok)
         /\ cl[c].conn \in Conns
         /\ \/ /\ cl'[c].depth = 0 /\ cl'[c].conn = None
               /\ Posts(Msg("checkin", cl[c].conn, TRUE))
            \/ cl'[c].depth > 0 /\ cl'[c].conn = cl[c].conn /\ mbox' = mbox
<1> DEFINE depth == Pinned(c, cl[c].verb, ok)
           r == [pc |-> "rest", verb |-> None, depth |-> depth,
                 conn |-> IF depth = 0 THEN None ELSE cl[c].conn]
<1>1. cl[c] \in Callings /\ cl \in [Callers -> Callings] /\ cl[c].conn \in Conns
  BY DEF Typed, Callings
<1>2. MaxNest \in Nat \ {0} /\ None \notin Conns
  BY PoolAssumption DEF Conns
<1>3. depth \in 0..MaxNest
  BY PinnedRange
<1>4. cl' = [cl EXCEPT ![c] = r]
      /\ IF depth = 0 THEN Tell(Msg("checkin", cl[c].conn, TRUE)) ELSE mbox' = mbox
  BY DEF Outcome
<1>5. Msg("checkin", cl[c].conn, TRUE) \in Messages
  BY <1>1 DEF Msg, Messages, Kinds
<1> HIDE DEF depth
<1>6. r \in Callings
  BY <1>1, <1>2, <1>3 DEF Callings, Pcs
<1>7. r.pc = "rest" /\ r.depth = depth /\ r.conn = IF depth = 0 THEN None ELSE cl[c].conn
  OBVIOUS
<1> HIDE DEF r
<1>8. /\ cl' \in [Callers -> Callings] /\ cl'[c] = r
      /\ \A d \in Callers : d # c => cl'[d] = cl[d]
  BY <1>1, <1>4, <1>6
<1>9. depth = 0 => Posts(Msg("checkin", cl[c].conn, TRUE))
  BY <1>4, <1>5 DEF Posts, Tell
<1>10. depth # 0 => depth > 0
  BY <1>2, <1>3
<1> QED  BY <1>1, <1>4, <1>7, <1>8, <1>9, <1>10 DEF depth

\* A caller's request reaches the connection if there is one.
LEMMA AskViews ==
  ASSUME Typed, NEW c \in Callers, NEW w \in Conns, NEW verb \in Verbs \ {"ping"}, Ask(c, w, verb),
         [cl[c] EXCEPT !.pc = "asked", !.verb = verb, !.conn = w] \in Callings
  PROVE  /\ cl' \in [Callers -> Callings]
         /\ \A d \in Callers : d # c => cl'[d] = cl[d]
         /\ cl'[c].pc = "asked" /\ cl'[c].verb = verb /\ cl'[c].conn = w
         /\ cl'[c].depth = cl[c].depth
         /\ todo' \in [Conns -> Seq(Requests)]
         /\ \A v \in Conns : v # w => todo'[v] = todo[v]
         /\ todo'[w] = todo[w] \/ todo'[w] = Append(todo[w], Request(c, verb))
<1> DEFINE r == [cl[c] EXCEPT !.pc = "asked", !.verb = verb, !.conn = w]
<1>1. cl' = [cl EXCEPT ![c] = r]
  BY DEF Ask
<1>2. cl \in [Callers -> Callings] /\ todo \in [Conns -> Seq(Requests)] /\ cl[c] \in Callings
  BY DEF Typed, ConnsTyped
<1>3. r.pc = "asked" /\ r.verb = verb /\ r.conn = w /\ r.depth = cl[c].depth
  BY <1>2 DEF Callings
<1>4. Request(c, verb) \in Requests
  BY PoolAssumption DEF Request, Requests
<1>5. todo' = IF Alive(w) THEN [todo EXCEPT ![w] = Append(@, Request(c, verb))] ELSE todo
  BY DEF Ask
<1> HIDE DEF r
<1>6. todo[w] \in Seq(Requests) /\ Append(todo[w], Request(c, verb)) \in Seq(Requests)
  BY <1>2, <1>4
<1>7. /\ todo' \in [Conns -> Seq(Requests)]
      /\ \A v \in Conns : v # w => todo'[v] = todo[v]
      /\ todo'[w] = todo[w] \/ todo'[w] = Append(todo[w], Request(c, verb))
  <2> DEFINE q == Append(todo[w], Request(c, verb))
  <2>1. todo' = [todo EXCEPT ![w] = q] \/ todo' = todo
    BY <1>5
  <2>2. q \in Seq(Requests)
    BY <1>6
  <2>3. q = Append(todo[w], Request(c, verb))
    OBVIOUS
  <2> HIDE DEF q
  <2> QED  BY <1>2, <2>1, <2>2, <2>3
<1>8. /\ cl' \in [Callers -> Callings] /\ cl'[c] = r
      /\ \A d \in Callers : d # c => cl'[d] = cl[d]
  BY <1>1, <1>2 DEF r
<1> QED  BY <1>3, <1>7, <1>8

\* A reply of the manager ends a wait.
LEMMA LendViews ==
  ASSUME Typed, NEW c \in Callers, Waits(c), NEW w \in Conns, Lend(c, w)
  PROVE  /\ cl' \in [Callers -> Callings]
         /\ \A d \in Callers : d # c => cl'[d] = cl[d]
         /\ cl'[c].pc = (IF cl[c].pc = "dead" THEN "dead" ELSE "lent")
         /\ cl'[c].conn = w /\ cl'[c].depth = cl[c].depth /\ cl'[c].verb = cl[c].verb
<1> DEFINE r == [cl[c] EXCEPT !.pc = IF @ = "dead" THEN @ ELSE "lent", !.conn = w]
<1>1. cl' = [cl EXCEPT ![c] = r]
  BY DEF Lend
<1>2. cl \in [Callers -> Callings] /\ cl[c] \in Callings
  BY DEF Typed
<1>3. /\ r.pc = (IF cl[c].pc = "dead" THEN "dead" ELSE "lent")
      /\ r.conn = w /\ r.depth = cl[c].depth /\ r.verb = cl[c].verb
  BY <1>2 DEF Callings
<1>4. r \in Callings
  BY <1>2 DEF Waits, Callings, Pcs
<1> HIDE DEF r
<1>5. /\ cl' \in [Callers -> Callings] /\ cl'[c] = r
      /\ \A d \in Callers : d # c => cl'[d] = cl[d]
  BY <1>1, <1>2, <1>4
<1> QED  BY <1>3, <1>5

LEMMA RefusedViews ==
  ASSUME Typed, NEW S \in SUBSET Callers, \A c \in S : Waits(c), Refused(S)
  PROVE  /\ cl' \in [Callers -> Callings]
         /\ \A d \in Callers :
              /\ d \notin S => cl'[d] = cl[d]
              /\ d \in S => cl'[d].pc = (IF cl[d].pc = "dead" THEN "dead" ELSE "rest")
              /\ cl'[d].conn = cl[d].conn /\ cl'[d].depth = cl[d].depth
              /\ cl'[d].verb = cl[d].verb
<1>1. cl \in [Callers -> Callings]
  BY DEF Typed
<1>2. cl' = [c \in Callers |-> IF c \in S /\ cl[c].pc # "dead" THEN [cl[c] EXCEPT !.pc = "rest"]
                               ELSE cl[c]]
  BY DEF Refused
<1>3. ASSUME NEW d \in Callers
      PROVE  /\ cl'[d] \in Callings
             /\ d \notin S => cl'[d] = cl[d]
             /\ d \in S => cl'[d].pc = (IF cl[d].pc = "dead" THEN "dead" ELSE "rest")
             /\ cl'[d].conn = cl[d].conn /\ cl'[d].depth = cl[d].depth
             /\ cl'[d].verb = cl[d].verb
  <2> DEFINE r == [cl[d] EXCEPT !.pc = "rest"]
  <2>1. cl[d] \in Callings
    BY <1>1
  <2>2. CASE d \in S /\ cl[d].pc # "dead"
    <3>1. cl'[d] = r
      BY <1>2, <2>2
    <3>2. /\ r.pc = "rest" /\ r.conn = cl[d].conn /\ r.depth = cl[d].depth
          /\ r.verb = cl[d].verb
      BY <2>1 DEF Callings
    <3>3. cl[d].pc = "checkout" /\ cl[d].conn = None
      BY <2>2 DEF Waits
    <3>4. r \in Callings
      BY <2>1, <3>3 DEF Callings, Pcs
    <3> QED  BY <2>2, <3>1, <3>2, <3>4
  <2>3. CASE ~(d \in S /\ cl[d].pc # "dead")
    BY <1>2, <2>1, <2>3
  <2> QED  BY <2>2, <2>3
<1> QED  BY <1>2, <1>3

-----------------------------------------------------------------------------
(* What the operators of the manager do. *)

\* The manager takes one message, and may drop DOWNs.
LEMMA TakenViews ==
  ASSUME Typed, NEW kind, Receives(kind), NEW ws, Taken \/ Flush(ws)
  PROVE  /\ mbox' \in Seq(Messages) /\ Head(mbox) \in Messages /\ Head(mbox).kind = kind
         /\ up /\ In(mbox, kind, From)
         /\ \A k, x : In(mbox', k, x) => In(mbox, k, x)
         /\ \A k, x : k # "DOWN" /\ In(mbox, k, x) => In(mbox', k, x) \/ (k = kind /\ x = From)
         /\ \A x : Once(mbox, kind, x) => ~In(mbox', kind, From) \/ x # From
         /\ \A k, x : Once(mbox, k, x) => Once(mbox', k, x)
         /\ \A k, l, x : Before(mbox, k, l, x) => Before(mbox', k, l, x)
         /\ \A k : Before(mbox, k, kind, From) => ~In(mbox', k, From)
<1>1. mbox \in Seq(Messages) /\ mbox # <<>> /\ up /\ Head(mbox).kind = kind /\ Head(mbox).who = From
  BY DEF Typed, Receives, From
<1> DEFINE t == Tail(mbox)
<1>2. /\ t \in Seq(Messages) /\ Head(mbox) \in Messages
      /\ \A k, x : In(mbox, k, x) <=> In(t, k, x) \/ (kind = k /\ From = x)
      /\ \A k, x : Once(mbox, k, x) =>
           Once(t, k, x) /\ (kind = k /\ From = x => ~In(t, k, x))
      /\ \A k, l, x : Before(mbox, k, l, x) =>
           Before(t, k, l, x) /\ (kind = l /\ From = x => ~In(t, k, x))
  BY <1>1, TailMessage
<1>3. mbox' = t \/ mbox' = Without(t, {Msg("DOWN", w, TRUE) : w \in ws})
  BY DEF Taken, Flush
<1> HIDE DEF t
<1>4. /\ mbox' \in Seq(Messages)
      /\ \A k, x : In(mbox', k, x) => In(t, k, x)
      /\ \A k, x : k # "DOWN" => (In(t, k, x) => In(mbox', k, x))
      /\ \A k, x : Once(t, k, x) => Once(mbox', k, x)
      /\ \A k, l, x : Before(t, k, l, x) => Before(mbox', k, l, x)
  <2>1. CASE mbox' = t
    BY <1>2, <2>1
  <2>2. CASE mbox' = Without(t, {Msg("DOWN", w, TRUE) : w \in ws})
    BY <1>2, <2>2, WithoutMessages
  <2> QED  BY <1>3, <2>1, <2>2
<1> QED  BY <1>1, <1>2, <1>4

-----------------------------------------------------------------------------
(* CallersInv: the steps of the callers, the connections and the timers. *)

\* A step of another process leaves the queue as it is.
LEMMA AskingKept ==
  ASSUME CallersInv, pool' = pool, timers' = timers, up' = up,
         mbox' = mbox \/ \E m : Posts(m) /\ m.kind \notin {"checkout", "waiter_timeout"},
         \A c \in Callers : Waits(c) => Waits(c)'
  PROVE  Asking' /\ Down' /\ mbox' \in Seq(Messages)
<1>1. Typed /\ Asking /\ Down
  BY DEF CallersInv
<1>2. CASE mbox' = mbox
  <2>1. Asking'
    BY <1>1, <1>2, Zenon DEF Asking, Parked
  <2>2. Down' /\ mbox' \in Seq(Messages)
    BY <1>1, <1>2 DEF Down, Typed
  <2> QED  BY <2>1, <2>2
<1>3. ASSUME NEW m, Posts(m), m.kind \notin {"checkout", "waiter_timeout"}
      PROVE  Asking' /\ Down' /\ mbox' \in Seq(Messages)
  <2>1. /\ mbox' \in Seq(Messages) /\ (~up => mbox' = mbox)
        /\ \A x : /\ In(mbox', "checkout", x) => In(mbox, "checkout", x)
                  /\ In(mbox', "waiter_timeout", x) => In(mbox, "waiter_timeout", x)
                  /\ Once(mbox, "checkout", x) => Once(mbox', "checkout", x)
                  /\ Before(mbox, "waiter_timeout", "checkout", x)
                       => Before(mbox', "waiter_timeout", "checkout", x)
    BY <1>1, <1>3, PostsViews
  <2>2. Asking'
    BY <1>1, <2>1 DEF Asking, Parked
  <2>3. Down'
    BY <1>1, <2>1 DEF Down
  <2> QED  BY <2>1, <2>2, <2>3
<1> QED  BY <1>2, <1>3

LEMMA CallersCheckout ==
  ASSUME CallersInv, NEW c \in Callers, Checkout(c)
  PROVE  CallersInv'
<1> DEFINE m == Msg("checkout", c, TRUE)
<1>1. Typed /\ Asking /\ Down
  BY DEF CallersInv
<1>2. cl[c] \in Callings /\ cl \in [Callers -> Callings] /\ cl[c].pc = "rest" /\ cl[c].depth = 0
  BY <1>1 DEF Checkout, Typed
<1>3. m \in Messages /\ m.kind = "checkout" /\ m.who = c
  BY DEF Msg, Messages, Kinds
<1>4. Posts(m) /\ UNCHANGED <<up, pool, timers, st, todo, session, pings, suspect>>
  BY <1>3 DEF Posts, Checkout, Tell, poolVars, connVars
<1>5. cl' \in [Callers -> Callings] /\ cl'[c].pc = "checkout" /\ cl'[c].conn = None
      /\ \A d \in Callers : d # c => cl'[d] = cl[d]
  <2> DEFINE r == [cl[c] EXCEPT !.pc = "checkout"]
  <2>1. r \in Callings /\ r.pc = "checkout" /\ r.conn = None
    BY <1>2 DEF Callings, Pcs
  <2>2. cl' = [cl EXCEPT ![c] = r]
    BY DEF Checkout
  <2> HIDE DEF r
  <2> QED  BY <1>2, <2>1, <2>2
<1> HIDE DEF m
<1>6. /\ mbox' \in Seq(Messages) /\ (~up => mbox' = mbox)
      /\ \A k, x : In(mbox', k, x) => In(mbox, k, x) \/ (m.kind = k /\ m.who = x)
      /\ \A k, x : Once(mbox, k, x) /\ (m.kind = k /\ m.who = x => ~In(mbox, k, x))
                     => Once(mbox', k, x)
      /\ \A k, l, x : Before(mbox, k, l, x) /\ k # l /\ (m.kind = k /\ m.who = x => ~In(mbox, l, x))
                     => Before(mbox', k, l, x)
  BY <1>1, <1>4, PostsViews
<1>7. ~Waits(c)
  BY <1>2 DEF Waits
<1>8. ~In(mbox, "checkout", c) /\ c \notin Parked
  BY <1>1, <1>7 DEF Asking
<1>9. Typed'
  BY <1>1, <1>4, <1>5, <1>6 DEF Typed, ConnsTyped
<1>10. Down'
  BY <1>1, <1>4, <1>6 DEF Down
<1>11. Unique(pool.waiters)' /\ (timers \subseteq Parked)'
  BY <1>1, <1>4 DEF Asking, Parked
<1>12. ASSUME NEW d \in Callers
       PROVE  /\ In(mbox', "checkout", d) => Waits(d)' /\ d \notin Parked'
              /\ d \in Parked' => Waits(d)'
              /\ Once(mbox', "checkout", d)
              /\ d \in timers' => ~In(mbox', "waiter_timeout", d)
              /\ Before(mbox', "waiter_timeout", "checkout", d)
  <2>1. Parked' = Parked /\ timers' = timers
    BY <1>4 DEF Parked
  <2>2. CASE d = c
    BY <1>1, <1>3, <1>5, <1>6, <1>8, <2>1, <2>2 DEF Asking, Waits
  <2>3. CASE d # c
    BY <1>1, <1>3, <1>5, <1>6, <2>1, <2>3 DEF Asking, Waits
  <2> QED  BY <2>2, <2>3
<1>13. Asking'
  BY <1>11, <1>12 DEF Asking
<1> QED  BY <1>9, <1>10, <1>13 DEF CallersInv

LEMMA CallersBorrow ==
  ASSUME CallersInv, NEW c \in Callers, Borrow(c)
  PROVE  CallersInv'
<1>1. Typed /\ Asking /\ Down
  BY DEF CallersInv
<1>2. cl[c] \in Callings /\ cl[c].pc = "lent" /\ cl[c].conn \in Conns /\ cl[c].depth = 0
  BY <1>1 DEF Borrow, Typed, Callings
<1>3. PICK verb \in {"call", "begin"} : Ask(c, cl[c].conn, verb)
  BY DEF Borrow
<1>4. [cl[c] EXCEPT !.pc = "asked", !.verb = verb, !.conn = cl[c].conn] \in Callings
  BY <1>2 DEF Callings, Pcs, Verbs
<1>5. verb \in Verbs \ {"ping"}
  BY DEF Verbs
<1>6. /\ cl' \in [Callers -> Callings] /\ todo' \in [Conns -> Seq(Requests)]
      /\ \A d \in Callers : d # c => cl'[d] = cl[d]
  BY <1>1, <1>2, <1>3, <1>4, <1>5, AskViews
<1>7. UNCHANGED <<up, mbox, pool, timers, st, session, pings, suspect>>
  BY DEF Borrow, poolVars
<1>8. \A d \in Callers : Waits(d) => Waits(d)'
  BY <1>2, <1>6 DEF Waits
<1>9. Asking' /\ Down'
  BY <1>7, <1>8, AskingKept
<1> QED  BY <1>1, <1>6, <1>7, <1>9 DEF CallersInv, Typed, ConnsTyped

\* In a transaction, a caller at rest asks its connection for a verb of this depth.
LEMMA PinnedVerbViews ==
  ASSUME Typed, NEW c \in Callers, PinnedVerb(c)
  PROVE  /\ cl[c].pc = "rest" /\ cl[c].conn \in Conns /\ cl[c].depth > 0
         /\ \E verb \in Verbs \ {"ping", "begin"} :
              /\ Ask(c, cl[c].conn, verb)
              /\ [cl[c] EXCEPT !.pc = "asked", !.verb = verb, !.conn = cl[c].conn] \in Callings
<1>1. cl[c] \in Callings /\ cl[c].pc = "rest" /\ cl[c].depth > 0
  BY DEF PinnedVerb, Typed
<1>2. MaxNest \in Nat /\ cl[c].conn \in Conns
  BY <1>1, PoolAssumption DEF Callings
<1> DEFINE fits(verb) ==
      [cl[c] EXCEPT !.pc = "asked", !.verb = verb, !.conn = cl[c].conn] \in Callings
<1>3. /\ fits("call")
      /\ cl[c].depth < MaxNest => fits("savepoint")
      /\ cl[c].depth > 1 => fits("release") /\ fits("rollback_to")
      /\ cl[c].depth = 1 => fits("commit") /\ fits("rollback")
  BY <1>1, <1>2 DEF Callings, Pcs, Verbs
<1> HIDE DEF fits
<1>4. \E verb \in {"call", "savepoint", "release", "rollback_to", "commit", "rollback"} :
        Ask(c, cl[c].conn, verb) /\ fits(verb)
  BY <1>3 DEF PinnedVerb
<1>5. {"call", "savepoint", "release", "rollback_to", "commit", "rollback"} \subseteq
        Verbs \ {"ping", "begin"}
  BY DEF Verbs
<1>6. \E verb \in Verbs \ {"ping", "begin"} : Ask(c, cl[c].conn, verb) /\ fits(verb)
  BY <1>4, <1>5, Zenon
<1> QED  BY <1>1, <1>2, <1>6 DEF fits

LEMMA CallersPinnedVerb ==
  ASSUME CallersInv, NEW c \in Callers, PinnedVerb(c)
  PROVE  CallersInv'
<1>1. Typed /\ Asking /\ Down
  BY DEF CallersInv
<1>2. cl[c].pc = "rest" /\ cl[c].conn \in Conns
  BY <1>1, PinnedVerbViews
<1>3. PICK verb \in Verbs \ {"ping", "begin"} :
        /\ Ask(c, cl[c].conn, verb)
        /\ [cl[c] EXCEPT !.pc = "asked", !.verb = verb, !.conn = cl[c].conn] \in Callings
  BY <1>1, PinnedVerbViews
<1>4. /\ cl' \in [Callers -> Callings] /\ todo' \in [Conns -> Seq(Requests)]
      /\ \A d \in Callers : d # c => cl'[d] = cl[d]
  <2>1. verb \in Verbs \ {"ping"}
    BY <1>3
  <2> QED  BY <1>1, <1>2, <1>3, <2>1, AskViews
<1>5. UNCHANGED <<up, mbox, pool, timers, st, session, pings, suspect>>
  BY DEF PinnedVerb, poolVars
<1>6. \A d \in Callers : Waits(d) => Waits(d)'
  BY <1>2, <1>4 DEF Waits
<1>7. Asking' /\ Down'
  BY <1>5, <1>6, AskingKept
<1> QED  BY <1>1, <1>4, <1>5, <1>7 DEF CallersInv, Typed, ConnsTyped

\* Requests of this caller that it no longer waits for.
LEMMA TimeoutViews ==
  ASSUME Typed, NEW c \in Callers, Timeout(c)
  PROVE  /\ cl[c].pc = "asked" /\ cl[c].conn \in Conns /\ Outcome(c, FALSE)
         /\ todo' \in [Conns -> Seq(Requests)] /\ suspect' = suspect \union {cl[c].conn}
         /\ \A v \in Conns : v # cl[c].conn => todo'[v] = todo[v]
         /\ \A v \in Conns : DOMAIN todo'[v] = DOMAIN todo[v]
         /\ \A v \in Conns : \A i \in DOMAIN todo[v] :
              /\ todo'[v][i].by = todo[v][i].by /\ todo'[v][i].verb = todo[v][i].verb
              /\ todo'[v][i].waits =
                   (todo[v][i].waits /\ ~(v = cl[c].conn /\ todo[v][i].by = c))
         /\ UNCHANGED <<up, pool, timers, st, session, pings>>
<1> DEFINE w == cl[c].conn
           old == todo[w]
           new == [i \in DOMAIN old |-> IF old[i].by = c THEN [old[i] EXCEPT !.waits = FALSE]
                                        ELSE old[i]]
<1>1. cl[c] \in Callings /\ cl[c].pc = "asked" /\ w \in Conns
  BY DEF Timeout, Typed, Callings
<1>2. todo \in [Conns -> Seq(Requests)]
  BY DEF Typed, ConnsTyped
<1>3. todo' = [todo EXCEPT ![w] = new]
  BY DEF Timeout
<1>4. Outcome(c, FALSE) /\ suspect' = suspect \union {w}
      /\ UNCHANGED <<up, pool, timers, st, session, pings>>
  BY DEF Timeout, poolVars
<1> HIDE DEF w
<1>5. old \in Seq(Requests) /\ DOMAIN old = 1..Len(old) /\ Len(old) \in Nat
  BY <1>1, <1>2
<1>6. \A i \in DOMAIN old : old[i] \in Requests
  BY <1>5
<1>7. \A i \in DOMAIN old :
        /\ new[i] \in Requests /\ new[i].by = old[i].by /\ new[i].verb = old[i].verb
        /\ new[i].waits = (old[i].waits /\ old[i].by # c)
  <2> SUFFICES ASSUME NEW i \in DOMAIN old
               PROVE  /\ new[i] \in Requests /\ new[i].by = old[i].by /\ new[i].verb = old[i].verb
                      /\ new[i].waits = (old[i].waits /\ old[i].by # c)
    OBVIOUS
  <2> DEFINE r == old[i]
             s == [r EXCEPT !.waits = FALSE]
  <2>1. r \in Requests /\ new[i] = IF r.by = c THEN s ELSE r
    BY <1>6
  <2>2. r.waits \in BOOLEAN
    BY <2>1 DEF Requests
  <2>3. s \in Requests /\ s.by = r.by /\ s.verb = r.verb /\ s.waits = FALSE
    BY <2>1 DEF Requests
  <2> HIDE DEF r, s, old, new
  <2>4. CASE r.by = c
    <3>1. new[i] = s
      BY <2>1, <2>4
    <3>2. s.waits = (r.waits /\ r.by # c)
      BY <2>2, <2>3, <2>4
    <3> QED  BY <2>3, <3>1, <3>2 DEF r
  <2>5. CASE r.by # c
    <3>1. new[i] = r
      BY <2>1, <2>5
    <3>2. r.waits = (r.waits /\ r.by # c)
      BY <2>2, <2>5
    <3> QED  BY <2>1, <3>1, <3>2 DEF r
  <2> QED  BY <2>4, <2>5
<1>8. DOMAIN new = DOMAIN old
  OBVIOUS
<1>9. new \in Seq(Requests)
  <2> HIDE DEF new
  <2>1. new = [i \in DOMAIN old |-> new[i]]
    BY DEF new
  <2>2. new \in [1..Len(old) -> Requests]
    BY <1>5, <1>7, <2>1
  <2> QED  BY <1>5, <2>2
<1> HIDE DEF new
<1>10. /\ todo' \in [Conns -> Seq(Requests)] /\ todo'[w] = new
       /\ \A v \in Conns : v # w => todo'[v] = todo[v]
  BY <1>1, <1>2, <1>3, <1>9
<1>11. \A v \in Conns : DOMAIN todo'[v] = DOMAIN todo[v]
  BY <1>8, <1>10
<1>12. \A v \in Conns : \A i \in DOMAIN todo[v] :
         /\ todo'[v][i].by = todo[v][i].by /\ todo'[v][i].verb = todo[v][i].verb
         /\ todo'[v][i].waits = (todo[v][i].waits /\ ~(v = w /\ todo[v][i].by = c))
  <2> SUFFICES ASSUME NEW v \in Conns, NEW i \in DOMAIN todo[v]
               PROVE  /\ todo'[v][i].by = todo[v][i].by /\ todo'[v][i].verb = todo[v][i].verb
                      /\ todo'[v][i].waits = (todo[v][i].waits /\ ~(v = w /\ todo[v][i].by = c))
    OBVIOUS
  <2>1. CASE v = w
    BY <1>7, <1>10, <2>1
  <2>2. CASE v # w
    <3>1. todo[v] \in Seq(Requests)
      BY <1>2
    <3>2. todo[v][i] \in Requests
      BY <3>1
    <3>3. todo[v][i].waits \in BOOLEAN
      BY <3>2 DEF Requests
    <3> QED  BY <1>10, <2>2, <3>3
  <2> QED  BY <2>1, <2>2
<1> QED  BY <1>1, <1>4, <1>10, <1>11, <1>12 DEF w

\* An outcome disturbs nobody who waits for the manager.
LEMMA CallersOutcome ==
  ASSUME CallersInv, NEW c \in Callers, cl[c].pc = "asked", NEW ok, Outcome(c, ok),
         UNCHANGED <<up, pool, timers>>
  PROVE  Asking' /\ Down' /\ mbox' \in Seq(Messages) /\ cl' \in [Callers -> Callings]
<1>1. Typed
  BY DEF CallersInv
<1>2. /\ cl' \in [Callers -> Callings]
      /\ \A d \in Callers : d # c => cl'[d] = cl[d]
      /\ \/ Posts(Msg("checkin", cl[c].conn, TRUE))
         \/ mbox' = mbox
  BY <1>1, OutcomeViews
<1>3. \A d \in Callers : Waits(d) => Waits(d)'
  BY <1>2 DEF Waits
<1>4. Msg("checkin", cl[c].conn, TRUE).kind \notin {"checkout", "waiter_timeout"}
  BY DEF Msg
<1>5. mbox' = mbox \/ \E m : Posts(m) /\ m.kind \notin {"checkout", "waiter_timeout"}
  BY <1>2, <1>4, Zenon
<1> QED  BY <1>2, <1>3, <1>5, AskingKept

LEMMA CallersTimeout ==
  ASSUME CallersInv, NEW c \in Callers, Timeout(c)
  PROVE  CallersInv'
<1>1. Typed
  BY DEF CallersInv
<1>2. /\ cl[c].pc = "asked" /\ Outcome(c, FALSE)
      /\ todo' \in [Conns -> Seq(Requests)] /\ suspect' \subseteq Conns
      /\ UNCHANGED <<up, pool, timers, st, session, pings>>
  <2>1. /\ cl[c].pc = "asked" /\ Outcome(c, FALSE) /\ cl[c].conn \in Conns
        /\ todo' \in [Conns -> Seq(Requests)] /\ suspect' = suspect \union {cl[c].conn}
        /\ UNCHANGED <<up, pool, timers, st, session, pings>>
    BY <1>1, TimeoutViews
  <2> QED  BY <1>1, <2>1 DEF Typed
<1>3. Asking' /\ Down' /\ mbox' \in Seq(Messages) /\ cl' \in [Callers -> Callings]
  BY <1>2, CallersOutcome
<1> QED  BY <1>1, <1>2, <1>3 DEF CallersInv, Typed, ConnsTyped

LEMMA CallersUnanswered ==
  ASSUME CallersInv, NEW c \in Callers, Unanswered(c)
  PROVE  CallersInv'
<1>1. Typed
  BY DEF CallersInv
<1>2. /\ cl[c].pc = "asked" /\ Outcome(c, FALSE)
      /\ UNCHANGED <<up, pool, timers, todo, suspect, st, session, pings>>
  BY DEF Unanswered, poolVars, connVars
<1>3. Asking' /\ Down' /\ mbox' \in Seq(Messages) /\ cl' \in [Callers -> Callings]
  BY <1>2, CallersOutcome
<1> QED  BY <1>1, <1>2, <1>3 DEF CallersInv, Typed, ConnsTyped

LEMMA CallersPoolGone ==
  ASSUME CallersInv, NEW c \in Callers, PoolGone(c)
  PROVE  CallersInv'
<1>1. Typed /\ Asking /\ Down /\ cl[c] \in Callings /\ cl \in [Callers -> Callings]
  BY DEF CallersInv, Typed
<1>2. /\ UNCHANGED <<up, mbox, pool, timers, st, todo, session, pings, suspect>>
      /\ cl[c].pc = "checkout" /\ ~up
  BY DEF PoolGone, poolVars, connVars
<1>3. cl' \in [Callers -> Callings] /\ \A d \in Callers : d # c => cl'[d] = cl[d]
  <2> DEFINE r == [cl[c] EXCEPT !.pc = "rest"]
  <2>1. r \in Callings
    BY <1>1, <1>2 DEF Callings, Pcs
  <2>2. cl' = [cl EXCEPT ![c] = r]
    BY DEF PoolGone
  <2> HIDE DEF r
  <2> QED  BY <1>1, <2>1, <2>2
<1>4. mbox = <<>> /\ pool.waiters = <<>>
  BY <1>1, <1>2 DEF Down
<1>5. Parked = {} /\ \A k, x : ~In(mbox, k, x)
  BY <1>4 DEF Parked, ToSet, In
<1>6. Asking'
  BY <1>1, <1>2, <1>5 DEF Asking, Parked
<1>7. Down'
  BY <1>1, <1>2 DEF Down
<1> QED  BY <1>1, <1>2, <1>3, <1>6, <1>7 DEF CallersInv, Typed, ConnsTyped

LEMMA CallersDie ==
  ASSUME CallersInv, NEW c \in Callers, Die(c)
  PROVE  CallersInv'
<1>1. Typed /\ Asking /\ Down /\ cl[c] \in Callings /\ cl \in [Callers -> Callings]
  BY DEF CallersInv, Typed
<1>2. UNCHANGED <<up, mbox, pool, timers, st, todo, session, pings, suspect>>
  BY DEF Die, poolVars, connVars
<1>3. /\ cl' \in [Callers -> Callings] /\ \A d \in Callers : d # c => cl'[d] = cl[d]
      /\ cl'[c].pc = "dead" /\ cl'[c].conn = cl[c].conn
  <2> DEFINE r == [cl[c] EXCEPT !.pc = "dead"]
  <2>1. r \in Callings /\ r.pc = "dead" /\ r.conn = cl[c].conn
    BY <1>1 DEF Callings, Pcs
  <2>2. cl' = [cl EXCEPT ![c] = r]
    BY DEF Die
  <2> HIDE DEF r
  <2> QED  BY <1>1, <2>1, <2>2
<1>4. \A d \in Callers : Waits(d) => Waits(d)'
  BY <1>3 DEF Waits
<1>5. Asking' /\ Down'
  BY <1>2, <1>4, AskingKept
<1> QED  BY <1>1, <1>2, <1>3, <1>5 DEF CallersInv, Typed, ConnsTyped

\* Steps that only post a message about something else.
LEMMA CallersPosts ==
  ASSUME CallersInv, NEW m, Posts(m), m.kind \notin {"checkout", "waiter_timeout"},
         UNCHANGED <<up, pool, timers, cl, suspect>>, ConnsTyped', pings' \subseteq pings
  PROVE  CallersInv'
<1>1. Typed
  BY DEF CallersInv
<1>2. \A d \in Callers : Waits(d) => Waits(d)'
  BY DEF Waits
<1>3. Asking' /\ Down' /\ mbox' \in Seq(Messages)
  BY <1>2, AskingKept
<1> QED  BY <1>1, <1>3 DEF CallersInv, Typed

LEMMA CallersCloseHandle ==
  ASSUME CallersInv, NEW c \in Callers, CloseHandle(c)
  PROVE  CallersInv'
<1> DEFINE m == Msg("close", None, TRUE)
<1>1. m \in Messages /\ m.kind = "close"
  BY DEF Msg, Messages, Kinds
<1>2. Posts(m) /\ UNCHANGED <<up, pool, timers, st, todo, session, pings, cl, suspect>>
  BY <1>1 DEF Posts, CloseHandle, Tell, poolVars, connVars
<1>3. ConnsTyped' /\ pings' \subseteq pings
  BY <1>2 DEF CallersInv, Typed, ConnsTyped
<1> HIDE DEF m
<1> QED  BY <1>1, <1>2, <1>3, CallersPosts

LEMMA CallersTick ==
  ASSUME CallersInv, Tick
  PROVE  CallersInv'
<1> DEFINE m == Msg("maintenance", None, TRUE)
<1>1. m \in Messages /\ m.kind = "maintenance"
  BY DEF Msg, Messages, Kinds
<1>2. Posts(m) /\ UNCHANGED <<up, pool, timers, st, todo, session, pings, cl, suspect>>
  BY <1>1 DEF Posts, Tick, Tell, poolVars, connVars
<1>3. ConnsTyped' /\ pings' \subseteq pings
  BY <1>2 DEF CallersInv, Typed, ConnsTyped
<1> HIDE DEF m
<1> QED  BY <1>1, <1>2, <1>3, CallersPosts

LEMMA CallersPingTimeout ==
  ASSUME CallersInv, NEW w \in Conns, PingTimeout(w)
  PROVE  CallersInv'
<1> DEFINE m == Msg("ping_done", w, FALSE)
<1>1. m \in Messages /\ m.kind = "ping_done"
  BY DEF Msg, Messages, Kinds
<1>2. Posts(m) /\ UNCHANGED <<up, pool, timers, st, todo, session, cl, suspect>>
      /\ pings' = pings \ {w}
  BY <1>1 DEF Posts, PingTimeout, Tell, poolVars, connVars
<1>3. ConnsTyped' /\ pings' \subseteq pings
  BY <1>2 DEF CallersInv, Typed, ConnsTyped
<1> HIDE DEF m
<1> QED  BY <1>1, <1>2, <1>3, CallersPosts

LEMMA CallersTimerFires ==
  ASSUME CallersInv, NEW c \in Callers, TimerFires(c)
  PROVE  CallersInv'
<1> DEFINE m == Msg("waiter_timeout", c, TRUE)
<1>1. Typed /\ Asking /\ Down /\ c \in Parked /\ c \in timers
  BY DEF CallersInv, Asking, TimerFires
<1>2. m \in Messages /\ m.kind = "waiter_timeout" /\ m.who = c
  BY DEF Msg, Messages, Kinds
<1>3. Posts(m) /\ UNCHANGED <<up, pool, st, todo, session, pings, cl, suspect>>
      /\ timers' = timers \ {c}
  BY <1>2 DEF Posts, TimerFires, Tell, connVars
<1> HIDE DEF m
<1>4. /\ mbox' \in Seq(Messages) /\ (~up => mbox' = mbox)
      /\ \A k, x : In(mbox', k, x) => In(mbox, k, x) \/ (m.kind = k /\ m.who = x)
      /\ \A k, x : Once(mbox, k, x) /\ (m.kind = k /\ m.who = x => ~In(mbox, k, x))
                     => Once(mbox', k, x)
      /\ \A k, l, x : Before(mbox, k, l, x) /\ k # l /\ (m.kind = k /\ m.who = x => ~In(mbox, l, x))
                     => Before(mbox', k, l, x)
  BY <1>1, <1>3, PostsViews
<1>5. Typed'
  BY <1>1, <1>3, <1>4 DEF Typed, ConnsTyped
<1>6. Down'
  BY <1>1, <1>3, <1>4 DEF Down
<1>7. Unique(pool.waiters)' /\ (timers \subseteq Parked)'
  BY <1>1, <1>3 DEF Asking, Parked
<1>8. ASSUME NEW d \in Callers
      PROVE  /\ In(mbox', "checkout", d) => Waits(d)' /\ d \notin Parked'
             /\ d \in Parked' => Waits(d)'
             /\ Once(mbox', "checkout", d)
             /\ d \in timers' => ~In(mbox', "waiter_timeout", d)
             /\ Before(mbox', "waiter_timeout", "checkout", d)
  <2>1. Parked' = Parked /\ (Waits(d) => Waits(d)')
    BY <1>3 DEF Parked, Waits
  <2>2. ~In(mbox, "checkout", c)
    BY <1>1 DEF Asking
  <2> QED  BY <1>1, <1>2, <1>3, <1>4, <2>1, <2>2 DEF Asking
<1>9. Asking'
  BY <1>7, <1>8 DEF Asking
<1> QED  BY <1>5, <1>6, <1>9 DEF CallersInv

LEMMA TakesViews ==
  ASSUME Typed, NEW w \in Conns, Takes(w)
  PROVE  /\ st[w] = "up" /\ Head(todo[w]) \in Requests /\ todo[w] \in Seq(Requests)
         /\ todo[w] # <<>>
         /\ todo' \in [Conns -> Seq(Requests)] /\ todo'[w] = Tail(todo[w])
         /\ \A v \in Conns : v # w => todo'[v] = todo[v]
         /\ UNCHANGED <<up, pool, timers, suspect>>
<1>1. todo \in [Conns -> Seq(Requests)] /\ todo[w] \in Seq(Requests)
  BY DEF Typed, ConnsTyped
<1>2. st[w] = "up" /\ todo[w] # <<>> /\ UNCHANGED <<up, pool, timers, suspect>>
  BY DEF Takes, poolVars
<1> DEFINE t == Tail(todo[w])
<1>3. t \in Seq(Requests) /\ Head(todo[w]) \in Requests
  BY <1>1, <1>2
<1>4. todo' = [todo EXCEPT ![w] = t]
  BY DEF Takes
<1>5. t = Tail(todo[w])
  OBVIOUS
<1> HIDE DEF t
<1>6. todo' \in [Conns -> Seq(Requests)] /\ todo'[w] = t
      /\ \A v \in Conns : v # w => todo'[v] = todo[v]
  BY <1>1, <1>3, <1>4
<1> QED  BY <1>1, <1>2, <1>3, <1>5, <1>6

\* An answer reaches the helper of a health check, a caller that still waits for it, or
\* nobody.
LEMMA AnswerCases ==
  ASSUME Typed, NEW w \in Conns, NEW r \in Requests, NEW ok \in BOOLEAN, Answer(w, r, ok)
  PROVE  \/ /\ w \in pings /\ r.by = Ping /\ Posts(Msg("ping_done", w, ok))
            /\ pings' = pings \ {w} /\ cl' = cl
         \/ UNCHANGED <<mbox, pings, cl>> /\ (r.by \in Callers => ~(r.waits /\ cl[r.by].pc = "asked"))
         \/ /\ r.by \in Callers /\ r.waits /\ cl[r.by].pc = "asked"
            /\ Outcome(r.by, ok) /\ pings' = pings
<1>1. Ping \notin Callers
  BY PoolAssumption
<1>2. r.by \in Callers \union {Ping}
  BY DEF Requests
<1>3. Msg("ping_done", w, ok) \in Messages
  BY DEF Msg, Messages, Kinds
<1>4. CASE r.by = Ping
  <2>1. CASE w \in pings
    BY <1>3, <1>4, <2>1 DEF Answer, Posts, Tell
  <2>2. CASE w \notin pings
    BY <1>1, <1>4, <2>2 DEF Answer
  <2> QED  BY <2>1, <2>2
<1>5. CASE r.by # Ping
  <2>1. CASE r.waits /\ cl[r.by].pc = "asked"
    BY <1>2, <1>5, <2>1 DEF Answer
  <2>2. CASE ~(r.waits /\ cl[r.by].pc = "asked")
    BY <1>5, <2>2 DEF Answer
  <2> QED  BY <2>1, <2>2
<1> QED  BY <1>4, <1>5

LEMMA CallersAnswer ==
  ASSUME CallersInv, NEW w \in Conns, NEW r \in Requests, NEW ok \in BOOLEAN, Answer(w, r, ok),
         UNCHANGED <<up, pool, timers, suspect>>, ConnsTyped'
  PROVE  CallersInv'
<1>1. Typed
  BY DEF CallersInv
<1>2. ASSUME Posts(Msg("ping_done", w, ok)), pings' = pings \ {w}, cl' = cl
      PROVE  CallersInv'
  <2> DEFINE m == Msg("ping_done", w, ok)
  <2>1. m.kind = "ping_done"
    BY DEF Msg
  <2> HIDE DEF m
  <2>2. Posts(m)
    BY <1>2 DEF m
  <2>3. pings' \subseteq pings
    BY <1>2
  <2> QED  BY <1>2, <2>1, <2>2, <2>3, CallersPosts
<1>3. CASE UNCHANGED <<mbox, pings, cl>>
  <2>1. \A d \in Callers : Waits(d) => Waits(d)'
    BY <1>3 DEF Waits
  <2>2. Asking' /\ Down' /\ mbox' \in Seq(Messages)
    BY <1>3, <2>1, AskingKept
  <2> QED  BY <1>1, <1>3, <2>2 DEF CallersInv, Typed
<1>4. CASE r.by \in Callers /\ cl[r.by].pc = "asked" /\ Outcome(r.by, ok) /\ pings' = pings
  <2>1. Asking' /\ Down' /\ mbox' \in Seq(Messages) /\ cl' \in [Callers -> Callings]
    BY <1>4, CallersOutcome
  <2> QED  BY <1>1, <1>4, <2>1 DEF CallersInv, Typed
<1> QED  BY <1>1, <1>2, <1>3, <1>4, AnswerCases

\* What the server makes of a session.
Sessions == [owner : Callers \union {None}, failed : BOOLEAN]

LEMMA ServeViews ==
  ASSUME Typed, NEW w \in Conns, Serve(w)
  PROVE  /\ Takes(w) /\ st' = st
         /\ session' \in [Conns -> Sessions]
         /\ \A v \in Conns : v # w => session'[v] = session[v]
         /\ \E ok \in BOOLEAN :
              /\ Answer(w, Head(todo[w]), ok)
              /\ ok => session'[w] = After(session[w], Head(todo[w]))
              /\ ~ok => /\ session'[w] = Aborted(session[w], Head(todo[w]))
                        /\ Head(todo[w]).verb # "rollback"
<1> DEFINE r == Head(todo[w])
<1>1. Takes(w) /\ st' = st
  BY DEF Serve
<1>2. r \in Requests
  BY <1>1, TakesViews
<1>3. session \in [Conns -> Sessions] /\ session[w] \in Sessions
  BY DEF Typed, ConnsTyped, Sessions
<1>4. PICK ok \in BOOLEAN :
        /\ Answer(w, r, ok)
        /\ ok => session' = [session EXCEPT ![w] = After(@, r)]
        /\ ~ok => session' = [session EXCEPT ![w] = Aborted(@, r)] /\ r.verb # "rollback"
  BY Zenon DEF Serve
<1> HIDE DEF r
<1>5. After(session[w], r) \in Sessions /\ Aborted(session[w], r) \in Sessions
  <2>1. r.verb = "begin" => r.by \in Callers
    BY <1>2 DEF Requests
  <2>2. After(session[w], r) \in Sessions
    BY <1>3, <2>1 DEF After, Sessions, Closed
  <2>3. Aborted(session[w], r) \in Sessions
    <3>1. (session[w].owner # None) \in BOOLEAN
      OBVIOUS
    <3>2. [session[w] EXCEPT !.failed = session[w].owner # None] \in Sessions
      BY <1>3, <3>1 DEF Sessions
    <3>3. Closed \in Sessions
      BY DEF Closed, Sessions
    <3> QED  BY <3>2, <3>3, Zenon DEF Aborted
  <2> QED  BY <2>2, <2>3
<1>6. /\ session' \in [Conns -> Sessions]
      /\ \A v \in Conns : v # w => session'[v] = session[v]
      /\ ok => session'[w] = After(session[w], r)
      /\ ~ok => session'[w] = Aborted(session[w], r) /\ r.verb # "rollback"
  <2> DEFINE a == After(session[w], r)
             b == Aborted(session[w], r)
  <2>1. (ok => session' = [session EXCEPT ![w] = a]) /\ (~ok => session' = [session EXCEPT ![w] = b])
    BY <1>4
  <2>2. a \in Sessions /\ b \in Sessions
    BY <1>5
  <2> HIDE DEF a, b
  <2>3. CASE ok
    <3>1. /\ session' \in [Conns -> Sessions] /\ session'[w] = a
          /\ \A v \in Conns : v # w => session'[v] = session[v]
      BY <1>3, <2>1, <2>2, <2>3
    <3> QED  BY <2>3, <3>1 DEF a
  <2>4. CASE ~ok
    <3>1. /\ session' \in [Conns -> Sessions] /\ session'[w] = b
          /\ \A v \in Conns : v # w => session'[v] = session[v]
      BY <1>3, <2>1, <2>2, <2>4
    <3> QED  BY <1>4, <2>4, <3>1 DEF b
  <2> QED  BY <2>3, <2>4
<1> QED  BY <1>1, <1>4, <1>6 DEF r

LEMMA CallersServe ==
  ASSUME CallersInv, NEW w \in Conns, Serve(w)
  PROVE  CallersInv'
<1>1. Typed
  BY DEF CallersInv
<1>2. Takes(w) /\ st' = st /\ session' \in [Conns -> Sessions]
      /\ \E ok \in BOOLEAN : Answer(w, Head(todo[w]), ok)
  BY <1>1, ServeViews
<1>3. /\ Head(todo[w]) \in Requests /\ todo' \in [Conns -> Seq(Requests)]
      /\ UNCHANGED <<up, pool, timers, suspect>>
  BY <1>1, <1>2, TakesViews
<1>4. ConnsTyped'
  BY <1>1, <1>2, <1>3 DEF Typed, ConnsTyped, Sessions
<1> QED  BY <1>2, <1>3, <1>4, CallersAnswer

LEMMA BreaksViews ==
  ASSUME Typed, NEW w \in Conns, Breaks(w)
  PROVE  /\ Takes(w) /\ Answer(w, Head(todo[w]), FALSE)
         /\ session' \in [Conns -> Sessions] /\ session'[w] = Closed
         /\ st' \in [Conns -> {"none", "up", "closing", "dead"}] /\ st'[w] = "closing"
         /\ \A v \in Conns : v # w => session'[v] = session[v] /\ st'[v] = st[v]
<1>1. Closed \in Sessions
  BY DEF Closed, Sessions
<1>2. session \in [Conns -> Sessions] /\ st \in [Conns -> {"none", "up", "closing", "dead"}]
  BY DEF Typed, ConnsTyped, Sessions
<1>3. /\ Takes(w) /\ Answer(w, Head(todo[w]), FALSE)
      /\ session' = [session EXCEPT ![w] = Closed] /\ st' = [st EXCEPT ![w] = "closing"]
  BY DEF Breaks
<1> QED  BY <1>1, <1>2, <1>3

LEMMA CallersBreaks ==
  ASSUME CallersInv, NEW w \in Conns, Breaks(w)
  PROVE  CallersInv'
<1>1. Typed
  BY DEF CallersInv
<1>2. Takes(w) /\ session' \in [Conns -> Sessions] /\ Answer(w, Head(todo[w]), FALSE)
      /\ st' \in [Conns -> {"none", "up", "closing", "dead"}]
  BY <1>1, BreaksViews
<1>3. /\ Head(todo[w]) \in Requests /\ todo' \in [Conns -> Seq(Requests)]
      /\ UNCHANGED <<up, pool, timers, suspect>>
  BY <1>1, <1>2, TakesViews
<1>4. ConnsTyped'
  BY <1>2, <1>3 DEF ConnsTyped, Sessions
<1> QED  BY <1>2, <1>3, <1>4, CallersAnswer

LEMMA ExitsViews ==
  ASSUME Typed, NEW w \in Conns, Exits(w)
  PROVE  /\ st[w] \in {"up", "closing"} /\ st'[w] = "dead" /\ todo'[w] = <<>> /\ session'[w] = Closed
         /\ ConnsTyped'
         /\ \A v \in Conns : v # w =>
              session'[v] = session[v] /\ st'[v] = st[v] /\ todo'[v] = todo[v]
         /\ mbox' = mbox \/ Posts(Msg("DOWN", w, TRUE))
         /\ w \in pool.mons => Posts(Msg("DOWN", w, TRUE))
         /\ UNCHANGED <<up, pool, timers, pings, cl, suspect>>
<1>1. Closed \in Sessions /\ <<>> \in Seq(Requests)
  BY DEF Closed, Sessions
<1>2. /\ session \in [Conns -> Sessions] /\ st \in [Conns -> {"none", "up", "closing", "dead"}]
      /\ todo \in [Conns -> Seq(Requests)]
  BY DEF Typed, ConnsTyped, Sessions
<1>3. /\ session' = [session EXCEPT ![w] = Closed] /\ st' = [st EXCEPT ![w] = "dead"]
      /\ todo' = [todo EXCEPT ![w] = <<>>]
      /\ UNCHANGED <<up, pool, timers, pings, cl, suspect>>
  BY DEF Exits, Gone, poolVars
<1>4. st[w] \in {"up", "closing"}
  BY DEF Exits
<1>5. Msg("DOWN", w, TRUE) \in Messages
  BY DEF Msg, Messages, Kinds
<1>6. IF w \in pool.mons THEN Posts(Msg("DOWN", w, TRUE)) ELSE mbox' = mbox
  BY <1>5 DEF Exits, Tell, Posts
<1>7. /\ session' \in [Conns -> Sessions] /\ session'[w] = Closed
      /\ \A v \in Conns : v # w => session'[v] = session[v]
  BY <1>1, <1>2, <1>3
<1>8. /\ st' \in [Conns -> {"none", "up", "closing", "dead"}] /\ st'[w] = "dead"
      /\ \A v \in Conns : v # w => st'[v] = st[v]
  BY <1>2, <1>3
<1>9. /\ todo' \in [Conns -> Seq(Requests)] /\ todo'[w] = <<>>
      /\ \A v \in Conns : v # w => todo'[v] = todo[v]
  BY <1>1, <1>2, <1>3
<1>10. ConnsTyped'
  BY <1>7, <1>8, <1>9 DEF ConnsTyped, Sessions
<1> QED  BY <1>3, <1>4, <1>6, <1>7, <1>8, <1>9, <1>10

LEMMA CallersExits ==
  ASSUME CallersInv, NEW w \in Conns, Exits(w)
  PROVE  CallersInv'
<1>1. Typed
  BY DEF CallersInv
<1>2. /\ ConnsTyped' /\ UNCHANGED <<up, pool, timers, pings, cl, suspect>>
      /\ mbox' = mbox \/ Posts(Msg("DOWN", w, TRUE))
  BY <1>1, ExitsViews
<1>3. CASE mbox' = mbox
  <2>1. \A d \in Callers : Waits(d) => Waits(d)'
    BY <1>2 DEF Waits
  <2>2. Asking' /\ Down' /\ mbox' \in Seq(Messages)
    BY <1>2, <1>3, <2>1, AskingKept
  <2> QED  BY <1>1, <1>2, <2>2 DEF CallersInv, Typed
<1>4. CASE Posts(Msg("DOWN", w, TRUE))
  <2> DEFINE m == Msg("DOWN", w, TRUE)
  <2>1. m.kind = "DOWN" /\ Posts(m)
    BY <1>4 DEF Msg
  <2> HIDE DEF m
  <2>2. pings' \subseteq pings
    BY <1>2
  <2> QED  BY <1>2, <2>1, <2>2, CallersPosts
<1> QED  BY <1>2, <1>3, <1>4

-----------------------------------------------------------------------------
(* The operators of the manager that end connections, open them and lend them. *)

LEMMA RetiredViews ==
  ASSUME NEW p \in States, NEW ws
  PROVE  /\ Retired(p, ws) \in States
         /\ Retired(p, ws).busy = p.busy \ ws /\ Retired(p, ws).mons = p.mons \ ws
         /\ Retired(p, ws).checking = p.checking \ ws /\ Retired(p, ws).waiters = p.waiters
         /\ ToSet(Retired(p, ws).idle) = ToSet(p.idle) \ ws
         /\ Unique(p.idle) => Unique(Retired(p, ws).idle)
         /\ p.idle = <<>> => Retired(p, ws).idle = <<>>
<1> DEFINE idle == Without(p.idle, ws)
<1>1. p.idle \in Seq(Conns)
  BY DEF States
<1>2. /\ idle \in Seq(Conns) /\ ToSet(idle) = ToSet(p.idle) \ ws
      /\ Unique(p.idle) => Unique(idle)
  BY <1>1, WithoutList
<1>3. Retired(p, ws) = [p EXCEPT !.idle = idle, !.busy = @ \ ws, !.mons = @ \ ws,
                                 !.checking = @ \ ws]
  BY Zenon DEF Retired
<1> HIDE DEF idle
<1>4. p.idle = <<>> => idle = <<>>
  <2> SUFFICES ASSUME p.idle = <<>> PROVE idle = <<>>
    OBVIOUS
  <2>1. ToSet(p.idle) = {}
    BY DEF ToSet
  <2>2. ToSet(idle) = {}
    BY <1>2, <2>1
  <2>3. Len(idle) \in Nat /\ DOMAIN idle = 1..Len(idle)
    BY <1>2
  <2>4. ~(1 \in DOMAIN idle)
    BY <2>2 DEF ToSet
  <2>5. Len(idle) = 0
    BY <2>3, <2>4
  <2> QED  BY <1>2, <2>5
<1>5. /\ Retired(p, ws) \in States /\ Retired(p, ws).idle = idle
      /\ Retired(p, ws).busy = p.busy \ ws /\ Retired(p, ws).mons = p.mons \ ws
      /\ Retired(p, ws).checking = p.checking \ ws /\ Retired(p, ws).waiters = p.waiters
  BY <1>2, <1>3 DEF States
<1> QED  BY <1>2, <1>4, <1>5

\* exit(Worker): the process, its mailbox and its session are gone.
LEMMA KilledTyped ==
  ASSUME Typed, NEW ws
  PROVE  /\ Killed(ws) \in [Conns -> {"none", "up", "closing", "dead"}]
         /\ \A v \in Conns :
              Killed(ws)[v] = IF v \in ws \intersect pool.mons THEN "dead" ELSE st[v]
BY DEF Killed, Typed, ConnsTyped

LEMMA EmptiedTyped ==
  ASSUME Typed, NEW ws
  PROVE  /\ Emptied(ws) \in [Conns -> Seq(Requests)]
         /\ \A v \in Conns :
              Emptied(ws)[v] = IF v \in ws \intersect pool.mons THEN <<>> ELSE todo[v]
<1>1. <<>> \in Seq(Requests) /\ todo \in [Conns -> Seq(Requests)]
  BY DEF Typed, ConnsTyped
<1> QED  BY <1>1 DEF Emptied

LEMMA EndedTyped ==
  ASSUME Typed, NEW ws, Ended(ws)
  PROVE  /\ session' \in [Conns -> Sessions]
         /\ \A v \in Conns :
              session'[v] = IF v \in ws \intersect pool.mons THEN Closed ELSE session[v]
<1>1. Closed \in Sessions /\ session \in [Conns -> Sessions]
  BY DEF Typed, ConnsTyped, Closed, Sessions
<1> QED  BY <1>1 DEF Ended

\* open_worker opens a connection that did not exist and lends it, or refuses.
LEMMA OpenForViews ==
  ASSUME NEW p \in States, NEW ps \in [Conns -> {"none", "up", "closing", "dead"}], NEW c,
         OpenFor(p, ps, c)
  PROVE  \/ /\ pool' = p /\ st' = ps /\ Refused({c})
         \/ \E w \in Conns :
              /\ st[w] = "none" /\ Lend(c, w)
              /\ st' \in [Conns -> {"none", "up", "closing", "dead"}] /\ st'[w] = "up"
              /\ \A v \in Conns : v # w => st'[v] = ps[v]
              /\ pool' \in States /\ pool'.idle = p.idle /\ pool'.waiters = p.waiters
              /\ pool'.checking = p.checking
              /\ pool'.busy = p.busy \union {w} /\ pool'.mons = p.mons \union {w}
<1> DEFINE new == {w \in Conns : st[w] = "none"}
<1>1. ASSUME new # {}, st' = [ps EXCEPT ![Min(new)] = "up"],
             pool' = [p EXCEPT !.busy = @ \union {Min(new)}, !.mons = @ \union {Min(new)}],
             Lend(c, Min(new))
      PROVE  \E w \in Conns :
               /\ st[w] = "none" /\ Lend(c, w)
               /\ st' \in [Conns -> {"none", "up", "closing", "dead"}] /\ st'[w] = "up"
               /\ \A v \in Conns : v # w => st'[v] = ps[v]
               /\ pool' \in States /\ pool'.idle = p.idle /\ pool'.waiters = p.waiters
               /\ pool'.checking = p.checking
               /\ pool'.busy = p.busy \union {w} /\ pool'.mons = p.mons \union {w}
  <2> DEFINE w == Min(new)
  <2>1. w \in new
    <3>1. new \in SUBSET Nat
      BY PoolAssumption DEF Conns
    <3> HIDE DEF new
    <3>2. \E x \in new : \A y \in new : x <= y
      BY <1>1, <3>1, LeastOf
    <3> QED  BY <3>2 DEF Min
  <2>2. w \in Conns /\ st[w] = "none"
    BY <2>1
  <2>3. /\ st' = [ps EXCEPT ![w] = "up"] /\ Lend(c, w)
        /\ pool' = [p EXCEPT !.busy = @ \union {w}, !.mons = @ \union {w}]
    BY <1>1
  <2> HIDE DEF w
  <2>4. /\ st' \in [Conns -> {"none", "up", "closing", "dead"}] /\ st'[w] = "up"
        /\ \A v \in Conns : v # w => st'[v] = ps[v]
    BY <2>2, <2>3
  <2>5. /\ pool' \in States /\ pool'.idle = p.idle /\ pool'.waiters = p.waiters
        /\ pool'.checking = p.checking
        /\ pool'.busy = p.busy \union {w} /\ pool'.mons = p.mons \union {w}
    BY <2>2, <2>3 DEF States
  <2> QED  BY <2>2, <2>3, <2>4, <2>5
<1> QED  BY <1>1, Zenon DEF OpenFor

\* serve_waiter answers the oldest waiter, or nobody.
LEMMA ServeWaiterViews ==
  ASSUME NEW p \in States, NEW ps \in [Conns -> {"none", "up", "closing", "dead"}],
         ServeWaiter(p, ps)
  PROVE  \/ /\ p.waiters = <<>> \/ ~HasRoom(p)
            /\ pool' = p /\ st' = ps /\ UNCHANGED <<timers, cl>>
         \/ /\ p.waiters # <<>> /\ HasRoom(p)
            /\ timers' = timers \ {Head(p.waiters)}
            /\ \E q \in States :
                 /\ q.idle = p.idle /\ q.busy = p.busy /\ q.mons = p.mons
                 /\ q.checking = p.checking /\ q.waiters = Tail(p.waiters)
                 /\ OpenFor(q, ps, Head(p.waiters))
<1>1. CASE p.waiters = <<>> \/ ~HasRoom(p)
  BY <1>1 DEF ServeWaiter
<1>2. CASE ~(p.waiters = <<>> \/ ~HasRoom(p))
  <2> DEFINE served == Tail(p.waiters)
             q == [p EXCEPT !.waiters = served]
  <2>1. served \in Seq(Callers)
    BY <1>2 DEF States
  <2>2. OpenFor(q, ps, Head(p.waiters)) /\ timers' = timers \ {Head(p.waiters)}
    BY <1>2 DEF ServeWaiter
  <2>3. served = Tail(p.waiters)
    OBVIOUS
  <2> HIDE DEF served
  <2>4. /\ q \in States /\ q.idle = p.idle /\ q.busy = p.busy /\ q.mons = p.mons
        /\ q.checking = p.checking /\ q.waiters = served
    BY <2>1 DEF States
  <2> HIDE DEF q
  <2> QED  BY <1>2, <2>2, <2>3, <2>4
<1> QED  BY <1>1, <1>2

LEMMA HandOverViews ==
  ASSUME Typed, pool.waiters # <<>>, NEW w \in Conns, HandOver(w)
  PROVE  /\ timers' = timers \ {Head(pool.waiters)} /\ Lend(Head(pool.waiters), w)
         /\ pool' \in States /\ pool'.idle = pool.idle /\ pool'.mons = pool.mons
         /\ pool'.busy = pool.busy \union {w} /\ pool'.checking = pool.checking \ {w}
         /\ pool'.waiters = Tail(pool.waiters)
<1> DEFINE served == Tail(pool.waiters)
<1>1. pool \in States
  BY DEF Typed
<1>2. served \in Seq(Callers)
  BY <1>1 DEF States
<1>3. /\ timers' = timers \ {Head(pool.waiters)} /\ Lend(Head(pool.waiters), w)
      /\ pool' = [pool EXCEPT !.waiters = served, !.busy = @ \union {w}, !.checking = @ \ {w}]
  BY DEF HandOver
<1>4. served = Tail(pool.waiters)
  OBVIOUS
<1> HIDE DEF served
<1> QED  BY <1>1, <1>2, <1>3, <1>4 DEF States

-----------------------------------------------------------------------------
(* CallersInv: the handlers of the manager. *)

\* The manager answers the callers in S, if any, and leaves the others their place.
LEMMA AskingAnswered ==
  ASSUME CallersInv, NEW kind, Receives(kind), NEW ws, Taken \/ Flush(ws),
         NEW S \in SUBSET Callers, Unique(pool'.waiters), up' = up,
         ToSet(pool'.waiters) \subseteq Parked \ S,
         timers' \subseteq timers, timers' \subseteq ToSet(pool'.waiters),
         \A d \in Callers : d \notin S => cl'[d] = cl[d],
         \A d \in S : ~In(mbox', "checkout", d)
  PROVE  Asking' /\ Down' /\ mbox' \in Seq(Messages)
<1>1. Typed /\ Asking
  BY DEF CallersInv
<1>2. /\ mbox' \in Seq(Messages) /\ up
      /\ \A k, x : In(mbox', k, x) => In(mbox, k, x)
      /\ \A k, x : Once(mbox, k, x) => Once(mbox', k, x)
      /\ \A k, l, x : Before(mbox, k, l, x) => Before(mbox', k, l, x)
  BY <1>1, TakenViews
<1>3. ASSUME NEW d \in Callers
      PROVE  /\ In(mbox', "checkout", d) => Waits(d)' /\ d \notin Parked'
             /\ d \in Parked' => Waits(d)'
             /\ Once(mbox', "checkout", d)
             /\ d \in timers' => ~In(mbox', "waiter_timeout", d)
             /\ Before(mbox', "waiter_timeout", "checkout", d)
  <2>1. Parked' \subseteq Parked \ S
    BY DEF Parked
  <2>2. d \notin S => (Waits(d) => Waits(d)')
    BY DEF Waits
  <2> QED  BY <1>1, <1>2, <2>1, <2>2 DEF Asking
<1>4. (timers \subseteq Parked)'
  BY DEF Parked
<1> QED  BY <1>2, <1>3, <1>4 DEF Asking, Down

\* Nobody is answered, and nothing is done to a connection.
LEMMA AskingSame ==
  ASSUME CallersInv, NEW kind, Receives(kind), NEW ws, Taken \/ Flush(ws), up' = up,
         pool'.waiters = pool.waiters, timers' = timers, cl' = cl
  PROVE  Asking' /\ Down' /\ mbox' \in Seq(Messages)
<1>1. Unique(pool'.waiters) /\ ToSet(pool'.waiters) \subseteq Parked \ {}
      /\ timers' \subseteq ToSet(pool'.waiters)
  BY DEF CallersInv, Asking, Parked
<1>2. /\ {} \in SUBSET Callers /\ timers' \subseteq timers
      /\ \A d \in Callers : d \notin {} => cl'[d] = cl[d]
      /\ \A d \in {} : ~In(mbox', "checkout", d)
  OBVIOUS
<1> HIDE DEF Taken
<1> QED  BY <1>1, <1>2, AskingAnswered

\* The oldest waiter is answered.
LEMMA AskingServed ==
  ASSUME CallersInv, NEW kind, Receives(kind), NEW ws, Taken \/ Flush(ws), up' = up,
         pool.waiters # <<>>, pool'.waiters = Tail(pool.waiters),
         timers' = timers \ {Head(pool.waiters)},
         \A d \in Callers : d # Head(pool.waiters) => cl'[d] = cl[d]
  PROVE  Asking' /\ Down' /\ mbox' \in Seq(Messages)
<1> DEFINE c == Head(pool.waiters)
<1>1. pool.waiters \in Seq(Callers) /\ Unique(pool.waiters) /\ timers \subseteq Parked
  BY DEF CallersInv, Typed, States, Asking
<1>2. /\ Tail(pool.waiters) \in Seq(Callers) /\ c \in Callers
      /\ Parked = ToSet(Tail(pool.waiters)) \union {c}
      /\ Unique(Tail(pool.waiters)) /\ c \notin ToSet(Tail(pool.waiters))
  BY <1>1, TailList DEF Parked
<1>3. /\ mbox' \in Seq(Messages)
      /\ \A k, x : In(mbox', k, x) => In(mbox, k, x)
  BY TakenViews DEF CallersInv
<1>4. ~In(mbox', "checkout", c)
  BY <1>2, <1>3 DEF CallersInv, Asking
<1> HIDE DEF c
<1>5. /\ {c} \in SUBSET Callers /\ timers' = timers \ {c}
      /\ ToSet(pool'.waiters) \subseteq Parked \ {c}
      /\ timers' \subseteq ToSet(pool'.waiters) /\ timers' \subseteq timers
      /\ \A d \in Callers : d \notin {c} => cl'[d] = cl[d]
      /\ \A d \in {c} : ~In(mbox', "checkout", d)
  BY <1>1, <1>2, <1>4 DEF c
<1>6. Unique(pool'.waiters)
  BY <1>2
<1> DEFINE S == {c}
<1>7. /\ S \in SUBSET Callers /\ ToSet(pool'.waiters) \subseteq Parked \ S
      /\ \A d \in Callers : d \notin S => cl'[d] = cl[d]
      /\ \A d \in S : ~In(mbox', "checkout", d)
  BY <1>5
<1> HIDE DEF S
<1> QED  BY <1>5, <1>6, <1>7, AskingAnswered

\* What the oldest waiter is before it is served.
LEMMA OldestWaits ==
  ASSUME CallersInv, pool.waiters # <<>>
  PROVE  Head(pool.waiters) \in Callers /\ Waits(Head(pool.waiters))
<1>1. pool.waiters \in Seq(Callers)
  BY DEF CallersInv, Typed, States
<1>2. Head(pool.waiters) \in Callers /\ Head(pool.waiters) \in Parked
  BY <1>1, TailList DEF Parked
<1> QED  BY <1>2 DEF CallersInv, Asking

\* OpenFor answers its caller, one way or the other.
LEMMA OpenForAnswers ==
  ASSUME Typed, NEW p \in States, NEW ps \in [Conns -> {"none", "up", "closing", "dead"}],
         NEW c \in Callers, Waits(c), OpenFor(p, ps, c)
  PROVE  /\ pool' \in States /\ pool'.waiters = p.waiters
         /\ st' \in [Conns -> {"none", "up", "closing", "dead"}]
         /\ cl' \in [Callers -> Callings]
         /\ \A d \in Callers : d # c => cl'[d] = cl[d]
<1>1. CASE pool' = p /\ st' = ps /\ Refused({c})
  <2>1. {c} \in SUBSET Callers /\ \A d \in {c} : Waits(d)
    OBVIOUS
  <2>2. /\ cl' \in [Callers -> Callings]
        /\ \A d \in Callers : d \notin {c} => cl'[d] = cl[d]
    BY <1>1, <2>1, RefusedViews
  <2> QED  BY <1>1, <2>2
<1>2. ASSUME NEW w \in Conns, Lend(c, w), pool' \in States,
             pool'.waiters = p.waiters, st' \in [Conns -> {"none", "up", "closing", "dead"}]
      PROVE  /\ pool' \in States /\ pool'.waiters = p.waiters
             /\ st' \in [Conns -> {"none", "up", "closing", "dead"}]
             /\ cl' \in [Callers -> Callings]
             /\ \A d \in Callers : d # c => cl'[d] = cl[d]
  BY <1>2, LendViews
<1> QED  BY <1>1, <1>2, OpenForViews

LEMMA CallersServeWaiter ==
  ASSUME CallersInv, NEW kind, Receives(kind), NEW ws, Taken \/ Flush(ws), up' = up,
         NEW p \in States, p.waiters = pool.waiters,
         NEW ps \in [Conns -> {"none", "up", "closing", "dead"}], ServeWaiter(p, ps),
         todo' \in [Conns -> Seq(Requests)], session' \in [Conns -> Sessions],
         suspect' = suspect, pings' = pings
  PROVE  CallersInv'
<1>1. Typed /\ Asking
  BY DEF CallersInv
<1>2. CASE pool' = p /\ st' = ps /\ UNCHANGED <<timers, cl>>
  <2>1. Asking' /\ Down' /\ mbox' \in Seq(Messages)
    BY <1>2, AskingSame
  <2> QED  BY <1>1, <1>2, <2>1 DEF CallersInv, Typed, ConnsTyped, Sessions
<1>3. ASSUME p.waiters # <<>>, timers' = timers \ {Head(p.waiters)}, NEW q \in States,
             q.waiters = Tail(p.waiters), OpenFor(q, ps, Head(p.waiters))
      PROVE  CallersInv'
  <2> DEFINE c == Head(pool.waiters)
  <2>1. c \in Callers /\ Waits(c)
    BY <1>3, OldestWaits
  <2>2. OpenFor(q, ps, c) /\ timers' = timers \ {c} /\ pool.waiters # <<>>
    BY <1>3
  <2> HIDE DEF c
  <2>3. /\ pool' \in States /\ pool'.waiters = Tail(pool.waiters)
        /\ st' \in [Conns -> {"none", "up", "closing", "dead"}]
        /\ cl' \in [Callers -> Callings]
        /\ \A d \in Callers : d # c => cl'[d] = cl[d]
    BY <1>1, <1>3, <2>1, <2>2, OpenForAnswers
  <2>4. Asking' /\ Down' /\ mbox' \in Seq(Messages)
    BY <2>2, <2>3, AskingServed DEF c
  <2>5. timers' \subseteq Callers
    BY <1>1, <2>2 DEF Typed
  <2> QED  BY <1>1, <2>3, <2>4, <2>5 DEF CallersInv, Typed, ConnsTyped, Sessions
<1> QED  BY <1>2, <1>3, ServeWaiterViews

LEMMA CallersHandOver ==
  ASSUME CallersInv, NEW kind, Receives(kind), Taken, up' = up, pool.waiters # <<>>,
         NEW w \in Conns, HandOver(w), UNCHANGED <<connVars, pings, suspect>>
  PROVE  CallersInv'
<1> DEFINE c == Head(pool.waiters)
<1>1. Typed /\ c \in Callers /\ Waits(c)
  BY OldestWaits DEF CallersInv
<1>2. /\ timers' = timers \ {c} /\ Lend(c, w)
      /\ pool' \in States /\ pool'.waiters = Tail(pool.waiters)
  BY <1>1, HandOverViews
<1> HIDE DEF c
<1>3. /\ cl' \in [Callers -> Callings]
      /\ \A d \in Callers : d # c => cl'[d] = cl[d]
  BY <1>1, <1>2, LendViews
<1>4. Asking' /\ Down' /\ mbox' \in Seq(Messages)
  BY <1>2, <1>3, AskingServed DEF c
<1>5. timers' \subseteq Callers
  BY <1>1, <1>2 DEF Typed
<1> QED  BY <1>1, <1>2, <1>3, <1>4, <1>5 DEF CallersInv, Typed, ConnsTyped, connVars

\* take_live: the first idle connection that is alive, with those before it dropped.
LEMMA TakeLiveViews ==
  ASSUME Typed, NEW c, {i \in DOMAIN pool.idle : Alive(pool.idle[i])} # {},
         LET i == Min({i \in DOMAIN pool.idle : Alive(pool.idle[i])}) IN
           /\ pool' = [pool EXCEPT !.idle = SubSeq(@, i + 1, Len(@)),
                                   !.busy = @ \union {pool.idle[i]}]
           /\ Lend(c, pool.idle[i])
  PROVE  \E w \in ToSet(pool.idle) :
           /\ Alive(w) /\ Lend(c, w) /\ w \in Conns
           /\ pool' \in States /\ pool'.busy = pool.busy \union {w} /\ pool'.mons = pool.mons
           /\ pool'.checking = pool.checking /\ pool'.waiters = pool.waiters
           /\ ToSet(pool'.idle) \subseteq ToSet(pool.idle)
           /\ \A v \in ToSet(pool.idle) : Alive(v) => v = w \/ v \in ToSet(pool'.idle)
           /\ Unique(pool.idle) => Unique(pool'.idle) /\ w \notin ToSet(pool'.idle)
<1> DEFINE live == {i \in DOMAIN pool.idle : Alive(pool.idle[i])}
           i == Min(live)
           rest == SubSeq(pool.idle, i + 1, Len(pool.idle))
           w == pool.idle[i]
<1>1. pool \in States /\ pool.idle \in Seq(Conns)
  BY DEF Typed, States
<1>2. live \in SUBSET Nat /\ live # {}
  BY <1>1
<1>3. i \in live /\ \A j \in live : i <= j
  <2> HIDE DEF live
  <2>1. \E x \in live : \A y \in live : x <= y
    BY <1>2, LeastOf
  <2> QED  BY <2>1 DEF Min
<1>4. i \in DOMAIN pool.idle /\ Alive(w) /\ \A j \in DOMAIN pool.idle : Alive(pool.idle[j]) => i <= j
  BY <1>3
<1>5. /\ pool' = [pool EXCEPT !.idle = rest, !.busy = @ \union {w}]
      /\ Lend(c, w)
  OBVIOUS
<1> HIDE DEF i, live
<1>6. w \in ToSet(pool.idle) /\ w \in Conns /\ i \in Nat
  BY <1>1, <1>4 DEF ToSet
<1>7. /\ rest \in Seq(Conns) /\ ToSet(rest) \subseteq ToSet(pool.idle)
      /\ \A j \in DOMAIN pool.idle : j <= i \/ pool.idle[j] \in ToSet(rest)
      /\ Unique(pool.idle) => Unique(rest) /\ w \notin ToSet(rest)
  BY <1>1, <1>4, SubSeqList
<1>8. \A v \in ToSet(pool.idle) : Alive(v) => v = w \/ v \in ToSet(rest)
  <2> SUFFICES ASSUME NEW j \in DOMAIN pool.idle, Alive(pool.idle[j])
               PROVE  pool.idle[j] = w \/ pool.idle[j] \in ToSet(rest)
    BY DEF ToSet
  <2>1. i <= j /\ j \in Nat
    BY <1>1, <1>4
  <2>2. CASE j = i
    BY <2>2
  <2>3. CASE j # i
    BY <1>6, <1>7, <2>1, <2>3
  <2> QED  BY <2>2, <2>3
<1> HIDE DEF rest, w
<1>9. /\ pool' \in States /\ pool'.busy = pool.busy \union {w} /\ pool'.mons = pool.mons
      /\ pool'.checking = pool.checking /\ pool'.waiters = pool.waiters /\ pool'.idle = rest
  <2> DEFINE b == pool.busy \union {w}
  <2>1. b \in SUBSET Conns
    BY <1>1, <1>6 DEF States
  <2>2. pool' = [pool EXCEPT !.idle = rest, !.busy = b]
    BY <1>5
  <2>3. rest \in Seq(Conns)
    BY <1>7
  <2> HIDE DEF b
  <2>4. /\ pool' \in States /\ pool'.busy = b /\ pool'.mons = pool.mons
        /\ pool'.checking = pool.checking /\ pool'.waiters = pool.waiters /\ pool'.idle = rest
    BY <1>1, <2>1, <2>2, <2>3 DEF States
  <2> QED  BY <2>4 DEF b
<1> QED  BY <1>4, <1>5, <1>6, <1>7, <1>8, <1>9 DEF w

\* The four replies to a checkout.
LEMMA HandleCheckoutCases ==
  ASSUME Typed, HandleCheckout
  PROVE  /\ Receives("checkout") /\ Taken
         /\ UNCHANGED <<up, suspect, todo, session, pings>>
         /\ \/ /\ UNCHANGED <<st, timers>>
               /\ \E w \in ToSet(pool.idle) :
                    /\ Alive(w) /\ Lend(From, w) /\ w \in Conns
                    /\ pool' \in States /\ pool'.busy = pool.busy \union {w}
                    /\ pool'.mons = pool.mons
                    /\ pool'.checking = pool.checking /\ pool'.waiters = pool.waiters
                    /\ ToSet(pool'.idle) \subseteq ToSet(pool.idle)
                    /\ \A v \in ToSet(pool.idle) : Alive(v) => v = w \/ v \in ToSet(pool'.idle)
                    /\ Unique(pool.idle) => Unique(pool'.idle) /\ w \notin ToSet(pool'.idle)
            \/ /\ \A v \in ToSet(pool.idle) : ~Alive(v)
               /\ \E none \in States :
                    /\ none.idle = <<>> /\ none.busy = pool.busy /\ none.mons = pool.mons
                    /\ none.checking = pool.checking /\ none.waiters = pool.waiters
                    /\ \/ HasRoom(pool) /\ OpenFor(none, st, From) /\ timers' = timers
                       \/ /\ ~HasRoom(pool) /\ UNCHANGED <<st, cl>>
                          /\ timers' = timers \union {From}
                          /\ pool' = [none EXCEPT !.waiters = Append(@, From)]
                       \/ /\ ~HasRoom(pool) /\ pool' = none /\ Refused({From})
                          /\ UNCHANGED <<st, timers>>
<1> DEFINE live == {i \in DOMAIN pool.idle : Alive(pool.idle[i])}
           none == [pool EXCEPT !.idle = <<>>]
<1>1. Receives("checkout") /\ Taken /\ UNCHANGED <<up, suspect, todo, session, pings>>
  BY DEF HandleCheckout, Quiet
<1>2. CASE live # {}
  <2>1. /\ LET i == Min(live) IN
             /\ pool' = [pool EXCEPT !.idle = SubSeq(@, i + 1, Len(@)),
                                     !.busy = @ \union {pool.idle[i]}]
             /\ Lend(From, pool.idle[i])
        /\ UNCHANGED <<st, timers>>
    BY <1>2 DEF HandleCheckout
  <2>2. \E w \in ToSet(pool.idle) :
          /\ Alive(w) /\ Lend(From, w) /\ w \in Conns
          /\ pool' \in States /\ pool'.busy = pool.busy \union {w} /\ pool'.mons = pool.mons
          /\ pool'.checking = pool.checking /\ pool'.waiters = pool.waiters
          /\ ToSet(pool'.idle) \subseteq ToSet(pool.idle)
          /\ \A v \in ToSet(pool.idle) : Alive(v) => v = w \/ v \in ToSet(pool'.idle)
          /\ Unique(pool.idle) => Unique(pool'.idle) /\ w \notin ToSet(pool'.idle)
    BY <1>2, <2>1, TakeLiveViews
  <2> QED  BY <1>1, <2>1, <2>2
<1>3. CASE live = {}
  <2>1. \/ HasRoom(pool) /\ OpenFor(none, st, From) /\ timers' = timers
        \/ /\ ~HasRoom(pool) /\ UNCHANGED <<st, cl>>
           /\ timers' = timers \union {From}
           /\ pool' = [none EXCEPT !.waiters = Append(@, From)]
        \/ /\ ~HasRoom(pool) /\ pool' = none /\ Refused({From})
           /\ UNCHANGED <<st, timers>>
    BY <1>3 DEF HandleCheckout
  <2>2. \A v \in ToSet(pool.idle) : ~Alive(v)
    BY <1>3 DEF ToSet
  <2>3. /\ none \in States /\ none.idle = <<>> /\ none.busy = pool.busy
        /\ none.mons = pool.mons /\ none.checking = pool.checking
        /\ none.waiters = pool.waiters
    <3>1. <<>> \in Seq(Conns) /\ pool \in States
      BY DEF Typed
    <3> QED  BY <3>1 DEF States
  <2> HIDE DEF none
  <2> QED  BY <1>1, <2>1, <2>2, <2>3
<1> QED  BY <1>2, <1>3

\* The caller whose checkout is taken.
LEMMA AskerWaits ==
  ASSUME CallersInv, Receives("checkout"), Taken
  PROVE  /\ From \in Callers /\ Waits(From) /\ From \notin Parked
         /\ mbox' \in Seq(Messages) /\ up
         /\ ~In(mbox', "checkout", From) /\ ~In(mbox', "waiter_timeout", From)
<1>1. /\ Head(mbox) \in Messages /\ Head(mbox).kind = "checkout" /\ In(mbox, "checkout", From)
      /\ mbox' \in Seq(Messages) /\ up
      /\ \A x : Once(mbox, "checkout", x) => ~In(mbox', "checkout", From) \/ x # From
      /\ \A k : Before(mbox, k, "checkout", From) => ~In(mbox', k, From)
  BY TakenViews DEF CallersInv
<1>2. From \in Callers
  BY <1>1 DEF Messages, From
<1>3. Asking
  BY DEF CallersInv
<1> QED  BY <1>1, <1>2, <1>3 DEF Asking

\* The caller whose checkout is taken is answered at once.
LEMMA AskingReplied ==
  ASSUME CallersInv, Receives("checkout"), Taken, up' = up,
         pool'.waiters = pool.waiters, timers' = timers,
         \A d \in Callers : d # From => cl'[d] = cl[d]
  PROVE  Asking' /\ Down' /\ mbox' \in Seq(Messages)
<1> DEFINE c == From
           S == {c}
<1>1. c \in Callers /\ c \notin Parked /\ ~In(mbox', "checkout", c)
  BY AskerWaits
<1>2. Unique(pool.waiters) /\ timers \subseteq Parked
  BY DEF CallersInv, Asking
<1> HIDE DEF c
<1>3. /\ S \in SUBSET Callers /\ Unique(pool'.waiters)
      /\ ToSet(pool'.waiters) \subseteq Parked \ S
      /\ timers' \subseteq timers /\ timers' \subseteq ToSet(pool'.waiters)
      /\ \A d \in Callers : d \notin S => cl'[d] = cl[d]
      /\ \A d \in S : ~In(mbox', "checkout", d)
  BY <1>1, <1>2 DEF c, Parked
<1> HIDE DEF S
<1> QED  BY <1>3, AskingAnswered

LEMMA CallersHandleCheckout ==
  ASSUME CallersInv, HandleCheckout
  PROVE  CallersInv'
<1> DEFINE c == From
<1>1. Typed /\ Asking
  BY DEF CallersInv
<1>2. Receives("checkout") /\ Taken /\ UNCHANGED <<up, suspect, todo, session, pings>>
  BY <1>1, HandleCheckoutCases
<1>3. /\ c \in Callers /\ Waits(c) /\ c \notin Parked /\ mbox' \in Seq(Messages) /\ up
      /\ ~In(mbox', "checkout", c) /\ ~In(mbox', "waiter_timeout", c)
  BY <1>2, AskerWaits
<1>4. ASSUME NEW w \in Conns, Lend(c, w), UNCHANGED <<st, timers>>, pool' \in States,
             pool'.waiters = pool.waiters
      PROVE  CallersInv'
  <2>1. cl' \in [Callers -> Callings] /\ \A d \in Callers : d # c => cl'[d] = cl[d]
    BY <1>1, <1>3, <1>4, LendViews
  <2>2. Asking' /\ Down'
    BY <1>2, <1>4, <2>1, AskingReplied
  <2> QED  BY <1>1, <1>2, <1>3, <1>4, <2>1, <2>2 DEF CallersInv, Typed, ConnsTyped
<1>5. ASSUME NEW none \in States, none.waiters = pool.waiters, OpenFor(none, st, c), timers' = timers
      PROVE  CallersInv'
  <2>1. st \in [Conns -> {"none", "up", "closing", "dead"}]
    BY <1>1 DEF Typed, ConnsTyped
  <2>2. /\ pool' \in States /\ pool'.waiters = pool.waiters
        /\ st' \in [Conns -> {"none", "up", "closing", "dead"}]
        /\ cl' \in [Callers -> Callings]
        /\ \A d \in Callers : d # c => cl'[d] = cl[d]
    BY <1>1, <1>3, <1>5, <2>1, OpenForAnswers
  <2>3. Asking' /\ Down'
    BY <1>2, <1>5, <2>2, AskingReplied
  <2> QED  BY <1>1, <1>2, <1>3, <1>5, <2>2, <2>3 DEF CallersInv, Typed, ConnsTyped
<1>6. ASSUME NEW none \in States, none.waiters = pool.waiters, UNCHANGED <<st, cl>>,
             timers' = timers \union {c}, pool' = [none EXCEPT !.waiters = Append(@, c)]
      PROVE  CallersInv'
  <2> DEFINE queue == Append(pool.waiters, c)
  <2>1. pool.waiters \in Seq(Callers)
    BY <1>6 DEF States
  <2>2. queue \in Seq(Callers) /\ ToSet(queue) = Parked \union {c} /\ Unique(queue)
    BY <1>1, <1>3, <2>1, AppendList DEF Parked, Asking
  <2>3. pool' = [none EXCEPT !.waiters = queue]
    BY <1>6
  <2> HIDE DEF queue
  <2>4. pool' \in States /\ pool'.waiters = queue
    BY <1>6, <2>2, <2>3 DEF States
  <2>5. Parked' = Parked \union {c} /\ Unique(pool'.waiters)
    BY <2>2, <2>4 DEF Parked
  <2>6. /\ \A k, x : In(mbox', k, x) => In(mbox, k, x)
        /\ \A k, x : Once(mbox, k, x) => Once(mbox', k, x)
        /\ \A k, l, x : Before(mbox, k, l, x) => Before(mbox', k, l, x)
    BY <1>1, <1>2, TakenViews
  <2> HIDE DEF c
  <2>7. ASSUME NEW d \in Callers
        PROVE  /\ In(mbox', "checkout", d) => Waits(d)' /\ d \notin Parked'
               /\ d \in Parked' => Waits(d)'
               /\ Once(mbox', "checkout", d)
               /\ d \in timers' => ~In(mbox', "waiter_timeout", d)
               /\ Before(mbox', "waiter_timeout", "checkout", d)
    <3>1. Waits(d)' <=> Waits(d)
      BY <1>6 DEF Waits
    <3> QED  BY <1>1, <1>3, <1>6, <2>5, <2>6, <3>1 DEF Asking
  <2>8. Asking'
    BY <1>1, <1>6, <2>5, <2>7 DEF Asking
  <2>9. Down'
    BY <1>2, <1>3 DEF Down
  <2>10. timers' \subseteq Callers
    BY <1>1, <1>3, <1>6 DEF Typed
  <2> QED  BY <1>1, <1>2, <1>3, <1>6, <2>4, <2>8, <2>9, <2>10 DEF CallersInv, Typed, ConnsTyped
<1>7. ASSUME NEW none \in States, none.waiters = pool.waiters, pool' = none, Refused({c}),
             UNCHANGED <<st, timers>>
      PROVE  CallersInv'
  <2>1. {c} \in SUBSET Callers /\ \A d \in {c} : Waits(d)
    BY <1>3
  <2>2. cl' \in [Callers -> Callings] /\ \A d \in Callers : d # c => cl'[d] = cl[d]
    BY <1>1, <1>7, <2>1, RefusedViews
  <2>3. Asking' /\ Down'
    BY <1>2, <1>7, <2>2, AskingReplied
  <2> QED  BY <1>1, <1>2, <1>3, <1>7, <2>2, <2>3 DEF CallersInv, Typed, ConnsTyped
<1> QED  BY <1>1, <1>4, <1>5, <1>6, <1>7, HandleCheckoutCases

\* Handlers that answer nobody.
LEMMA CallersQuiet ==
  ASSUME CallersInv, NEW kind, Receives(kind), NEW ws, Taken \/ Flush(ws),
         UNCHANGED <<up, timers, cl, suspect>>,
         pool' \in States, pool'.waiters = pool.waiters, ConnsTyped', pings' \subseteq Conns
  PROVE  CallersInv'
<1>1. Asking' /\ Down' /\ mbox' \in Seq(Messages)
  BY AskingSame
<1> QED  BY <1>1 DEF CallersInv, Typed

\* What a checkin does to the State and to the connection.
LEMMA HandleCheckinCases ==
  ASSUME Typed, HandleCheckin
  PROVE  /\ Receives("checkin") /\ From \in Conns /\ UNCHANGED <<up, suspect, pings>>
         /\ \/ From \notin pool.busy /\ Taken /\ UNCHANGED <<connVars, pool, timers, cl>>
            \/ /\ From \in pool.busy /\ Alive(From) /\ pool.waiters # <<>>
               /\ HandOver(From) /\ Taken /\ UNCHANGED connVars
            \/ /\ From \in pool.busy /\ pool' \in States /\ UNCHANGED <<timers, cl>>
               /\ pool'.waiters = pool.waiters /\ pool'.checking = pool.checking
               /\ pool'.mons = pool.mons /\ pool'.busy = pool.busy \ {From}
               /\ Taken /\ UNCHANGED connVars
               /\ \/ ~Alive(From) /\ pool'.idle = pool.idle
                  \/ /\ Alive(From) /\ pool.waiters = <<>>
                     /\ ToSet(pool'.idle) = ToSet(pool.idle) \union {From}
                     /\ Unique(pool.idle) /\ From \notin ToSet(pool.idle) => Unique(pool'.idle)
            \/ /\ From \in pool.busy /\ pool.waiters = <<>> /\ pool' = Retired(pool, {From})
               /\ st' = Killed({From}) /\ todo' = Emptied({From}) /\ Ended({From})
               /\ Flush({From}) /\ UNCHANGED <<timers, cl>>
<1> DEFINE w == From
<1>1. Receives("checkin") /\ UNCHANGED <<up, suspect, pings>>
  BY DEF HandleCheckin, Quiet
<1>2. w \in Conns
  <2>1. mbox \in Seq(Messages) /\ mbox # <<>>
    BY <1>1 DEF Typed, Receives
  <2>2. Head(mbox) \in Messages /\ Head(mbox).kind = "checkin"
    BY <1>1, <2>1, TailMessage DEF Receives
  <2> QED  BY <2>2 DEF Messages, From
<1>3. pool \in States /\ pool.idle \in Seq(Conns)
  BY DEF Typed, States
<1> HIDE DEF w
<1>4. ASSUME w \in pool.busy, pool' = [pool EXCEPT !.busy = @ \ {w}]
      PROVE  /\ pool' \in States /\ pool'.waiters = pool.waiters
             /\ pool'.checking = pool.checking /\ pool'.idle = pool.idle
             /\ pool'.mons = pool.mons /\ pool'.busy = pool.busy \ {w}
  BY <1>3, <1>4 DEF States
<1>5. ASSUME w \in pool.busy, pool' = [pool EXCEPT !.busy = @ \ {w}, !.idle = <<w>> \o @]
      PROVE  /\ pool' \in States /\ pool'.waiters = pool.waiters
             /\ pool'.checking = pool.checking
             /\ pool'.mons = pool.mons /\ pool'.busy = pool.busy \ {w}
             /\ ToSet(pool'.idle) = ToSet(pool.idle) \union {w}
             /\ Unique(pool.idle) /\ w \notin ToSet(pool.idle) => Unique(pool'.idle)
  <2> DEFINE q == <<w>> \o pool.idle
  <2>1. /\ q \in Seq(Conns) /\ ToSet(q) = ToSet(pool.idle) \union {w}
        /\ Unique(pool.idle) /\ w \notin ToSet(pool.idle) => Unique(q)
    BY <1>2, <1>3, ConsList
  <2>2. pool' = [pool EXCEPT !.busy = @ \ {w}, !.idle = q]
    BY <1>5
  <2> HIDE DEF q
  <2>3. /\ pool' \in States /\ pool'.waiters = pool.waiters
        /\ pool'.checking = pool.checking /\ pool'.idle = q
        /\ pool'.mons = pool.mons /\ pool'.busy = pool.busy \ {w}
    BY <1>3, <2>1, <2>2 DEF States
  <2> QED  BY <2>1, <2>3
<1>6. \/ w \notin pool.busy /\ Taken /\ UNCHANGED <<connVars, pool, timers, cl>>
      \/ /\ w \in pool.busy /\ ~Alive(w) /\ pool' = [pool EXCEPT !.busy = @ \ {w}]
         /\ Taken /\ UNCHANGED connVars /\ UNCHANGED <<timers, cl>>
      \/ /\ w \in pool.busy /\ Alive(w) /\ pool.waiters # <<>>
         /\ HandOver(w) /\ Taken /\ UNCHANGED connVars
      \/ /\ w \in pool.busy /\ Alive(w) /\ pool.waiters = <<>>
         /\ pool' = [pool EXCEPT !.busy = @ \ {w}, !.idle = <<w>> \o @]
         /\ Taken /\ UNCHANGED connVars /\ UNCHANGED <<timers, cl>>
      \/ /\ w \in pool.busy /\ pool.waiters = <<>> /\ pool' = Retired(pool, {w})
         /\ st' = Killed({w}) /\ todo' = Emptied({w}) /\ Ended({w})
         /\ Flush({w}) /\ UNCHANGED <<timers, cl>>
  BY Zenon DEF HandleCheckin, SameConns, poolVars, w
<1> HIDE DEF Taken
<1> QED  BY <1>1, <1>2, <1>4, <1>5, <1>6 DEF w

\* Retiring connections: the processes are gone and their DOWNs with them.
LEMMA ConnsRetired ==
  ASSUME Typed, NEW ws, st' = Killed(ws), todo' = Emptied(ws), Ended(ws)
  PROVE  ConnsTyped'
BY KilledTyped, EmptiedTyped, EndedTyped DEF ConnsTyped, Sessions

LEMMA CallersHandleCheckin ==
  ASSUME CallersInv, HandleCheckin
  PROVE  CallersInv'
<1>1. Typed /\ ConnsTyped /\ pings \subseteq Conns /\ pool \in States
  BY DEF CallersInv, Typed
<1>2. Receives("checkin") /\ From \in Conns /\ UNCHANGED <<up, suspect, pings>>
  BY <1>1, HandleCheckinCases
<1>3. UNCHANGED connVars => ConnsTyped'
  BY <1>1 DEF ConnsTyped, connVars
<1>4. CASE Taken /\ UNCHANGED <<connVars, pool, timers, cl>>
  BY <1>1, <1>2, <1>3, <1>4, CallersQuiet
<1>5. CASE pool.waiters # <<>> /\ HandOver(From) /\ Taken /\ UNCHANGED connVars
  BY <1>2, <1>5, CallersHandOver
<1>6. CASE /\ pool' \in States /\ UNCHANGED <<timers, cl>>
           /\ pool'.waiters = pool.waiters /\ Taken /\ UNCHANGED connVars
  BY <1>1, <1>2, <1>3, <1>6, CallersQuiet
<1>7. CASE /\ pool' = Retired(pool, {From}) /\ st' = Killed({From}) /\ todo' = Emptied({From})
           /\ Ended({From}) /\ Flush({From}) /\ UNCHANGED <<timers, cl>>
  <2>1. pool' \in States /\ pool'.waiters = pool.waiters
    BY <1>1, <1>7, RetiredViews
  <2>2. ConnsTyped'
    BY <1>1, <1>7, ConnsRetired
  <2> QED  BY <1>1, <1>2, <1>7, <2>1, <2>2, CallersQuiet
<1> HIDE DEF Taken
<1> QED  BY <1>1, <1>4, <1>5, <1>6, <1>7, HandleCheckinCases

LEMMA CallersHandleDown ==
  ASSUME CallersInv, HandleDown
  PROVE  CallersInv'
<1>1. Typed /\ pool \in States /\ st \in [Conns -> {"none", "up", "closing", "dead"}]
      /\ todo \in [Conns -> Seq(Requests)] /\ session \in [Conns -> Sessions]
  BY DEF CallersInv, Typed, ConnsTyped, Sessions
<1>2. Receives("DOWN") /\ Taken /\ UNCHANGED <<up, suspect, todo, session, pings>>
      /\ ServeWaiter(Retired(pool, {From}), st)
  BY DEF HandleDown, Quiet
<1>3. /\ Retired(pool, {From}) \in States
      /\ Retired(pool, {From}).waiters = pool.waiters
  BY <1>1, RetiredViews
<1> QED  BY <1>1, <1>2, <1>3, CallersServeWaiter

\* timeout_waiter takes one caller out of the queue, or finds nobody.
LEMMA WaiterTimeoutCases ==
  ASSUME Typed, WaiterTimeout
  PROVE  /\ Receives("waiter_timeout") /\ Taken
         /\ UNCHANGED <<up, suspect, connVars, timers, pings>>
         /\ \/ UNCHANGED <<pool, cl>>
            \/ /\ From \in Parked /\ Refused({From})
               /\ pool' \in States /\ pool'.idle = pool.idle /\ pool'.busy = pool.busy
               /\ pool'.mons = pool.mons /\ pool'.checking = pool.checking
               /\ ToSet(pool'.waiters) = Parked \ {From}
               /\ Unique(pool.waiters) => Unique(pool'.waiters)
<1> DEFINE q == Without(pool.waiters, {From})
<1>1. Receives("waiter_timeout") /\ Taken
      /\ UNCHANGED <<up, suspect, connVars, timers, pings>>
  BY DEF WaiterTimeout, Quiet, SameConns
<1>2. pool \in States /\ pool.waiters \in Seq(Callers)
  BY DEF Typed, States
<1>3. /\ q \in Seq(Callers) /\ ToSet(q) = Parked \ {From}
      /\ Unique(pool.waiters) => Unique(q)
  BY <1>2, WithoutList DEF Parked
<1>4. \/ UNCHANGED <<pool, cl>>
      \/ Contains(pool.waiters, From) /\ Refused({From}) /\ pool' = [pool EXCEPT !.waiters = q]
  BY DEF WaiterTimeout
<1>5. Contains(pool.waiters, From) => From \in Parked
  BY <1>2 DEF Contains, Parked, ToSet
<1> HIDE DEF q
<1>6. pool' = [pool EXCEPT !.waiters = q] =>
        /\ pool' \in States /\ pool'.idle = pool.idle /\ pool'.busy = pool.busy
        /\ pool'.mons = pool.mons /\ pool'.checking = pool.checking /\ pool'.waiters = q
  BY <1>2, <1>3 DEF States
<1> HIDE DEF Taken
<1> QED  BY <1>1, <1>3, <1>4, <1>5, <1>6

LEMMA CallersWaiterTimeout ==
  ASSUME CallersInv, WaiterTimeout
  PROVE  CallersInv'
<1>1. Typed /\ Asking /\ pool \in States /\ ConnsTyped
  BY DEF CallersInv, Typed
<1>2. Receives("waiter_timeout") /\ Taken
      /\ UNCHANGED <<up, suspect, connVars, timers, pings>>
  BY <1>1, WaiterTimeoutCases
<1>3. ConnsTyped' /\ pings' \subseteq Conns
  BY <1>1, <1>2 DEF ConnsTyped, connVars, Typed
<1>4. CASE UNCHANGED <<pool, cl>>
  BY <1>1, <1>2, <1>3, <1>4, CallersQuiet
<1>5. CASE /\ From \in Parked /\ Refused({From}) /\ pool' \in States
           /\ ToSet(pool'.waiters) = Parked \ {From}
           /\ Unique(pool.waiters) => Unique(pool'.waiters)
  <2> DEFINE c == From
             S == {c}
  <2>1. c \in Callers /\ Waits(c) /\ ~In(mbox, "checkout", c)
    <3>1. c \in Callers
      BY <1>1, <1>5 DEF States, Parked, ToSet
    <3> QED  BY <1>1, <1>5, <3>1 DEF Asking
  <2>2. In(mbox, "waiter_timeout", c) /\ \A k, x : In(mbox', k, x) => In(mbox, k, x)
    BY <1>1, <1>2, TakenViews
  <2>3. c \notin timers
    BY <1>1, <2>1, <2>2 DEF Asking
  <2>4. Refused(S)
    BY <1>5
  <2> HIDE DEF c
  <2>5. S \in SUBSET Callers /\ \A d \in S : Waits(d)
    BY <2>1
  <2>6. /\ cl' \in [Callers -> Callings]
        /\ \A d \in Callers : d \notin S => cl'[d] = cl[d]
    BY <1>1, <2>4, <2>5, RefusedViews
  <2>7. /\ Unique(pool'.waiters) /\ ToSet(pool'.waiters) \subseteq Parked \ S
        /\ timers' \subseteq timers /\ timers' \subseteq ToSet(pool'.waiters)
        /\ \A d \in S : ~In(mbox', "checkout", d)
    BY <1>1, <1>2, <1>5, <2>1, <2>2, <2>3 DEF Asking, c
  <2> HIDE DEF S
  <2>8. Asking' /\ Down' /\ mbox' \in Seq(Messages)
    BY <1>2, <2>5, <2>6, <2>7, AskingAnswered
  <2> QED  BY <1>1, <1>2, <1>3, <1>5, <2>6, <2>8 DEF CallersInv, Typed
<1> QED  BY <1>1, <1>4, <1>5, WaiterTimeoutCases

\* A maintenance tick retires some of the idle connections, checks some and keeps the rest.
LEMMA MaintenanceViews ==
  ASSUME Typed, Maintenance
  PROVE  /\ Receives("maintenance") /\ UNCHANGED <<up, suspect, timers, cl>>
         /\ \E retired, pinged \in SUBSET ToSet(pool.idle) :
              /\ retired \intersect pinged = {}
              /\ pool' \in States /\ pool'.waiters = pool.waiters
              /\ ToSet(pool'.idle) = ToSet(pool.idle) \ (retired \union pinged)
              /\ Unique(pool.idle) => Unique(pool'.idle)
              /\ pool.idle = <<>> => pool'.idle = <<>>
              /\ pool'.busy = pool.busy \ retired /\ pool'.mons = pool.mons \ retired
              /\ pool'.checking = (pool.checking \ retired) \union pinged
              /\ pings' = pings \union pinged
              /\ st' = Killed(retired) /\ Ended(retired) /\ Flush(retired)
              /\ todo' \in [Conns -> Seq(Requests)]
              /\ \A w \in Conns :
                   \/ todo'[w] = Emptied(retired)[w]
                   \/ /\ todo'[w] = Append(todo[w], Request(Ping, "ping"))
                      /\ Alive(w) /\ w \notin retired
<1>1. Receives("maintenance") /\ UNCHANGED <<up, suspect, timers, cl>>
  BY DEF Maintenance, Quiet
<1>2. PICK fate \in [ToSet(pool.idle) -> {"retire", "ping", "keep"}] :
        LET of(f) == {w \in ToSet(pool.idle) : fate[w] = f}
            kept  == Without(pool.idle, {w \in ToSet(pool.idle) : ~StaysIdle(fate[w])})
        IN /\ pool' = [Retired(pool, of("retire")) EXCEPT
                         !.idle = Reverse(kept), !.checking = @ \union of("ping")]
           /\ pings' = pings \union of("ping")
           /\ st' = Killed(of("retire"))
           /\ todo' = [w \in Conns |->
                         IF w \in of("ping") /\ Alive(w)
                           THEN Append(todo[w], Request(Ping, "ping"))
                           ELSE Emptied(of("retire"))[w]]
           /\ Ended(of("retire")) /\ Flush(of("retire"))
  BY DEF Maintenance
<1> DEFINE retired == {w \in ToSet(pool.idle) : fate[w] = "retire"}
           pinged == {w \in ToSet(pool.idle) : fate[w] = "ping"}
           leaving == {w \in ToSet(pool.idle) : ~StaysIdle(fate[w])}
           kept == Without(pool.idle, leaving)
           p == Retired(pool, retired)
           idle == Reverse(kept)
<1>3. /\ pool' = [p EXCEPT !.idle = idle, !.checking = @ \union pinged]
      /\ pings' = pings \union pinged
      /\ st' = Killed(retired)
      /\ todo' = [w \in Conns |->
                    IF w \in pinged /\ Alive(w) THEN Append(todo[w], Request(Ping, "ping"))
                    ELSE Emptied(retired)[w]]
      /\ Ended(retired) /\ Flush(retired)
  BY <1>2
<1>4. pool \in States /\ pool.idle \in Seq(Conns)
  BY DEF Typed, States
<1>5. leaving = retired \union pinged /\ retired \intersect pinged = {}
      /\ retired \subseteq ToSet(pool.idle) /\ pinged \subseteq ToSet(pool.idle)
  BY DEF StaysIdle
<1>6. pinged \subseteq Conns
  BY <1>4, <1>5 DEF ToSet
<1> HIDE DEF leaving, retired, pinged
<1>7. /\ p \in States /\ p.busy = pool.busy \ retired /\ p.mons = pool.mons \ retired
      /\ p.checking = pool.checking \ retired /\ p.waiters = pool.waiters
  BY <1>4, RetiredViews
<1>8. /\ kept \in Seq(Conns) /\ ToSet(kept) = ToSet(pool.idle) \ leaving
      /\ Unique(pool.idle) => Unique(kept)
  BY <1>4, WithoutList
<1>9. /\ idle \in Seq(Conns) /\ ToSet(idle) = ToSet(kept)
      /\ Unique(kept) => Unique(idle)
  <2> HIDE DEF kept
  <2> QED  BY <1>8, ReverseList
<1> HIDE DEF p, idle, kept
<1>10. pool.idle = <<>> => idle = <<>>
  <2> SUFFICES ASSUME pool.idle = <<>> PROVE idle = <<>>
    OBVIOUS
  <2>1. ToSet(pool.idle) = {}
    BY DEF ToSet
  <2>2. ToSet(idle) = {}
    BY <1>8, <1>9, <2>1
  <2>3. Len(idle) \in Nat /\ DOMAIN idle = 1..Len(idle)
    BY <1>9
  <2>4. ~(1 \in DOMAIN idle)
    BY <2>2 DEF ToSet
  <2>5. Len(idle) = 0
    BY <2>3, <2>4
  <2> QED  BY <1>9, <2>5
<1>11. /\ pool' \in States /\ pool'.waiters = pool.waiters /\ pool'.idle = idle
       /\ pool'.busy = pool.busy \ retired /\ pool'.mons = pool.mons \ retired
       /\ pool'.checking = (pool.checking \ retired) \union pinged
  <2> DEFINE checking == p.checking \union pinged
  <2>1. checking \in SUBSET Conns
    BY <1>6, <1>7 DEF States
  <2>2. pool' = [p EXCEPT !.idle = idle, !.checking = checking]
    BY <1>3
  <2>3. checking = (pool.checking \ retired) \union pinged
    BY <1>7
  <2> HIDE DEF checking
  <2>4. p \in States /\ idle \in Seq(Conns)
    BY <1>7, <1>9
  <2>5. /\ pool' \in States /\ pool'.waiters = p.waiters /\ pool'.idle = idle
        /\ pool'.busy = p.busy /\ pool'.mons = p.mons /\ pool'.checking = checking
    BY <2>1, <2>2, <2>4 DEF States
  <2> QED  BY <1>7, <2>3, <2>5
<1>12. todo' \in [Conns -> Seq(Requests)]
       /\ \A w \in Conns :
            \/ todo'[w] = Emptied(retired)[w]
            \/ /\ todo'[w] = Append(todo[w], Request(Ping, "ping"))
               /\ Alive(w) /\ w \notin retired
  <2>1. Emptied(retired) \in [Conns -> Seq(Requests)]
    BY EmptiedTyped
  <2>2. Request(Ping, "ping") \in Requests
    BY PoolAssumption DEF Request, Requests, Verbs
  <2>3. todo \in [Conns -> Seq(Requests)]
    BY DEF Typed, ConnsTyped
  <2> DEFINE more == [w \in Conns |-> Append(todo[w], Request(Ping, "ping"))]
  <2>4. \A w \in Conns : more[w] \in Seq(Requests)
    BY <2>2, <2>3
  <2>5. todo' = [w \in Conns |-> IF w \in pinged /\ Alive(w) THEN more[w] ELSE Emptied(retired)[w]]
    BY <1>3
  <2>6. \A w \in Conns : more[w] = Append(todo[w], Request(Ping, "ping"))
    OBVIOUS
  <2> HIDE DEF more
  <2>7. todo' \in [Conns -> Seq(Requests)]
        /\ \A w \in Conns :
             \/ todo'[w] = Emptied(retired)[w]
             \/ todo'[w] = more[w] /\ Alive(w) /\ w \notin retired
    BY <1>5, <2>1, <2>4, <2>5
  <2> QED  BY <2>6, <2>7
<1>13. /\ retired \in SUBSET ToSet(pool.idle) /\ pinged \in SUBSET ToSet(pool.idle)
       /\ ToSet(pool'.idle) = ToSet(pool.idle) \ (retired \union pinged)
       /\ Unique(pool.idle) => Unique(pool'.idle)
       /\ pool.idle = <<>> => pool'.idle = <<>>
  BY <1>5, <1>8, <1>9, <1>10, <1>11
<1>14. \E r, k \in SUBSET ToSet(pool.idle) :
         /\ r \intersect k = {}
         /\ pool' \in States /\ pool'.waiters = pool.waiters
         /\ ToSet(pool'.idle) = ToSet(pool.idle) \ (r \union k)
         /\ Unique(pool.idle) => Unique(pool'.idle)
         /\ pool.idle = <<>> => pool'.idle = <<>>
         /\ pool'.busy = pool.busy \ r /\ pool'.mons = pool.mons \ r
         /\ pool'.checking = (pool.checking \ r) \union k
         /\ pings' = pings \union k
         /\ st' = Killed(r) /\ Ended(r) /\ Flush(r)
         /\ todo' \in [Conns -> Seq(Requests)]
         /\ \A w \in Conns :
              \/ todo'[w] = Emptied(r)[w]
              \/ /\ todo'[w] = Append(todo[w], Request(Ping, "ping"))
                 /\ Alive(w) /\ w \notin r
  BY <1>3, <1>5, <1>11, <1>12, <1>13, Zenon
<1> QED  BY <1>1, <1>14

LEMMA CallersMaintenance ==
  ASSUME CallersInv, Maintenance
  PROVE  CallersInv'
<1>1. Typed /\ pool \in States /\ pings \subseteq Conns
  BY DEF CallersInv, Typed
<1>2. Receives("maintenance") /\ UNCHANGED <<up, suspect, timers, cl>>
  BY <1>1, MaintenanceViews
<1>3. PICK retired, pinged \in SUBSET ToSet(pool.idle) :
        /\ pool' \in States /\ pool'.waiters = pool.waiters /\ pings' = pings \union pinged
        /\ st' = Killed(retired) /\ Ended(retired) /\ Flush(retired)
        /\ todo' \in [Conns -> Seq(Requests)]
  BY <1>1, MaintenanceViews
<1>4. ConnsTyped'
  BY <1>1, <1>3, KilledTyped, EndedTyped DEF ConnsTyped, Sessions
<1>5. pings' \subseteq Conns
  BY <1>1, <1>3 DEF States, ToSet
<1> QED  BY <1>2, <1>3, <1>4, <1>5, CallersQuiet

\* What the end of a health check does to the State and to the connection.
LEMMA PingDoneCases ==
  ASSUME Typed, PingDone
  PROVE  /\ Receives("ping_done") /\ From \in Conns /\ UNCHANGED <<up, suspect, pings>>
         /\ \/ /\ From \notin pool.checking /\ Taken
               /\ UNCHANGED <<connVars, pool, timers, cl>>
            \/ /\ From \in pool.checking /\ From \in pool.mons /\ Alive(From)
               /\ pool.waiters # <<>>
               /\ HandOver(From) /\ Taken /\ UNCHANGED connVars
            \/ /\ From \in pool.checking /\ Taken /\ UNCHANGED connVars
               /\ UNCHANGED <<timers, cl>>
               /\ pool' \in States /\ pool'.waiters = pool.waiters /\ pool'.busy = pool.busy
               /\ pool'.mons = pool.mons /\ pool'.checking = pool.checking \ {From}
               /\ \/ ~(From \in pool.mons /\ Alive(From)) /\ pool'.idle = pool.idle
                  \/ /\ Alive(From) /\ pool.waiters = <<>>
                     /\ ToSet(pool'.idle) = ToSet(pool.idle) \union {From}
                     /\ Unique(pool.idle) /\ From \notin ToSet(pool.idle) => Unique(pool'.idle)
            \/ /\ From \in pool.checking
               /\ todo' = Emptied({From}) /\ Ended({From}) /\ Flush({From})
               /\ \E p \in States :
                    /\ p.idle = pool.idle /\ p.waiters = pool.waiters /\ p.busy = pool.busy
                    /\ p.mons = pool.mons /\ p.checking = pool.checking \ {From}
                    /\ ServeWaiter(Retired(p, {From}), Killed({From}))
<1> DEFINE w == From
           p == [pool EXCEPT !.checking = @ \ {w}]
           more == [p EXCEPT !.idle = <<w>> \o @]
<1>1. Receives("ping_done") /\ UNCHANGED <<up, suspect, pings>>
  BY DEF PingDone, Quiet
<1>2. w \in Conns
  <2>1. mbox \in Seq(Messages) /\ mbox # <<>>
    BY <1>1 DEF Typed, Receives
  <2>2. Head(mbox) \in Messages /\ Head(mbox).kind = "ping_done"
    BY <1>1, <2>1, TailMessage DEF Receives
  <2> QED  BY <2>2 DEF Messages, From
<1>3. pool \in States /\ pool.idle \in Seq(Conns)
  BY DEF Typed, States
<1>4. \/ w \notin pool.checking /\ Taken /\ UNCHANGED <<connVars, pool, timers, cl>>
      \/ /\ w \in pool.checking /\ w \in pool.mons /\ Alive(w) /\ pool.waiters # <<>>
         /\ HandOver(w) /\ Taken /\ UNCHANGED connVars
      \/ /\ w \in pool.checking /\ Taken /\ UNCHANGED connVars
         /\ UNCHANGED <<timers, cl>>
         /\ \/ ~(w \in pool.mons /\ Alive(w)) /\ pool' = p
            \/ Alive(w) /\ pool.waiters = <<>> /\ pool' = more
      \/ /\ w \in pool.checking
         /\ todo' = Emptied({w}) /\ Ended({w}) /\ Flush({w})
         /\ ServeWaiter(Retired(p, {w}), Killed({w}))
  BY Zenon DEF PingDone, SameConns, poolVars
<1> HIDE DEF w
<1>5. /\ p \in States /\ p.idle = pool.idle /\ p.waiters = pool.waiters /\ p.busy = pool.busy
      /\ p.mons = pool.mons /\ p.checking = pool.checking \ {w}
  BY <1>3 DEF States
<1>6. /\ more \in States /\ more.waiters = pool.waiters /\ more.busy = pool.busy
      /\ more.mons = pool.mons /\ more.checking = pool.checking \ {w}
      /\ ToSet(more.idle) = ToSet(pool.idle) \union {w}
      /\ Unique(pool.idle) /\ w \notin ToSet(pool.idle) => Unique(more.idle)
  <2> DEFINE q == <<w>> \o pool.idle
  <2>1. /\ q \in Seq(Conns) /\ ToSet(q) = ToSet(pool.idle) \union {w}
        /\ Unique(pool.idle) /\ w \notin ToSet(pool.idle) => Unique(q)
    BY <1>2, <1>3, ConsList
  <2>2. p.idle = pool.idle
    BY <1>5
  <2>3. more = [p EXCEPT !.idle = q]
    BY <2>2
  <2> HIDE DEF q, more, p
  <2>4. /\ more \in States /\ more.waiters = p.waiters /\ more.busy = p.busy
        /\ more.mons = p.mons /\ more.checking = p.checking /\ more.idle = q
    BY <1>5, <2>1, <2>3 DEF States
  <2> QED  BY <1>5, <2>1, <2>4
<1> HIDE DEF p, more, Taken
<1>7. CASE w \notin pool.checking /\ Taken /\ UNCHANGED <<connVars, pool, timers, cl>>
  BY <1>1, <1>2, <1>7 DEF w
<1>8. CASE /\ w \in pool.checking /\ w \in pool.mons /\ Alive(w) /\ pool.waiters # <<>>
           /\ HandOver(w) /\ Taken /\ UNCHANGED connVars
  BY <1>1, <1>2, <1>8 DEF w
<1>9. CASE /\ w \in pool.checking /\ Taken /\ UNCHANGED connVars
           /\ UNCHANGED <<timers, cl>>
           /\ \/ ~(w \in pool.mons /\ Alive(w)) /\ pool' = p
              \/ Alive(w) /\ pool.waiters = <<>> /\ pool' = more
  BY <1>1, <1>2, <1>5, <1>6, <1>9 DEF w
<1>10. CASE /\ w \in pool.checking
            /\ todo' = Emptied({w}) /\ Ended({w}) /\ Flush({w})
            /\ ServeWaiter(Retired(p, {w}), Killed({w}))
  BY <1>1, <1>2, <1>5, <1>10 DEF w
<1> QED  BY <1>4, <1>7, <1>8, <1>9, <1>10

LEMMA CallersPingDone ==
  ASSUME CallersInv, PingDone
  PROVE  CallersInv'
<1>1. Typed /\ ConnsTyped /\ pings \subseteq Conns /\ pool \in States
  BY DEF CallersInv, Typed
<1>2. Receives("ping_done") /\ From \in Conns /\ UNCHANGED <<up, suspect, pings>>
  BY <1>1, PingDoneCases
<1>3. UNCHANGED connVars => ConnsTyped'
  BY <1>1 DEF ConnsTyped, connVars
<1>4. CASE Taken /\ UNCHANGED <<connVars, pool, timers, cl>>
  BY <1>1, <1>2, <1>3, <1>4, CallersQuiet
<1>5. CASE pool.waiters # <<>> /\ HandOver(From) /\ Taken /\ UNCHANGED connVars
  BY <1>2, <1>5, CallersHandOver
<1>6. CASE /\ pool' \in States /\ UNCHANGED <<timers, cl>>
           /\ pool'.waiters = pool.waiters /\ Taken /\ UNCHANGED connVars
  BY <1>1, <1>2, <1>3, <1>6, CallersQuiet
<1>7. ASSUME todo' = Emptied({From}), Ended({From}), Flush({From}), NEW p \in States,
             p.waiters = pool.waiters, ServeWaiter(Retired(p, {From}), Killed({From}))
      PROVE  CallersInv'
  <2> DEFINE r == Retired(p, {From})
             ps == Killed({From})
  <2>1. r \in States /\ r.waiters = pool.waiters
    BY <1>7, RetiredViews
  <2>2. ps \in [Conns -> {"none", "up", "closing", "dead"}]
    BY <1>1, KilledTyped
  <2>3. todo' \in [Conns -> Seq(Requests)] /\ session' \in [Conns -> Sessions]
    BY <1>1, <1>7, EmptiedTyped, EndedTyped
  <2>4. ServeWaiter(r, ps)
    BY <1>7
  <2> HIDE DEF r, ps
  <2> QED  BY <1>2, <1>7, <2>1, <2>2, <2>3, <2>4, CallersServeWaiter
<1> HIDE DEF Taken
<1> QED  BY <1>1, <1>4, <1>5, <1>6, <1>7, PingDoneCases

LEMMA CloseViews ==
  ASSUME CallersInv, Close
  PROVE  /\ up' = FALSE /\ mbox' = <<>> /\ timers' = {} /\ pool' \in States
         /\ pool'.idle = <<>> /\ pool'.busy = {} /\ pool'.mons = {}
         /\ pool'.checking = {} /\ pool'.waiters = <<>>
         /\ st' = Killed(pool.mons) /\ todo' = Emptied(pool.mons) /\ Ended(pool.mons)
         /\ UNCHANGED <<pings, suspect>>
         /\ cl' \in [Callers -> Callings]
         /\ \A d \in Callers :
              /\ d \notin Parked => cl'[d] = cl[d]
              /\ d \in Parked => cl'[d].pc \in {"dead", "rest"} /\ cl[d].pc \in {"dead", "checkout"}
              /\ cl'[d].conn = cl[d].conn /\ cl'[d].depth = cl[d].depth
              /\ cl[d].pc = "dead" => cl'[d].pc = "dead"
<1>1. Typed /\ Asking /\ pool \in States
  BY DEF CallersInv, Typed
<1>2. /\ up' = FALSE /\ mbox' = <<>> /\ timers' = {}
      /\ pool' = [idle |-> <<>>, busy |-> {}, mons |-> {}, checking |-> {}, waiters |-> <<>>]
      /\ st' = Killed(pool.mons) /\ todo' = Emptied(pool.mons) /\ Ended(pool.mons)
      /\ Refused(Parked) /\ UNCHANGED <<pings, suspect>>
  BY DEF Close, Parked
<1>3. /\ pool' \in States
      /\ pool'.idle = <<>> /\ pool'.busy = {} /\ pool'.mons = {}
      /\ pool'.checking = {} /\ pool'.waiters = <<>>
  <2>1. <<>> \in Seq(Conns) /\ <<>> \in Seq(Callers)
    OBVIOUS
  <2> QED  BY <1>2, <2>1 DEF States
<1>4. Parked \in SUBSET Callers /\ \A d \in Parked : Waits(d)
  <2>1. Parked \subseteq Callers
    BY <1>1 DEF States, Parked, ToSet
  <2> QED  BY <1>1, <2>1 DEF Asking
<1>5. /\ cl' \in [Callers -> Callings]
      /\ \A d \in Callers :
           /\ d \notin Parked => cl'[d] = cl[d]
           /\ d \in Parked => cl'[d].pc = (IF cl[d].pc = "dead" THEN "dead" ELSE "rest")
           /\ cl'[d].conn = cl[d].conn /\ cl'[d].depth = cl[d].depth
           /\ cl'[d].verb = cl[d].verb
  BY <1>1, <1>2, <1>4, RefusedViews
<1>6. \A d \in Callers :
        /\ d \in Parked => cl'[d].pc \in {"dead", "rest"} /\ cl[d].pc \in {"dead", "checkout"}
        /\ cl[d].pc = "dead" => cl'[d].pc = "dead"
  BY <1>4, <1>5 DEF Waits
<1> QED  BY <1>2, <1>3, <1>5, <1>6

LEMMA CallersClose ==
  ASSUME CallersInv, Close
  PROVE  CallersInv'
<1>1. Typed
  BY DEF CallersInv
<1>2. /\ up' = FALSE /\ mbox' = <<>> /\ timers' = {} /\ pool' \in States
      /\ pool'.idle = <<>> /\ pool'.busy = {} /\ pool'.mons = {}
      /\ pool'.checking = {} /\ pool'.waiters = <<>>
      /\ st' = Killed(pool.mons) /\ todo' = Emptied(pool.mons) /\ Ended(pool.mons)
      /\ UNCHANGED <<pings, suspect>>
      /\ cl' \in [Callers -> Callings]
  BY CloseViews
<1>3. ConnsTyped'
  BY <1>1, <1>2, ConnsRetired
<1>4. mbox' \in Seq(Messages)
  BY <1>2
<1>5. Typed'
  BY <1>1, <1>2, <1>3, <1>4 DEF Typed
<1>6. Down'
  BY <1>2 DEF Down
<1>7. Asking'
  <2>1. Parked' = {} /\ Unique(pool'.waiters) /\ \A k, x : ~In(mbox', k, x)
    BY <1>2 DEF Parked, ToSet, Unique, In
  <2>2. \A k, l, x : Once(mbox', k, x) /\ Before(mbox', k, l, x)
    BY <1>2 DEF Once, Before
  <2> QED  BY <1>2, <2>1, <2>2 DEF Asking
<1> QED  BY <1>5, <1>6, <1>7 DEF CallersInv

-----------------------------------------------------------------------------

LEMMA CallersInit ==
  ASSUME Init
  PROVE  CallersInv
<1>1. 1 \in Conns /\ None \notin Conns /\ MaxNest \in Nat
  BY PoolAssumption DEF Conns
<1>2. pool \in States /\ pool.waiters = <<>> /\ mbox = <<>> /\ timers = {} /\ up = TRUE
  <2>1. <<1>> \in Seq(Conns) /\ <<>> \in Seq(Callers)
    BY <1>1
  <2> QED  BY <1>1, <2>1 DEF Init, States
<1>3. ConnsTyped
  <2>1. <<>> \in Seq(Requests) /\ Closed \in Sessions
    BY DEF Closed, Sessions
  <2> QED  BY <2>1 DEF Init, ConnsTyped, Sessions
<1>4. cl \in [Callers -> Callings]
  <2> DEFINE r == [pc |-> "rest", verb |-> None, conn |-> None, depth |-> 0]
  <2>1. r \in Callings
    BY <1>1 DEF Callings, Pcs
  <2>2. cl = [c \in Callers |-> r]
    BY DEF Init
  <2> HIDE DEF r
  <2> QED  BY <2>1, <2>2
<1>5. Typed
  <2>1. mbox \in Seq(Messages)
    BY <1>2
  <2>2. pings \subseteq Conns /\ suspect \subseteq Conns
    BY DEF Init
  <2> QED  BY <1>2, <1>3, <1>4, <2>1, <2>2 DEF Typed
<1>6. Asking
  <2>1. Parked = {} /\ Unique(pool.waiters) /\ \A k, x : ~In(mbox, k, x)
    BY <1>2 DEF Parked, ToSet, Unique, In
  <2>2. \A k, l, x : Once(mbox, k, x) /\ Before(mbox, k, l, x)
    BY <1>2 DEF Once, Before
  <2> QED  BY <1>2, <2>1, <2>2 DEF Asking
<1> QED  BY <1>2, <1>5, <1>6 DEF CallersInv, Down

LEMMA CallersNext ==
  ASSUME CallersInv, [Next]_vars
  PROVE  CallersInv'
<1>1. CASE Manager
  BY <1>1, CallersHandleCheckout, CallersHandleCheckin, CallersHandleDown, CallersWaiterTimeout,
     CallersMaintenance, CallersPingDone, CallersClose DEF Manager
<1>2. ASSUME NEW c \in Callers, Caller(c)
      PROVE  CallersInv'
  BY <1>2, CallersCheckout, CallersBorrow, CallersPinnedVerb, CallersTimeout, CallersUnanswered,
     CallersPoolGone, CallersDie, CallersCloseHandle DEF Caller
<1>3. ASSUME NEW c \in Callers, TimerFires(c)
      PROVE  CallersInv'
  BY <1>3, CallersTimerFires
<1>4. ASSUME NEW w \in Conns, Conn(w)
      PROVE  CallersInv'
  BY <1>4, CallersServe, CallersBreaks, CallersExits, CallersPingTimeout DEF Conn
<1>5. CASE Tick
  BY <1>5, CallersTick
<1>6. CASE UNCHANGED vars
  <2>1. UNCHANGED <<up, mbox, pool, timers, st, todo, session, pings, cl, suspect>>
    BY <1>6 DEF vars, poolVars, connVars
  <2>2. Typed'
    BY <2>1 DEF CallersInv, Typed, ConnsTyped
  <2>3. Asking' /\ Down'
    BY <2>1 DEF CallersInv, Asking, Down, Parked, Waits
  <2> QED  BY <2>2, <2>3 DEF CallersInv
<1> QED  BY <1>1, <1>2, <1>3, <1>4, <1>5, <1>6 DEF Next

LEMMA CallersInvAlways == Spec => []CallersInv
<1>1. Init => CallersInv
  BY CallersInit
<1>2. CallersInv /\ [Next]_vars => CallersInv'
  BY CallersNext
<1> QED  BY <1>1, <1>2, PTL DEF Spec

\* The State of the manager, its mailbox and timers, the connections and the callers have
\* their types, whatever order callers, connections, timers and faults come in.  A timer is
\* armed only for a parked waiter: serve_waiter, hand_over_or_requeue and timeout_waiter
\* cancel it or find it rung, and a verb fits the depth of the transaction it ran in.
THEOREM PoolTypeCorrect == Spec => []TypeOK
<1>1. CallersInv => TypeOK
  <2> SUFFICES ASSUME CallersInv PROVE TypeOK
    OBVIOUS
  <2>1. up \in BOOLEAN
    BY DEF CallersInv, Typed
  <2>2. pool \in [idle : Seq(Conns), busy : SUBSET Conns, mons : SUBSET Conns,
                  checking : SUBSET Conns, waiters : Seq(Callers)]
        /\ timers \in SUBSET ToSet(pool.waiters)
    BY DEF CallersInv, Typed, States, Asking, Parked
  <2>3. \A i \in DOMAIN mbox :
          mbox[i] \in [kind : Kinds, who : Callers \union Conns \union {None}, ok : BOOLEAN]
    <3>1. mbox \in Seq(Messages)
      BY DEF CallersInv, Typed
    <3>2. \A i \in DOMAIN mbox : mbox[i] \in Messages
      BY <3>1
    <3> QED  BY <3>2 DEF Messages
  <2>4. st \in [Conns -> {"none", "up", "closing", "dead"}]
    BY DEF CallersInv, Typed, ConnsTyped
  <2>5. \A w \in Conns : \A i \in DOMAIN todo[w] :
          todo[w][i] \in [by : Callers \union {Ping}, verb : Verbs, waits : BOOLEAN]
    <3> SUFFICES ASSUME NEW w \in Conns, NEW i \in DOMAIN todo[w]
                 PROVE  todo[w][i] \in Requests
      BY DEF Requests
    <3>1. todo[w] \in Seq(Requests)
      BY DEF CallersInv, Typed, ConnsTyped
    <3> QED  BY <3>1
  <2>6. session \in [Conns -> [owner : Callers \union {None}, failed : BOOLEAN]]
        /\ pings \in SUBSET Conns /\ suspect \in SUBSET Conns
    BY DEF CallersInv, Typed, ConnsTyped
  <2>7. cl \in [Callers -> [pc : Pcs, verb : Verbs \union {None},
                            conn : Conns \union {None}, depth : 0..MaxNest]]
    <3>1. cl \in [Callers -> Callings]
      BY DEF CallersInv, Typed
    <3> QED  BY <3>1 DEF Callings
  <2> QED  BY <2>1, <2>2, <2>3, <2>4, <2>5, <2>6, <2>7 DEF TypeOK
<1> QED  BY <1>1, CallersInvAlways, PTL

-----------------------------------------------------------------------------
(* Where each connection is. *)

Held(w) == \E c \in Callers : Holds(c, w)

\* Neither idle nor being checked.
Outside(w) == w \notin ToSet(pool.idle) /\ w \notin pool.checking

\* A connection has one holder, or one checkin on its way, or is the manager's; one that
\* does not exist is nobody's, and a DOWN tells of a connection that is dead.
LentOk(w) ==
  /\ \A c, d \in Callers : Holds(c, w) /\ Holds(d, w) => c = d
  /\ Held(w) => Outside(w) /\ ~In(mbox, "checkin", w)
  /\ In(mbox, "checkin", w) => Outside(w)
  /\ Once(mbox, "checkin", w)
  /\ In(mbox, "DOWN", w) => st[w] = "dead"
  /\ st[w] = "none" =>
       /\ ~Held(w) /\ ~In(mbox, "checkin", w) /\ Outside(w)
       /\ w \notin pool.mons /\ w \notin pool.busy
  /\ w \in pool.busy => Outside(w)
  /\ ~(w \in ToSet(pool.idle) /\ w \in pool.checking)

\* A live connection is monitored and has its place.
PlaceOk(w) ==
  Alive(w) =>
    /\ up /\ w \in pool.mons
    /\ \/ w \in ToSet(pool.idle)
       \/ w \in pool.checking /\ (w \in pings \/ In(mbox, "ping_done", w))
       \/ w \in pool.busy /\ (Held(w) \/ In(mbox, "checkin", w))

ConnsInv ==
  /\ Unique(pool.idle)
  /\ \A w \in Conns : LentOk(w) /\ PlaceOk(w)

\* Steps that give no connection back: callers keep what they hold.
LEMMA ConnsKept ==
  ASSUME CallersInv, ConnsInv, pool' = pool, up' = up,
         \A c \in Callers : cl'[c].conn = cl[c].conn,
         \A v \in Conns : st'[v] = st[v] \/ (st[v] = "up" /\ st'[v] = "closing"),
         mbox' = mbox \/ \E m : Posts(m) /\ m.kind \notin {"checkin", "DOWN"},
         \A v \in Conns : up /\ v \in pings => v \in pings' \/ In(mbox', "ping_done", v)
  PROVE  ConnsInv'
<1>1. /\ \A x : In(mbox', "checkin", x) <=> In(mbox, "checkin", x)
      /\ \A x : In(mbox', "DOWN", x) => In(mbox, "DOWN", x)
      /\ \A x : In(mbox, "ping_done", x) => In(mbox', "ping_done", x)
      /\ \A x : Once(mbox, "checkin", x) => Once(mbox', "checkin", x)
  <2>1. CASE mbox' = mbox
    BY <2>1
  <2>2. ASSUME NEW m, Posts(m), m.kind \notin {"checkin", "DOWN"}
        PROVE  /\ \A x : In(mbox', "checkin", x) <=> In(mbox, "checkin", x)
               /\ \A x : In(mbox', "DOWN", x) => In(mbox, "DOWN", x)
               /\ \A x : In(mbox, "ping_done", x) => In(mbox', "ping_done", x)
               /\ \A x : Once(mbox, "checkin", x) => Once(mbox', "checkin", x)
    BY <2>2, PostsViews DEF CallersInv
  <2> QED  BY <2>1, <2>2
<1>2. Unique(pool.idle)'
  BY DEF ConnsInv
<1>3. ASSUME NEW w \in Conns
      PROVE  LentOk(w)' /\ PlaceOk(w)'
  <2>1. LentOk(w) /\ PlaceOk(w)
    BY DEF ConnsInv
  <2>2. /\ \A c \in Callers : Holds(c, w)' <=> Holds(c, w)
        /\ Held(w)' <=> Held(w)
        /\ Outside(w)' <=> Outside(w)
    BY DEF Holds, Held, Outside
  <2>3. LentOk(w)'
    BY <1>1, <2>1, <2>2 DEF LentOk
  <2>4. PlaceOk(w)'
    BY <1>1, <2>1, <2>2 DEF PlaceOk, Alive
  <2> QED  BY <2>3, <2>4
<1> QED  BY <1>2, <1>3 DEF ConnsInv

LEMMA ConnsOutcome ==
  ASSUME CallersInv, ConnsInv, NEW c \in Callers, cl[c].pc = "asked", NEW ok, Outcome(c, ok),
         UNCHANGED <<up, pool, pings>>,
         \A v \in Conns : st'[v] = st[v] \/ (st[v] = "up" /\ st'[v] = "closing")
  PROVE  ConnsInv'
<1> DEFINE u == cl[c].conn
           m == Msg("checkin", u, TRUE)
<1>1. Typed
  BY DEF CallersInv
<1>2. /\ \A d \in Callers : d # c => cl'[d] = cl[d]
      /\ u \in Conns
      /\ \/ cl'[c].conn = None /\ Posts(m)
         \/ cl'[c].conn = u /\ mbox' = mbox
  BY <1>1, OutcomeViews
<1>3. CASE cl'[c].conn = u /\ mbox' = mbox
  <2>1. \A d \in Callers : cl'[d].conn = cl[d].conn
    BY <1>2, <1>3
  <2> QED  BY <1>3, <2>1, ConnsKept
<1>4. CASE cl'[c].conn = None /\ Posts(m)
  <2>1. m.kind = "checkin" /\ m.who = u /\ Holds(c, u)
    BY DEF Msg, Holds
  <2> HIDE DEF m, u
  <2>2. /\ ~up => mbox' = mbox
        /\ \A x : In(mbox', "checkin", x) => In(mbox, "checkin", x) \/ x = u
        /\ \A x : In(mbox, "checkin", x) => In(mbox', "checkin", x)
        /\ up => In(mbox', "checkin", u)
        /\ \A x : In(mbox', "DOWN", x) => In(mbox, "DOWN", x)
        /\ \A x : In(mbox, "ping_done", x) => In(mbox', "ping_done", x)
        /\ \A x : Once(mbox, "checkin", x) /\ (x = u => ~In(mbox, "checkin", x))
                    => Once(mbox', "checkin", x)
    BY <1>1, <1>4, <2>1, PostsViews
  <2>3. None \notin Conns
    BY PoolAssumption DEF Conns
  <2>4. Unique(pool.idle)'
    BY DEF ConnsInv
  <2>5. ASSUME NEW w \in Conns
        PROVE  LentOk(w)' /\ PlaceOk(w)'
    <3>1. LentOk(w) /\ PlaceOk(w) /\ LentOk(u)
      BY <1>2 DEF ConnsInv
    <3>2. Outside(w)' <=> Outside(w)
      BY DEF Outside
    <3>3. \A d \in Callers : Holds(d, w)' <=> Holds(d, w) /\ d # c
      <4>1. \A d \in Callers : d # c => (Holds(d, w)' <=> Holds(d, w))
        BY <1>2 DEF Holds
      <4>2. ~Holds(c, w)'
        BY <1>4, <2>3 DEF Holds
      <4> QED  BY <4>1, <4>2
    <3>4. w # u => ~Holds(c, w)
      BY DEF Holds, u
    <3>5. Held(w)' => Held(w)
      BY <3>3 DEF Held
    <3>6. w # u => (Held(w)' <=> Held(w))
      BY <3>3, <3>4 DEF Held
    <3>7. Held(u) /\ (w = u => ~Held(w)')
      <4>1. Held(u)
        BY <2>1 DEF Held
      <4>2. ASSUME w = u, Held(w)'
            PROVE  FALSE
        <5>1. PICK d \in Callers : Holds(d, w)'
          BY <4>2 DEF Held
        <5>2. Holds(d, w) /\ d # c
          BY <3>3, <5>1
        <5> QED  BY <2>1, <3>1, <4>2, <5>2 DEF LentOk
      <4> QED  BY <4>1, <4>2
    <3>8. LentOk(w)'
      <4>1. CASE w = u
        BY <2>1, <2>2, <3>1, <3>2, <3>3, <3>7, <4>1 DEF LentOk
      <4>2. CASE w # u
        BY <2>2, <3>1, <3>2, <3>3, <3>6, <4>2 DEF LentOk
      <4> QED  BY <4>1, <4>2
    <3>9. PlaceOk(w)'
      <4>1. Alive(w)' <=> Alive(w)
        BY DEF Alive
      <4>2. CASE w = u
        BY <2>2, <3>1, <4>1, <4>2 DEF PlaceOk
      <4>3. CASE w # u
        BY <2>2, <3>1, <3>6, <4>1, <4>3 DEF PlaceOk
      <4> QED  BY <4>2, <4>3
    <3> QED  BY <3>8, <3>9
  <2> QED  BY <2>4, <2>5 DEF ConnsInv
<1> QED  BY <1>2, <1>3, <1>4

LEMMA ConnsAnswer ==
  ASSUME CallersInv, ConnsInv, NEW w \in Conns, NEW r \in Requests, NEW ok \in BOOLEAN,
         Answer(w, r, ok), UNCHANGED <<up, pool>>,
         \A v \in Conns : st'[v] = st[v] \/ (st[v] = "up" /\ st'[v] = "closing")
  PROVE  ConnsInv'
<1>1. Typed
  BY DEF CallersInv
<1>2. ASSUME Posts(Msg("ping_done", w, ok)), pings' = pings \ {w}, cl' = cl
      PROVE  ConnsInv'
  <2> DEFINE m == Msg("ping_done", w, ok)
  <2>1. m.kind = "ping_done" /\ m.who = w
    BY DEF Msg
  <2> HIDE DEF m
  <2>2. Posts(m)
    BY <1>2 DEF m
  <2>3. up => In(mbox', "ping_done", w)
    BY <1>1, <2>1, <2>2, PostsViews
  <2>4. \A v \in Conns : up /\ v \in pings => v \in pings' \/ In(mbox', "ping_done", v)
    BY <1>2, <2>3
  <2>5. \A c \in Callers : cl'[c].conn = cl[c].conn
    BY <1>2
  <2>6. mbox' = mbox \/ \E n : Posts(n) /\ n.kind \notin {"checkin", "DOWN"}
    BY <2>1, <2>2
  <2> QED  BY <2>4, <2>5, <2>6, ConnsKept
<1>3. CASE UNCHANGED <<mbox, pings, cl>>
  <2>1. \A c \in Callers : cl'[c].conn = cl[c].conn
    BY <1>3
  <2> QED  BY <1>3, <2>1, ConnsKept
<1>4. CASE r.by \in Callers /\ cl[r.by].pc = "asked" /\ Outcome(r.by, ok) /\ pings' = pings
  BY <1>4, ConnsOutcome
<1> QED  BY <1>1, <1>2, <1>3, <1>4, AnswerCases

\* The steps of a caller.
LEMMA ConnsCaller ==
  ASSUME CallersInv, ConnsInv, NEW c \in Callers, Caller(c) \/ TimerFires(c)
  PROVE  ConnsInv'
<1>1. Typed /\ cl \in [Callers -> Callings] /\ cl[c] \in Callings
  BY DEF CallersInv, Typed
<1>2. ASSUME NEW m, Posts(m), m.kind \notin {"checkin", "DOWN"}, UNCHANGED <<up, pool, st, pings>>,
             \A d \in Callers : cl'[d].conn = cl[d].conn
      PROVE  ConnsInv'
  BY <1>2, ConnsKept
<1>3. ASSUME UNCHANGED <<up, mbox, pool, st, pings>>, \A d \in Callers : cl'[d].conn = cl[d].conn
      PROVE  ConnsInv'
  BY <1>3, ConnsKept
<1>4. CASE Checkout(c)
  <2> DEFINE m == Msg("checkout", c, TRUE)
  <2>1. m \in Messages /\ m.kind = "checkout"
    BY DEF Msg, Messages, Kinds
  <2>2. UNCHANGED <<up, pool, st, pings>> /\ Posts(m)
    BY <1>4, <2>1 DEF Checkout, Tell, Posts, poolVars, connVars
  <2> HIDE DEF m
  <2>3. cl' = [cl EXCEPT ![c].pc = "checkout"]
    BY <1>4 DEF Checkout
  <2>4. \A d \in Callers : cl'[d].conn = cl[d].conn
    BY <1>1, <2>3 DEF Callings
  <2> QED  BY <1>2, <2>1, <2>2, <2>4
<1>5. CASE CloseHandle(c)
  <2> DEFINE m == Msg("close", None, TRUE)
  <2>1. m \in Messages /\ m.kind = "close"
    BY DEF Msg, Messages, Kinds
  <2>2. UNCHANGED <<up, pool, st, pings, cl>> /\ Posts(m)
    BY <1>5, <2>1 DEF CloseHandle, Tell, Posts, poolVars, connVars
  <2> HIDE DEF m
  <2>3. \A d \in Callers : cl'[d].conn = cl[d].conn
    BY <2>2
  <2> QED  BY <1>2, <2>1, <2>2, <2>3
<1>6. CASE TimerFires(c)
  <2> DEFINE m == Msg("waiter_timeout", c, TRUE)
  <2>1. m \in Messages /\ m.kind = "waiter_timeout"
    BY DEF Msg, Messages, Kinds
  <2>2. UNCHANGED <<up, pool, st, pings, cl>> /\ Posts(m)
    BY <1>6, <2>1 DEF TimerFires, Tell, Posts, poolVars, connVars
  <2> HIDE DEF m
  <2>3. \A d \in Callers : cl'[d].conn = cl[d].conn
    BY <2>2
  <2> QED  BY <1>2, <2>1, <2>2, <2>3
<1>7. CASE PoolGone(c) \/ Die(c)
  <2>1. UNCHANGED <<up, mbox, pool, st, pings>>
    BY <1>7 DEF PoolGone, Die, poolVars, connVars
  <2>2. cl' = [cl EXCEPT ![c].pc = "rest"] \/ cl' = [cl EXCEPT ![c].pc = "dead"]
    BY <1>7 DEF PoolGone, Die
  <2>3. \A d \in Callers : cl'[d].conn = cl[d].conn
    BY <1>1, <2>2 DEF Callings
  <2> QED  BY <1>3, <2>1, <2>3
<1>8. CASE Borrow(c) \/ PinnedVerb(c)
  <2>1. UNCHANGED <<up, mbox, pool, st, pings>>
    BY <1>8 DEF Borrow, PinnedVerb, poolVars
  <2>2. \E verb : Ask(c, cl[c].conn, verb)
    <3>1. CASE Borrow(c)
      BY <3>1 DEF Borrow
    <3>2. CASE PinnedVerb(c)
      BY <1>1, <3>2, PinnedVerbViews
    <3> QED  BY <1>8, <3>1, <3>2
  <2>3. PICK verb : cl' = [cl EXCEPT ![c].pc = "asked", ![c].verb = verb, ![c].conn = cl[c].conn]
    BY <2>2 DEF Ask
  <2>4. \A d \in Callers : cl'[d].conn = cl[d].conn
    BY <1>1, <2>3 DEF Callings
  <2> QED  BY <1>3, <2>1, <2>4
<1>9. CASE Timeout(c)
  <2>1. cl[c].pc = "asked" /\ Outcome(c, FALSE) /\ UNCHANGED <<up, pool, pings, st>>
    BY <1>1, <1>9, TimeoutViews
  <2> QED  BY <2>1, ConnsOutcome
<1>10. CASE Unanswered(c)
  <2>1. cl[c].pc = "asked" /\ Outcome(c, FALSE) /\ UNCHANGED <<up, pool, pings, st>>
    BY <1>10 DEF Unanswered, poolVars, connVars
  <2> QED  BY <2>1, ConnsOutcome
<1> QED  BY <1>4, <1>5, <1>6, <1>7, <1>8, <1>9, <1>10 DEF Caller

LEMMA ConnsExits ==
  ASSUME CallersInv, ConnsInv, NEW w \in Conns, Exits(w)
  PROVE  ConnsInv'
<1> DEFINE m == Msg("DOWN", w, TRUE)
<1>1. Typed
  BY DEF CallersInv
<1>2. /\ st[w] \in {"up", "closing"} /\ st'[w] = "dead"
      /\ \A v \in Conns : v # w => st'[v] = st[v]
      /\ mbox' = mbox \/ Posts(m)
      /\ UNCHANGED <<up, pool, timers, pings, cl, suspect>>
  BY <1>1, ExitsViews
<1>3. m.kind = "DOWN" /\ m.who = w
  BY DEF Msg
<1> HIDE DEF m
<1>4. /\ \A x : In(mbox', "checkin", x) <=> In(mbox, "checkin", x)
      /\ \A x : In(mbox', "DOWN", x) => In(mbox, "DOWN", x) \/ x = w
      /\ \A x : In(mbox, "ping_done", x) => In(mbox', "ping_done", x)
      /\ \A x : Once(mbox, "checkin", x) => Once(mbox', "checkin", x)
  <2>1. CASE mbox' = mbox
    BY <2>1
  <2>2. CASE Posts(m)
    BY <1>1, <1>3, <2>2, PostsViews
  <2> QED  BY <1>2, <2>1, <2>2
<1>5. ASSUME NEW v \in Conns
      PROVE  LentOk(v)' /\ PlaceOk(v)'
  <2>1. LentOk(v) /\ PlaceOk(v)
    BY DEF ConnsInv
  <2>2. /\ \A c \in Callers : Holds(c, v)' <=> Holds(c, v)
        /\ Held(v)' <=> Held(v)
        /\ Outside(v)' <=> Outside(v)
    BY <1>2 DEF Holds, Held, Outside
  <2>3. LentOk(v)'
    BY <1>2, <1>4, <2>1, <2>2 DEF LentOk
  <2>4. PlaceOk(v)'
    BY <1>2, <1>4, <2>1, <2>2 DEF PlaceOk, Alive
  <2> QED  BY <2>3, <2>4
<1>6. Unique(pool.idle)'
  BY <1>2 DEF ConnsInv
<1> QED  BY <1>5, <1>6 DEF ConnsInv

\* The steps of a connection.
LEMMA ConnsConn ==
  ASSUME CallersInv, ConnsInv, NEW w \in Conns, Conn(w)
  PROVE  ConnsInv'
<1>1. Typed
  BY DEF CallersInv
<1>2. CASE Serve(w)
  <2>1. PICK ok \in BOOLEAN : Answer(w, Head(todo[w]), ok)
    BY <1>1, <1>2, ServeViews
  <2>2. Takes(w) /\ st' = st
    BY <1>1, <1>2, ServeViews
  <2>3. Head(todo[w]) \in Requests /\ UNCHANGED <<up, pool>>
    BY <1>1, <2>2, TakesViews
  <2> QED  BY <2>1, <2>2, <2>3, ConnsAnswer
<1>3. CASE Breaks(w)
  <2>1. /\ Takes(w) /\ Answer(w, Head(todo[w]), FALSE) /\ st'[w] = "closing"
        /\ \A v \in Conns : v # w => st'[v] = st[v]
    BY <1>1, <1>3, BreaksViews
  <2>2. Head(todo[w]) \in Requests /\ UNCHANGED <<up, pool>> /\ st[w] = "up"
    BY <1>1, <2>1, TakesViews
  <2>3. \A v \in Conns : st'[v] = st[v] \/ (st[v] = "up" /\ st'[v] = "closing")
    BY <2>1, <2>2
  <2> QED  BY <2>1, <2>2, <2>3, ConnsAnswer
<1>4. CASE Exits(w)
  BY <1>4, ConnsExits
<1>5. CASE PingTimeout(w)
  <2> DEFINE m == Msg("ping_done", w, FALSE)
  <2>1. m \in Messages /\ m.kind = "ping_done" /\ m.who = w
    BY DEF Msg, Messages, Kinds
  <2>2. UNCHANGED <<up, pool, st, cl>> /\ Posts(m) /\ pings' = pings \ {w}
    BY <1>5, <2>1 DEF PingTimeout, Tell, Posts, poolVars, connVars
  <2> HIDE DEF m
  <2>3. up => In(mbox', "ping_done", w)
    BY <1>1, <2>1, <2>2, PostsViews
  <2>4. \A v \in Conns : up /\ v \in pings => v \in pings' \/ In(mbox', "ping_done", v)
    BY <2>2, <2>3
  <2>5. \A c \in Callers : cl'[c].conn = cl[c].conn
    BY <2>2
  <2>6. mbox' = mbox \/ \E n : Posts(n) /\ n.kind \notin {"checkin", "DOWN"}
    BY <2>1, <2>2
  <2> QED  BY <2>2, <2>4, <2>5, <2>6, ConnsKept
<1> QED  BY <1>2, <1>3, <1>4, <1>5 DEF Conn

LEMMA ConnsTick ==
  ASSUME CallersInv, ConnsInv, Tick
  PROVE  ConnsInv'
<1> DEFINE m == Msg("maintenance", None, TRUE)
<1>1. m \in Messages /\ m.kind = "maintenance"
  BY DEF Msg, Messages, Kinds
<1>2. UNCHANGED <<up, pool, st, pings, cl>> /\ Posts(m)
  BY <1>1 DEF Tick, Tell, Posts, poolVars, connVars
<1> HIDE DEF m
<1>3. \A d \in Callers : cl'[d].conn = cl[d].conn
  BY <1>2
<1> QED  BY <1>1, <1>2, <1>3, ConnsKept

\* State p and processes ps leave connection v where it is, or end it.
Spared(v, p, ps) ==
  /\ ps[v] = st[v] \/ ps[v] = "dead"
  /\ v \in ToSet(p.idle) => v \in ToSet(pool.idle)
  /\ v \in p.checking => v \in pool.checking
  /\ v \in p.busy => v \in pool.busy
  /\ v \in p.mons => v \in pool.mons
  /\ ps[v] \in {"up", "closing"} =>
       /\ v \in pool.mons => v \in p.mons
       /\ v \in ToSet(pool.idle) => v \in ToSet(p.idle)
       /\ v \in pool.checking => v \in p.checking
       /\ v \in pool.busy => v \in p.busy

\* The mailbox keeps what is on its way about connection v, while v lives.
MailKept(v) ==
  /\ In(mbox', "checkin", v) => In(mbox, "checkin", v)
  /\ Once(mbox, "checkin", v) => Once(mbox', "checkin", v)
  /\ In(mbox', "DOWN", v) => In(mbox, "DOWN", v)
  /\ st'[v] \in {"up", "closing"} =>
       /\ In(mbox, "checkin", v) => In(mbox', "checkin", v)
       /\ In(mbox, "ping_done", v) /\ v \in pool.checking => In(mbox', "ping_done", v)
       /\ v \in pings => v \in pings'

LEMMA ConnSpared ==
  ASSUME ConnsInv, NEW v \in Conns, Spared(v, pool', st'), MailKept(v),
         \A c \in Callers : Holds(c, v)' <=> Holds(c, v),
         up' = up \/ st'[v] \notin {"up", "closing"}
  PROVE  LentOk(v)' /\ PlaceOk(v)'
<1>1. LentOk(v) /\ PlaceOk(v)
  BY DEF ConnsInv
<1>2. Held(v)' <=> Held(v)
  BY DEF Held
<1>3. Outside(v) => Outside(v)'
  BY DEF Outside, Spared
<1>4. LentOk(v)'
  <2>1. st'[v] = "none" => st[v] = "none"
    BY DEF Spared
  <2>2. In(mbox, "DOWN", v) => st'[v] = "dead"
    BY <1>1 DEF LentOk, Spared
  <2> QED  BY <1>1, <1>2, <1>3, <2>1, <2>2 DEF LentOk, Spared, MailKept
<1>5. PlaceOk(v)'
  <2> SUFFICES ASSUME st'[v] \in {"up", "closing"}
               PROVE  PlaceOk(v)'
    BY DEF PlaceOk, Alive
  <2>1. Alive(v) /\ up' = up
    BY DEF Alive, Spared
  <2> QED  BY <1>1, <1>2, <2>1 DEF PlaceOk, Spared, MailKept
<1> QED  BY <1>4, <1>5

\* A connection that a caller has just been lent.
LEMMA ConnLent ==
  ASSUME NEW v \in Conns, NEW c \in Callers, \A d \in Callers : Holds(d, v)' <=> d = c,
         up' = TRUE, st'[v] \in {"up", "closing"}, v \in pool'.mons, v \in pool'.busy,
         Outside(v)', ~In(mbox', "checkin", v), ~In(mbox', "DOWN", v)
  PROVE  LentOk(v)' /\ PlaceOk(v)'
<1>1. Held(v)'
  BY DEF Held
<1>2. Once(mbox', "checkin", v)
  BY DEF Once, In
<1>3. LentOk(v)'
  BY <1>1, <1>2 DEF LentOk, Outside
<1>4. PlaceOk(v)'
  BY <1>1 DEF PlaceOk
<1> QED  BY <1>3, <1>4

\* A connection that nobody holds and the manager has, idle or being checked.
LEMMA ConnHome ==
  ASSUME NEW v \in Conns, \A d \in Callers : ~Holds(d, v)',
         up' = TRUE, st'[v] # "none", v \in pool'.mons, v \notin pool'.busy,
         ~In(mbox', "checkin", v), In(mbox', "DOWN", v) => st'[v] = "dead",
         \/ v \in ToSet(pool'.idle) /\ v \notin pool'.checking
         \/ v \in pool'.checking /\ v \in pings' /\ v \notin ToSet(pool'.idle)
  PROVE  LentOk(v)' /\ PlaceOk(v)'
<1>1. ~Held(v)'
  BY DEF Held
<1>2. Once(mbox', "checkin", v)
  BY DEF Once, In
<1>3. LentOk(v)'
  BY <1>1, <1>2 DEF LentOk
<1>4. PlaceOk(v)'
  BY <1>1 DEF PlaceOk
<1> QED  BY <1>3, <1>4

\* A caller that waits is lent a connection nobody has.
LEMMA ConnsLend ==
  ASSUME CallersInv, ConnsInv, NEW c \in Callers, Waits(c), NEW w \in Conns, Lend(c, w),
         ~Held(w), Outside(w)', ~In(mbox', "checkin", w), ~In(mbox', "DOWN", w),
         st'[w] \in {"up", "closing"}, w \in pool'.mons, w \in pool'.busy,
         up, up' = up, Unique(pool'.idle),
         \A v \in Conns : v # w => Spared(v, pool', st') /\ MailKept(v)
  PROVE  ConnsInv'
<1>1. Typed
  BY DEF CallersInv
<1>2. \A d \in Callers : d # c => cl'[d] = cl[d]
  BY <1>1, LendViews
<1>3. cl'[c].conn = w /\ cl[c].conn = None
  BY <1>1, LendViews DEF Waits
<1>4. None \notin Conns
  BY PoolAssumption DEF Conns
<1>5. LentOk(w)' /\ PlaceOk(w)'
  <2>1. \A d \in Callers : Holds(d, w)' <=> d = c
    <3>1. \A d \in Callers : ~Holds(d, w)
      BY DEF Held
    <3> QED  BY <1>2, <1>3, <3>1 DEF Holds
  <2>2. up' = TRUE
    BY <1>1 DEF Typed
  <2> QED  BY <2>1, <2>2, ConnLent
<1>6. ASSUME NEW v \in Conns, v # w
      PROVE  LentOk(v)' /\ PlaceOk(v)'
  <2>1. \A d \in Callers : Holds(d, v)' <=> Holds(d, v)
    BY <1>2, <1>3, <1>4, <1>6 DEF Holds
  <2>2. Spared(v, pool', st') /\ MailKept(v)
    BY <1>6
  <2> QED  BY <2>1, <2>2, ConnSpared
<1>7. Unique(pool.idle)'
  OBVIOUS
<1> QED  BY <1>5, <1>6, <1>7 DEF ConnsInv

\* Every connection stays where it is, or ends.
LEMMA ConnsSpared ==
  ASSUME ConnsInv, Unique(pool'.idle), \A c \in Callers : cl'[c].conn = cl[c].conn,
         \A v \in Conns :
           /\ Spared(v, pool', st') /\ MailKept(v)
           /\ up' = up \/ st'[v] \notin {"up", "closing"}
  PROVE  ConnsInv'
<1>1. ASSUME NEW v \in Conns
      PROVE  LentOk(v)' /\ PlaceOk(v)'
  <2>1. \A d \in Callers : Holds(d, v)' <=> Holds(d, v)
    BY DEF Holds
  <2> QED  BY <2>1, ConnSpared
<1>2. Unique(pool.idle)'
  OBVIOUS
<1> QED  BY <1>1, <1>2 DEF ConnsInv

\* open_worker, after p and ps have spared the connections.
LEMMA ConnsOpenFor ==
  ASSUME CallersInv, ConnsInv, NEW p \in States,
         NEW ps \in [Conns -> {"none", "up", "closing", "dead"}],
         NEW c \in Callers, Waits(c), OpenFor(p, ps, c), Unique(p.idle), up, up' = up,
         \A v \in Conns : Spared(v, p, ps),
         \A v \in Conns : (st'[v] = ps[v] => MailKept(v)) /\ (st[v] = "none" => MailKept(v))
  PROVE  ConnsInv'
<1>1. Typed
  BY DEF CallersInv
<1>2. CASE pool' = p /\ st' = ps /\ Refused({c})
  <2>1. {c} \in SUBSET Callers /\ \A d \in {c} : Waits(d)
    OBVIOUS
  <2>2. \A d \in Callers : cl'[d].conn = cl[d].conn
    BY <1>1, <1>2, <2>1, RefusedViews
  <2> QED  BY <1>2, <2>2, ConnsSpared
<1>3. ASSUME NEW w \in Conns, st[w] = "none", Lend(c, w), st'[w] = "up",
             \A v \in Conns : v # w => st'[v] = ps[v],
             pool'.idle = p.idle, pool'.checking = p.checking,
             pool'.busy = p.busy \union {w}, pool'.mons = p.mons \union {w}
      PROVE  ConnsInv'
  <2>1. LentOk(w) /\ MailKept(w) /\ Spared(w, p, ps)
    BY <1>3 DEF ConnsInv
  <2>2. ~Held(w) /\ ~In(mbox', "checkin", w) /\ ~In(mbox', "DOWN", w)
    BY <1>3, <2>1 DEF LentOk, MailKept
  <2>3. Outside(w)'
    BY <1>3, <2>1 DEF LentOk, Outside, Spared
  <2>4. ASSUME NEW v \in Conns, v # w
        PROVE  Spared(v, pool', st') /\ MailKept(v)
    <3>1. st'[v] = ps[v]
      BY <1>3, <2>4
    <3>2. Spared(v, p, ps) /\ MailKept(v)
      BY <3>1
    <3>3. Spared(v, pool', st')
      BY <1>3, <2>4, <3>1, <3>2 DEF Spared
    <3> QED  BY <3>2, <3>3
  <2>5. Unique(pool'.idle) /\ w \in pool'.mons /\ w \in pool'.busy
        /\ st'[w] \in {"up", "closing"}
    BY <1>3
  <2> QED  BY <1>3, <2>2, <2>3, <2>4, <2>5, ConnsLend
<1>4. \/ pool' = p /\ st' = ps /\ Refused({c})
      \/ \E w \in Conns :
           /\ st[w] = "none" /\ Lend(c, w) /\ st'[w] = "up"
           /\ \A v \in Conns : v # w => st'[v] = ps[v]
           /\ pool'.idle = p.idle /\ pool'.checking = p.checking
           /\ pool'.busy = p.busy \union {w} /\ pool'.mons = p.mons \union {w}
  BY OpenForViews
<1> QED  BY <1>2, <1>3, <1>4, Zenon

LEMMA MailTaken ==
  ASSUME CallersInv, NEW kind, Receives(kind), NEW ws, Taken \/ Flush(ws), pings \subseteq pings',
         NEW v,
         st'[v] \in {"up", "closing"} /\ v = From =>
           kind # "checkin" /\ (kind = "ping_done" => v \notin pool.checking)
  PROVE  MailKept(v)
<1>1. /\ \A k, x : In(mbox', k, x) => In(mbox, k, x)
      /\ \A k, x : k # "DOWN" /\ In(mbox, k, x) => In(mbox', k, x) \/ (k = kind /\ x = From)
      /\ \A k, x : Once(mbox, k, x) => Once(mbox', k, x)
  BY TakenViews DEF CallersInv
<1> HIDE DEF Taken
<1> QED  BY <1>1 DEF MailKept

\* serve_waiter, after p and ps have spared the connections.
LEMMA ConnsServeWaiter ==
  ASSUME CallersInv, ConnsInv, NEW p \in States, p.waiters = pool.waiters,
         NEW ps \in [Conns -> {"none", "up", "closing", "dead"}],
         ServeWaiter(p, ps), Unique(p.idle), up, up' = up,
         \A v \in Conns : Spared(v, p, ps),
         \A v \in Conns : (st'[v] = ps[v] => MailKept(v)) /\ (st[v] = "none" => MailKept(v))
  PROVE  ConnsInv'
<1>1. CASE pool' = p /\ st' = ps /\ UNCHANGED cl
  <2>1. \A d \in Callers : cl'[d].conn = cl[d].conn
    BY <1>1
  <2> QED  BY <1>1, <2>1, ConnsSpared
<1>2. ASSUME p.waiters # <<>>, NEW q \in States, q.idle = p.idle, q.busy = p.busy, q.mons = p.mons,
             q.checking = p.checking, OpenFor(q, ps, Head(p.waiters))
      PROVE  ConnsInv'
  <2> DEFINE c == Head(pool.waiters)
  <2>1. c \in Callers /\ Waits(c) /\ OpenFor(q, ps, c)
    BY <1>2, OldestWaits
  <2> HIDE DEF c
  <2>2. \A v \in Conns : Spared(v, q, ps)
    BY <1>2 DEF Spared
  <2>3. Unique(q.idle)
    BY <1>2
  <2> QED  BY <2>1, <2>2, <2>3, ConnsOpenFor
<1>3. \/ pool' = p /\ st' = ps /\ UNCHANGED cl
      \/ /\ p.waiters # <<>>
         /\ \E q \in States :
              /\ q.idle = p.idle /\ q.busy = p.busy /\ q.mons = p.mons
              /\ q.checking = p.checking /\ OpenFor(q, ps, Head(p.waiters))
  BY ServeWaiterViews
<1> QED  BY <1>1, <1>2, <1>3, Zenon

LEMMA ConnsHandleCheckout ==
  ASSUME CallersInv, ConnsInv, HandleCheckout
  PROVE  ConnsInv'
<1> DEFINE c == From
<1>1. Typed
  BY DEF CallersInv
<1>2. Receives("checkout") /\ Taken /\ UNCHANGED <<up, suspect, todo, session, pings>>
  BY <1>1, HandleCheckoutCases
<1>3. c \in Callers /\ Waits(c) /\ up
  BY <1>2, AskerWaits
<1>4. \A v \in Conns : MailKept(v)
  BY <1>2, MailTaken
<1>5. /\ \A x : In(mbox', "checkin", x) => In(mbox, "checkin", x)
      /\ \A x : In(mbox', "DOWN", x) => In(mbox, "DOWN", x)
  BY <1>1, <1>2, TakenViews
<1> HIDE DEF Taken, c
<1>6. ASSUME NEW w \in ToSet(pool.idle), Alive(w), Lend(c, w), w \in Conns,
             UNCHANGED st, pool'.busy = pool.busy \union {w}, pool'.mons = pool.mons,
             pool'.checking = pool.checking,
             ToSet(pool'.idle) \subseteq ToSet(pool.idle),
             \A v \in ToSet(pool.idle) : Alive(v) => v = w \/ v \in ToSet(pool'.idle),
             Unique(pool.idle) => Unique(pool'.idle) /\ w \notin ToSet(pool'.idle)
      PROVE  ConnsInv'
  <2>1. LentOk(w) /\ PlaceOk(w) /\ Unique(pool.idle)
    BY <1>6 DEF ConnsInv
  <2>2. /\ ~Held(w) /\ ~In(mbox', "checkin", w) /\ ~In(mbox', "DOWN", w)
        /\ Outside(w)'
    BY <1>5, <1>6, <2>1 DEF LentOk, Outside, Alive
  <2>3. st'[w] \in {"up", "closing"} /\ w \in pool'.mons /\ w \in pool'.busy
    BY <1>6, <2>1 DEF PlaceOk, Alive
  <2>4. ASSUME NEW v \in Conns, v # w
        PROVE  Spared(v, pool', st') /\ MailKept(v)
    BY <1>4, <1>6, <2>4 DEF Spared, Alive
  <2> QED  BY <1>2, <1>3, <1>6, <2>1, <2>2, <2>3, <2>4, ConnsLend
<1>7. ASSUME \A v \in ToSet(pool.idle) : ~Alive(v), NEW none \in States, none.idle = <<>>,
             none.busy = pool.busy, none.mons = pool.mons, none.checking = pool.checking
      PROVE  \A v \in Conns : Spared(v, none, st)
  <2>1. ToSet(none.idle) = {}
    BY <1>7 DEF ToSet
  <2> QED  BY <1>7, <2>1 DEF Spared, Alive
<1>8. ASSUME \A v \in ToSet(pool.idle) : ~Alive(v), NEW none \in States, none.idle = <<>>,
             none.busy = pool.busy, none.mons = pool.mons, none.checking = pool.checking,
             \/ OpenFor(none, st, c)
             \/ UNCHANGED <<st, cl>> /\ pool' = [none EXCEPT !.waiters = Append(@, c)]
             \/ pool' = none /\ Refused({c}) /\ UNCHANGED st
      PROVE  ConnsInv'
  <2>1. \A v \in Conns : Spared(v, none, st)
    BY <1>7, <1>8
  <2>2. st \in [Conns -> {"none", "up", "closing", "dead"}]
    BY <1>1 DEF Typed, ConnsTyped
  <2>3. Unique(none.idle)
    BY <1>8 DEF Unique
  <2>4. CASE OpenFor(none, st, c)
    BY <1>2, <1>3, <1>4, <2>1, <2>2, <2>3, <2>4, ConnsOpenFor
  <2>5. CASE UNCHANGED <<st, cl>> /\ pool' = [none EXCEPT !.waiters = Append(@, c)]
    <3>1. /\ pool'.idle = none.idle /\ pool'.busy = none.busy /\ pool'.mons = none.mons
          /\ pool'.checking = none.checking
      BY <2>5 DEF States
    <3>2. \A v \in Conns : Spared(v, pool', st')
      BY <2>1, <2>5, <3>1 DEF Spared
    <3>3. \A d \in Callers : cl'[d].conn = cl[d].conn
      BY <2>5
    <3>4. Unique(pool'.idle)
      BY <2>3, <3>1
    <3> QED  BY <1>2, <1>4, <3>2, <3>3, <3>4, ConnsSpared
  <2>6. CASE pool' = none /\ Refused({c}) /\ UNCHANGED st
    <3>1. {c} \in SUBSET Callers /\ \A d \in {c} : Waits(d)
      BY <1>3
    <3>2. \A d \in Callers : cl'[d].conn = cl[d].conn
      BY <1>1, <2>6, <3>1, RefusedViews
    <3>3. \A v \in Conns : Spared(v, pool', st')
      BY <2>1, <2>6
    <3>4. Unique(pool'.idle)
      BY <2>3, <2>6
    <3> QED  BY <1>2, <1>4, <3>2, <3>3, <3>4, ConnsSpared
  <2> QED  BY <1>8, <2>4, <2>5, <2>6
<1>9. \/ \E w \in ToSet(pool.idle) :
           /\ Alive(w) /\ Lend(c, w) /\ w \in Conns
           /\ UNCHANGED st /\ pool'.busy = pool.busy \union {w} /\ pool'.mons = pool.mons
           /\ pool'.checking = pool.checking
           /\ ToSet(pool'.idle) \subseteq ToSet(pool.idle)
           /\ \A v \in ToSet(pool.idle) : Alive(v) => v = w \/ v \in ToSet(pool'.idle)
           /\ Unique(pool.idle) => Unique(pool'.idle) /\ w \notin ToSet(pool'.idle)
      \/ /\ \A v \in ToSet(pool.idle) : ~Alive(v)
         /\ \E none \in States :
              /\ none.idle = <<>> /\ none.busy = pool.busy /\ none.mons = pool.mons
              /\ none.checking = pool.checking
              /\ \/ OpenFor(none, st, c)
                 \/ UNCHANGED <<st, cl>> /\ pool' = [none EXCEPT !.waiters = Append(@, c)]
                 \/ pool' = none /\ Refused({c}) /\ UNCHANGED st
  <2>1. Typed /\ HandleCheckout
    BY <1>1
  <2> QED  BY <2>1, HandleCheckoutCases DEF c
<1>10. CASE \E w \in ToSet(pool.idle) :
              /\ Alive(w) /\ Lend(c, w) /\ w \in Conns
              /\ UNCHANGED st /\ pool'.busy = pool.busy \union {w} /\ pool'.mons = pool.mons
              /\ pool'.checking = pool.checking
              /\ ToSet(pool'.idle) \subseteq ToSet(pool.idle)
              /\ \A v \in ToSet(pool.idle) : Alive(v) => v = w \/ v \in ToSet(pool'.idle)
              /\ Unique(pool.idle) => Unique(pool'.idle) /\ w \notin ToSet(pool'.idle)
  BY <1>6, <1>10
<1>11. CASE /\ \A v \in ToSet(pool.idle) : ~Alive(v)
            /\ \E none \in States :
                 /\ none.idle = <<>> /\ none.busy = pool.busy /\ none.mons = pool.mons
                 /\ none.checking = pool.checking
                 /\ \/ OpenFor(none, st, c)
                    \/ UNCHANGED <<st, cl>> /\ pool' = [none EXCEPT !.waiters = Append(@, c)]
                    \/ pool' = none /\ Refused({c}) /\ UNCHANGED st
  BY <1>8, <1>11
<1> QED  BY <1>9, <1>10, <1>11, Zenon

\* retire spares the connections it does not end.
LEMMA SparedRetired ==
  ASSUME Typed, ConnsInv, NEW ws, NEW p \in States, p.idle = pool.idle, p.busy = pool.busy,
         p.mons = pool.mons, p.checking \subseteq pool.checking,
         pool.checking \ p.checking \subseteq ws, NEW ps,
         ps = Killed(ws) \/ (ps = st /\ \A w \in Conns : w \in ws => ~Alive(w)), NEW v \in Conns
  PROVE  Spared(v, Retired(p, ws), ps)
<1> DEFINE r == Retired(p, ws)
<1>1. /\ r.busy = pool.busy \ ws /\ r.mons = pool.mons \ ws /\ r.checking = p.checking \ ws
      /\ ToSet(r.idle) = ToSet(pool.idle) \ ws
  BY RetiredViews
<1> HIDE DEF r
<1>2. PlaceOk(v)
  BY DEF ConnsInv
<1>3. ps[v] = st[v] \/ ps[v] = "dead"
  BY KilledTyped
<1>4. v \in ws => ps[v] \notin {"up", "closing"}
  BY <1>2, KilledTyped DEF PlaceOk, Alive
<1>5. Spared(v, r, ps)
  BY <1>1, <1>3, <1>4 DEF Spared
<1> QED  BY <1>5 DEF r

LEMMA ConnsHandleDown ==
  ASSUME CallersInv, ConnsInv, HandleDown
  PROVE  ConnsInv'
<1> DEFINE w == From
<1>1. Typed /\ pool \in States /\ st \in [Conns -> {"none", "up", "closing", "dead"}]
  BY DEF CallersInv, Typed, ConnsTyped
<1>2. /\ Receives("DOWN") /\ Taken /\ UNCHANGED <<up, pings>>
      /\ ServeWaiter(Retired(pool, {w}), st)
  BY DEF HandleDown, Quiet
<1>3. up /\ In(mbox, "DOWN", w)
  BY <1>1, <1>2, TakenViews
<1>4. \A v \in Conns : MailKept(v)
  BY <1>2, MailTaken
<1> HIDE DEF w, Taken
<1>5. \A v \in Conns : v \in {w} => ~Alive(v)
  BY <1>3 DEF ConnsInv, LentOk, Alive
<1>6. Retired(pool, {w}) \in States /\ Retired(pool, {w}).waiters = pool.waiters
      /\ Unique(Retired(pool, {w}).idle)
  BY <1>1, RetiredViews DEF ConnsInv
<1>7. \A v \in Conns : Spared(v, Retired(pool, {w}), st)
  BY <1>1, <1>5, SparedRetired
<1> QED  BY <1>1, <1>2, <1>3, <1>4, <1>6, <1>7, ConnsServeWaiter

LEMMA ConnsWaiterTimeout ==
  ASSUME CallersInv, ConnsInv, WaiterTimeout
  PROVE  ConnsInv'
<1>1. Typed
  BY DEF CallersInv
<1>2. Receives("waiter_timeout") /\ Taken /\ UNCHANGED <<up, connVars, pings>>
  BY <1>1, WaiterTimeoutCases
<1>3. \A v \in Conns : MailKept(v)
  BY <1>2, MailTaken
<1> HIDE DEF Taken
<1>4. ASSUME pool'.idle = pool.idle, pool'.busy = pool.busy, pool'.mons = pool.mons,
             pool'.checking = pool.checking, \A d \in Callers : cl'[d].conn = cl[d].conn
      PROVE  ConnsInv'
  <2>1. \A v \in Conns : Spared(v, pool', st')
    BY <1>2, <1>4 DEF Spared, connVars
  <2>2. Unique(pool'.idle)
    BY <1>4 DEF ConnsInv
  <2> QED  BY <1>2, <1>3, <1>4, <2>1, <2>2, ConnsSpared
<1>5. CASE UNCHANGED <<pool, cl>>
  BY <1>4, <1>5
<1>6. CASE /\ From \in Parked /\ Refused({From})
           /\ pool'.idle = pool.idle /\ pool'.busy = pool.busy
           /\ pool'.mons = pool.mons /\ pool'.checking = pool.checking
  <2>1. {From} \in SUBSET Callers /\ \A d \in {From} : Waits(d)
    <3>1. From \in Callers
      BY <1>1, <1>6 DEF Parked, Typed, States, ToSet
    <3> QED  BY <1>6, <3>1 DEF CallersInv, Asking
  <2>2. \A d \in Callers : cl'[d].conn = cl[d].conn
    BY <1>1, <1>6, <2>1, RefusedViews
  <2> QED  BY <1>4, <1>6, <2>2
<1> QED  BY <1>1, <1>5, <1>6, WaiterTimeoutCases

\* A connection that is free again goes to the oldest waiter.
LEMMA ConnsHandOver ==
  ASSUME CallersInv, ConnsInv, NEW w \in Conns, pool.waiters # <<>>, HandOver(w), Alive(w),
         st' = st, up, up' = up, ~Held(w), w \notin ToSet(pool.idle),
         ~In(mbox', "checkin", w), ~In(mbox', "DOWN", w),
         \A v \in Conns : v # w => MailKept(v)
  PROVE  ConnsInv'
<1> DEFINE c == Head(pool.waiters)
<1>1. Typed /\ LentOk(w) /\ PlaceOk(w)
  BY DEF CallersInv, ConnsInv
<1>2. c \in Callers /\ Waits(c)
  BY OldestWaits
<1>3. /\ Lend(c, w) /\ pool'.idle = pool.idle /\ pool'.mons = pool.mons
      /\ pool'.busy = pool.busy \union {w} /\ pool'.checking = pool.checking \ {w}
  BY <1>1, HandOverViews
<1> HIDE DEF c
<1>4. Outside(w)' /\ w \in pool'.mons /\ w \in pool'.busy
      /\ st'[w] \in {"up", "closing"} /\ Unique(pool'.idle)
  BY <1>1, <1>3 DEF Outside, PlaceOk, Alive, ConnsInv
<1>5. ASSUME NEW v \in Conns, v # w
      PROVE  Spared(v, pool', st') /\ MailKept(v)
  BY <1>3, <1>5 DEF Spared
<1> QED  BY <1>2, <1>3, <1>4, <1>5, ConnsLend

\* A connection joins the manager's, and the others stay where they are.
LEMMA ConnsGoesHome ==
  ASSUME CallersInv, ConnsInv, NEW w \in Conns, Alive(w), UNCHANGED <<st, cl>>, up, up' = up,
         ~Held(w), ~In(mbox', "checkin", w), ~In(mbox', "DOWN", w),
         w \notin ToSet(pool.idle),
         ToSet(pool'.idle) = ToSet(pool.idle) \union {w}, Unique(pool'.idle),
         pool'.checking = pool.checking \ {w}, pool'.mons = pool.mons,
         pool'.busy = pool.busy \ {w},
         \A v \in Conns : v # w => MailKept(v)
  PROVE  ConnsInv'
<1>1. LentOk(w) /\ PlaceOk(w)
  BY DEF ConnsInv
<1>2. \A d \in Callers, v \in Conns : Holds(d, v)' <=> Holds(d, v)
  BY DEF Holds
<1>3. LentOk(w)' /\ PlaceOk(w)'
  <2>1. up' = TRUE /\ st'[w] # "none" /\ w \in pool'.mons
    BY <1>1 DEF CallersInv, Typed, PlaceOk, Alive
  <2>2. \A d \in Callers : ~Holds(d, w)'
    BY <1>2 DEF Held
  <2> QED  BY <2>1, <2>2, ConnHome
<1>4. ASSUME NEW v \in Conns, v # w
      PROVE  LentOk(v)' /\ PlaceOk(v)'
  <2>1. Spared(v, pool', st')
    BY <1>4 DEF Spared
  <2> QED  BY <1>2, <1>4, <2>1, ConnSpared
<1> QED  BY <1>3, <1>4 DEF ConnsInv

LEMMA ConnsHandleCheckin ==
  ASSUME CallersInv, ConnsInv, HandleCheckin
  PROVE  ConnsInv'
<1> DEFINE w == From
<1>1. Typed /\ pool \in States
  BY DEF CallersInv, Typed
<1>2. Receives("checkin") /\ w \in Conns /\ UNCHANGED <<up, pings>> /\ (Taken \/ Flush({w}))
  BY <1>1, HandleCheckinCases
<1>3. up /\ In(mbox, "checkin", w)
  BY <1>1, <1>2, TakenViews
<1>4. LentOk(w) /\ PlaceOk(w)
  BY <1>2 DEF ConnsInv
<1>5. ~Held(w) /\ Outside(w) /\ Once(mbox, "checkin", w)
  BY <1>3, <1>4 DEF LentOk
<1>6. ~In(mbox', "checkin", w) /\ (In(mbox', "DOWN", w) => ~Alive(w))
  BY <1>1, <1>2, <1>4, <1>5, TakenViews DEF LentOk, Alive
<1>7. ASSUME NEW v \in Conns, v # w \/ st'[v] \notin {"up", "closing"}
      PROVE  MailKept(v)
  BY <1>2, <1>7, MailTaken
<1> HIDE DEF w, Taken
<1>8. CASE w \notin pool.busy /\ UNCHANGED <<connVars, pool, cl>>
  <2>1. st'[w] \notin {"up", "closing"}
    BY <1>4, <1>5, <1>8 DEF PlaceOk, Alive, Outside, connVars
  <2>2. \A v \in Conns : Spared(v, pool', st') /\ MailKept(v)
    BY <1>7, <1>8, <2>1 DEF Spared, connVars
  <2>3. Unique(pool'.idle) /\ \A c \in Callers : cl'[c].conn = cl[c].conn
    BY <1>8 DEF ConnsInv
  <2> QED  BY <1>2, <2>2, <2>3, ConnsSpared
<1>9. CASE Alive(w) /\ pool.waiters # <<>> /\ HandOver(w) /\ UNCHANGED connVars
  BY <1>2, <1>3, <1>5, <1>6, <1>7, <1>9, ConnsHandOver DEF connVars, Outside
<1>10. CASE /\ ~Alive(w) /\ UNCHANGED <<connVars, cl>> /\ pool'.idle = pool.idle
            /\ pool'.checking = pool.checking /\ pool'.mons = pool.mons
            /\ pool'.busy = pool.busy \ {w}
  <2>1. \A v \in Conns : Spared(v, pool', st') /\ MailKept(v)
    BY <1>7, <1>10 DEF Spared, connVars, Alive
  <2>2. Unique(pool'.idle) /\ \A c \in Callers : cl'[c].conn = cl[c].conn
    BY <1>10 DEF ConnsInv
  <2> QED  BY <1>2, <2>1, <2>2, ConnsSpared
<1>11. CASE /\ Alive(w) /\ UNCHANGED <<connVars, cl>>
            /\ ToSet(pool'.idle) = ToSet(pool.idle) \union {w}
            /\ Unique(pool.idle) /\ w \notin ToSet(pool.idle) => Unique(pool'.idle)
            /\ pool'.checking = pool.checking /\ pool'.mons = pool.mons
            /\ pool'.busy = pool.busy \ {w}
  <2>1. w \notin ToSet(pool.idle) /\ Unique(pool'.idle) /\ pool'.checking = pool.checking \ {w}
    BY <1>5, <1>11 DEF Outside, ConnsInv
  <2>2. UNCHANGED <<st, cl>>
    BY <1>11 DEF connVars
  <2> QED  BY <1>2, <1>3, <1>5, <1>6, <1>7, <1>11, <2>1, <2>2, ConnsGoesHome
<1>12. CASE pool' = Retired(pool, {w}) /\ st' = Killed({w}) /\ UNCHANGED cl
  <2>1. \A v \in Conns : Spared(v, pool', st')
    BY <1>1, <1>12, SparedRetired
  <2>2. st'[w] \notin {"up", "closing"}
    BY <1>1, <1>2, <1>4, <1>12, KilledTyped DEF PlaceOk, Alive
  <2>3. Unique(pool'.idle) /\ \A c \in Callers : cl'[c].conn = cl[c].conn
    BY <1>1, <1>12, RetiredViews DEF ConnsInv
  <2> QED  BY <1>2, <1>7, <2>1, <2>2, <2>3, ConnsSpared
<1>13. \/ w \notin pool.busy /\ UNCHANGED <<connVars, pool, cl>>
       \/ Alive(w) /\ pool.waiters # <<>> /\ HandOver(w) /\ UNCHANGED connVars
       \/ /\ ~Alive(w) /\ UNCHANGED <<connVars, cl>> /\ pool'.idle = pool.idle
          /\ pool'.checking = pool.checking /\ pool'.mons = pool.mons
          /\ pool'.busy = pool.busy \ {w}
       \/ /\ Alive(w) /\ UNCHANGED <<connVars, cl>>
          /\ ToSet(pool'.idle) = ToSet(pool.idle) \union {w}
          /\ Unique(pool.idle) /\ w \notin ToSet(pool.idle) => Unique(pool'.idle)
          /\ pool'.checking = pool.checking /\ pool'.mons = pool.mons
          /\ pool'.busy = pool.busy \ {w}
       \/ pool' = Retired(pool, {w}) /\ st' = Killed({w}) /\ UNCHANGED cl
  BY <1>1, HandleCheckinCases DEF w
<1> QED  BY <1>8, <1>9, <1>10, <1>11, <1>12, <1>13

LEMMA ConnsMaintenance ==
  ASSUME CallersInv, ConnsInv, Maintenance
  PROVE  ConnsInv'
<1>1. Typed
  BY DEF CallersInv
<1>2. Receives("maintenance") /\ UNCHANGED <<up, cl>>
  BY <1>1, MaintenanceViews
<1>3. ASSUME NEW retired \in SUBSET ToSet(pool.idle), NEW pinged \in SUBSET ToSet(pool.idle),
             retired \intersect pinged = {},
             ToSet(pool'.idle) = ToSet(pool.idle) \ (retired \union pinged),
             Unique(pool.idle) => Unique(pool'.idle),
             pool'.busy = pool.busy \ retired, pool'.mons = pool.mons \ retired,
             pool'.checking = (pool.checking \ retired) \union pinged,
             pings' = pings \union pinged, st' = Killed(retired), Flush(retired)
      PROVE  ConnsInv'
  <2>1. up /\ \A x : /\ In(mbox', "checkin", x) => In(mbox, "checkin", x)
                     /\ In(mbox', "DOWN", x) => In(mbox, "DOWN", x)
    BY <1>1, <1>2, <1>3, TakenViews
  <2>2. \A v \in Conns : MailKept(v)
    BY <1>2, <1>3, MailTaken
  <2>3. \A d \in Callers, v \in Conns : Holds(d, v)' <=> Holds(d, v)
    BY <1>2 DEF Holds
  <2>4. ASSUME NEW v \in Conns
        PROVE  LentOk(v) /\ PlaceOk(v)
               /\ st'[v] = (IF v \in retired \intersect pool.mons THEN "dead" ELSE st[v])
    BY <1>1, <1>3, KilledTyped DEF ConnsInv
  <2>5. ASSUME NEW v \in Conns, v \in pinged, Alive(v)
        PROVE  LentOk(v)' /\ PlaceOk(v)'
    <3>1. LentOk(v) /\ PlaceOk(v) /\ st'[v] = st[v]
      BY <1>3, <2>4, <2>5
    <3>2. /\ \A d \in Callers : ~Holds(d, v)'
          /\ v \notin pool'.busy /\ ~In(mbox', "checkin", v) /\ ~In(mbox', "DOWN", v)
      BY <1>3, <2>1, <2>3, <2>5, <3>1 DEF LentOk, Held, Outside, Alive
    <3>3. v \in pool'.checking /\ v \in pings' /\ v \notin ToSet(pool'.idle)
      BY <1>3, <2>5
    <3>4. up' = TRUE /\ st'[v] # "none" /\ v \in pool'.mons
      BY <1>1, <1>2, <1>3, <2>1, <2>5, <3>1 DEF PlaceOk, Alive, Typed
    <3> QED  BY <3>2, <3>3, <3>4, ConnHome
  <2>6. ASSUME NEW v \in Conns, v \in pinged, ~Alive(v)
        PROVE  LentOk(v)' /\ PlaceOk(v)'
    <3>1. LentOk(v) /\ st'[v] = st[v] /\ Once(mbox', "checkin", v)
      BY <1>3, <2>2, <2>4, <2>6 DEF LentOk, MailKept
    <3>2. ~Held(v)' /\ ~In(mbox', "checkin", v) /\ v \notin pool'.busy
      BY <1>3, <2>1, <2>3, <2>6, <3>1 DEF LentOk, Held, Outside
    <3>3. v \notin ToSet(pool'.idle) /\ st'[v] # "none" /\ (In(mbox', "DOWN", v) => st'[v] = "dead")
      BY <1>3, <2>1, <2>6, <3>1 DEF LentOk, Outside
    <3>4. \A c, d \in Callers : Holds(c, v)' /\ Holds(d, v)' => c = d
      BY <2>3, <3>1 DEF LentOk
    <3>5. LentOk(v)'
      BY <3>1, <3>2, <3>3, <3>4 DEF LentOk
    <3>6. PlaceOk(v)'
      BY <2>6, <3>1 DEF PlaceOk, Alive
    <3> QED  BY <3>5, <3>6
  <2>7. ASSUME NEW v \in Conns, v \notin pinged
        PROVE  LentOk(v)' /\ PlaceOk(v)'
    <3>1. Spared(v, pool', st')
      BY <1>3, <2>4, <2>7 DEF Spared, PlaceOk, Alive
    <3> QED  BY <1>2, <2>2, <2>3, <3>1, ConnSpared
  <2>8. Unique(pool.idle)'
    BY <1>3 DEF ConnsInv
  <2> QED  BY <2>5, <2>6, <2>7, <2>8 DEF ConnsInv
<1>4. \E retired, pinged \in SUBSET ToSet(pool.idle) :
        /\ retired \intersect pinged = {}
        /\ ToSet(pool'.idle) = ToSet(pool.idle) \ (retired \union pinged)
        /\ Unique(pool.idle) => Unique(pool'.idle)
        /\ pool'.busy = pool.busy \ retired /\ pool'.mons = pool.mons \ retired
        /\ pool'.checking = (pool.checking \ retired) \union pinged
        /\ pings' = pings \union pinged /\ st' = Killed(retired) /\ Flush(retired)
  BY <1>1, MaintenanceViews
<1> QED  BY <1>3, <1>4, Zenon

LEMMA ConnsPingDone ==
  ASSUME CallersInv, ConnsInv, PingDone
  PROVE  ConnsInv'
<1> DEFINE w == From
<1>1. Typed /\ pool \in States
  BY DEF CallersInv, Typed
<1>2. Receives("ping_done") /\ w \in Conns /\ UNCHANGED <<up, pings>> /\ (Taken \/ Flush({w}))
  BY <1>1, PingDoneCases
<1>3. up /\ (In(mbox', "checkin", w) => In(mbox, "checkin", w))
      /\ (In(mbox', "DOWN", w) => In(mbox, "DOWN", w))
  BY <1>1, <1>2, TakenViews
<1>4. LentOk(w) /\ PlaceOk(w) /\ Unique(pool.idle)
  BY <1>2 DEF ConnsInv
<1>5. w \in pool.checking =>
        /\ ~Held(w) /\ ~In(mbox', "checkin", w) /\ w \notin ToSet(pool.idle)
        /\ w \notin pool.busy /\ st[w] # "none"
        /\ In(mbox', "DOWN", w) => ~Alive(w)
  BY <1>3, <1>4 DEF LentOk, Outside, Alive
<1>6. ASSUME NEW v \in Conns, v # w \/ st'[v] \notin {"up", "closing"} \/ w \notin pool.checking
      PROVE  MailKept(v)
  BY <1>2, <1>6, MailTaken
<1> HIDE DEF w, Taken
<1>7. CASE w \notin pool.checking /\ UNCHANGED <<connVars, pool, cl>>
  <2>1. \A v \in Conns : Spared(v, pool', st') /\ MailKept(v)
    BY <1>6, <1>7 DEF Spared, connVars
  <2>2. Unique(pool'.idle) /\ \A c \in Callers : cl'[c].conn = cl[c].conn
    BY <1>4, <1>7
  <2> QED  BY <1>2, <2>1, <2>2, ConnsSpared
<1>8. CASE w \in pool.checking /\ Alive(w) /\ pool.waiters # <<>> /\ HandOver(w) /\ UNCHANGED connVars
  BY <1>2, <1>3, <1>5, <1>6, <1>8, ConnsHandOver DEF connVars
<1>9. CASE /\ w \in pool.checking /\ ~Alive(w) /\ UNCHANGED <<connVars, cl>>
           /\ pool'.idle = pool.idle /\ pool'.checking = pool.checking \ {w}
           /\ pool'.mons = pool.mons /\ pool'.busy = pool.busy
  <2>1. \A v \in Conns : Spared(v, pool', st') /\ MailKept(v)
    BY <1>6, <1>9 DEF Spared, connVars, Alive
  <2>2. Unique(pool'.idle) /\ \A c \in Callers : cl'[c].conn = cl[c].conn
    BY <1>4, <1>9
  <2> QED  BY <1>2, <2>1, <2>2, ConnsSpared
<1>10. CASE /\ w \in pool.checking /\ Alive(w) /\ UNCHANGED <<connVars, cl>>
            /\ ToSet(pool'.idle) = ToSet(pool.idle) \union {w}
            /\ Unique(pool.idle) /\ w \notin ToSet(pool.idle) => Unique(pool'.idle)
            /\ pool'.checking = pool.checking \ {w} /\ pool'.mons = pool.mons
            /\ pool'.busy = pool.busy
  <2>1. Unique(pool'.idle) /\ pool'.busy = pool.busy \ {w}
    BY <1>4, <1>5, <1>10
  <2>2. UNCHANGED <<st, cl>>
    BY <1>10 DEF connVars
  <2> QED  BY <1>2, <1>3, <1>5, <1>6, <1>10, <2>1, <2>2, ConnsGoesHome
<1>11. ASSUME w \in pool.checking, NEW p \in States, p.idle = pool.idle,
              p.waiters = pool.waiters, p.busy = pool.busy, p.mons = pool.mons,
              p.checking = pool.checking \ {w},
              ServeWaiter(Retired(p, {w}), Killed({w}))
       PROVE  ConnsInv'
  <2> DEFINE r == Retired(p, {w})
            ps == Killed({w})
  <2>1. /\ r \in States /\ r.waiters = pool.waiters /\ Unique(r.idle)
        /\ ps \in [Conns -> {"none", "up", "closing", "dead"}]
    BY <1>1, <1>4, <1>11, RetiredViews, KilledTyped
  <2>2. \A v \in Conns : Spared(v, r, ps)
    BY <1>1, <1>11, SparedRetired
  <2>3. ps[w] \notin {"up", "closing"}
    BY <1>1, <1>2, <1>4, KilledTyped DEF PlaceOk, Alive
  <2>4. ServeWaiter(r, ps)
    BY <1>11
  <2> HIDE DEF r, ps
  <2>5. \A v \in Conns : (st'[v] = ps[v] => MailKept(v)) /\ (st[v] = "none" => MailKept(v))
    BY <1>5, <1>6, <1>11, <2>3
  <2> QED  BY <1>2, <1>3, <2>1, <2>2, <2>4, <2>5, ConnsServeWaiter
<1>12. \/ w \notin pool.checking /\ UNCHANGED <<connVars, pool, cl>>
       \/ w \in pool.checking /\ Alive(w) /\ pool.waiters # <<>> /\ HandOver(w) /\ UNCHANGED connVars
       \/ /\ w \in pool.checking /\ UNCHANGED <<connVars, cl>>
          /\ pool'.checking = pool.checking \ {w}
          /\ pool'.mons = pool.mons /\ pool'.busy = pool.busy
          /\ \/ ~(w \in pool.mons /\ Alive(w)) /\ pool'.idle = pool.idle
             \/ /\ Alive(w) /\ ToSet(pool'.idle) = ToSet(pool.idle) \union {w}
                /\ Unique(pool.idle) /\ w \notin ToSet(pool.idle) => Unique(pool'.idle)
       \/ /\ w \in pool.checking
          /\ \E p \in States :
               /\ p.idle = pool.idle /\ p.waiters = pool.waiters /\ p.busy = pool.busy
               /\ p.mons = pool.mons /\ p.checking = pool.checking \ {w}
               /\ ServeWaiter(Retired(p, {w}), Killed({w}))
  BY <1>1, PingDoneCases DEF w
<1>13. CASE /\ w \in pool.checking
            /\ \E p \in States :
                 /\ p.idle = pool.idle /\ p.waiters = pool.waiters /\ p.busy = pool.busy
                 /\ p.mons = pool.mons /\ p.checking = pool.checking \ {w}
                 /\ ServeWaiter(Retired(p, {w}), Killed({w}))
  BY <1>11, <1>13
<1>14. CASE /\ w \in pool.checking /\ UNCHANGED <<connVars, cl>>
            /\ pool'.checking = pool.checking \ {w}
            /\ pool'.mons = pool.mons /\ pool'.busy = pool.busy
            /\ \/ ~(w \in pool.mons /\ Alive(w)) /\ pool'.idle = pool.idle
               \/ /\ Alive(w) /\ ToSet(pool'.idle) = ToSet(pool.idle) \union {w}
                  /\ Unique(pool.idle) /\ w \notin ToSet(pool.idle) => Unique(pool'.idle)
  BY <1>4, <1>9, <1>10, <1>14 DEF PlaceOk
<1> QED  BY <1>7, <1>8, <1>12, <1>13, <1>14, Zenon

LEMMA ConnsClose ==
  ASSUME CallersInv, ConnsInv, Close
  PROVE  ConnsInv'
<1>1. /\ up' = FALSE /\ mbox' = <<>> /\ st' = Killed(pool.mons)
      /\ pool'.idle = <<>> /\ pool'.busy = {} /\ pool'.mons = {} /\ pool'.checking = {}
      /\ \A d \in Callers : cl'[d].conn = cl[d].conn
  BY CloseViews
<1>2. Typed /\ Unique(pool'.idle) /\ ToSet(pool'.idle) = {}
  BY <1>1 DEF CallersInv, Unique, ToSet
<1>3. ASSUME NEW v \in Conns
      PROVE  st'[v] \notin {"up", "closing"} /\ (st'[v] = st[v] \/ st'[v] = "dead")
  BY <1>1, <1>2, KilledTyped DEF ConnsInv, PlaceOk, Alive
<1>4. \A k, x : ~In(mbox', k, x) /\ Once(mbox', k, x)
  BY <1>1 DEF In, Once
<1>5. \A v \in Conns : Spared(v, pool', st') /\ MailKept(v)
  BY <1>1, <1>2, <1>3, <1>4 DEF Spared, MailKept
<1> QED  BY <1>1, <1>2, <1>3, <1>5, ConnsSpared

LEMMA ConnsInit ==
  ASSUME Init
  PROVE  ConnsInv
<1>1. 1 \in Conns /\ None \notin Conns
  BY PoolAssumption DEF Conns
<1>2. /\ ToSet(pool.idle) = {1} /\ pool.busy = {} /\ pool.mons = {1} /\ pool.checking = {}
      /\ up = TRUE
  BY DEF Init, ToSet
<1>3. Unique(pool.idle)
  BY DEF Init, Unique
<1>4. \A k, x : ~In(mbox, k, x) /\ Once(mbox, k, x)
  BY DEF Init, In, Once
<1>5. ASSUME NEW v \in Conns
      PROVE  LentOk(v) /\ PlaceOk(v)
  <2>1. st[v] = IF v = 1 THEN "up" ELSE "none"
    BY DEF Init
  <2>2. \A c \in Callers : ~Holds(c, v)
    BY <1>1 DEF Init, Holds
  <2>3. LentOk(v)
    BY <1>2, <1>4, <2>1, <2>2 DEF LentOk, Held, Outside
  <2>4. PlaceOk(v)
    BY <1>2, <2>1 DEF PlaceOk, Alive
  <2> QED  BY <2>3, <2>4
<1> QED  BY <1>3, <1>5 DEF ConnsInv

LEMMA ConnsNext ==
  ASSUME CallersInv, ConnsInv, [Next]_vars
  PROVE  ConnsInv'
<1>1. CASE Manager
  BY <1>1, ConnsHandleCheckout, ConnsHandleCheckin, ConnsHandleDown, ConnsWaiterTimeout,
     ConnsMaintenance, ConnsPingDone, ConnsClose DEF Manager
<1>2. ASSUME NEW c \in Callers, Caller(c) \/ TimerFires(c)
      PROVE  ConnsInv'
  BY <1>2, ConnsCaller
<1>3. ASSUME NEW w \in Conns, Conn(w)
      PROVE  ConnsInv'
  BY <1>3, ConnsConn
<1>4. CASE Tick
  BY <1>4, ConnsTick
<1>5. CASE UNCHANGED vars
  <2>1. UNCHANGED <<up, mbox, pool, st, pings, cl>>
    BY <1>5 DEF vars, poolVars, connVars
  <2> QED  BY <2>1, ConnsKept
<1> QED  BY <1>1, <1>2, <1>3, <1>4, <1>5 DEF Next

LEMMA ConnsInvAlways == Spec => [](CallersInv /\ ConnsInv)
<1>1. Init => CallersInv /\ ConnsInv
  BY CallersInit, ConnsInit
<1>2. CallersInv /\ ConnsInv /\ [Next]_vars => (CallersInv /\ ConnsInv)'
  BY CallersNext, ConnsNext
<1> QED  BY <1>1, <1>2, PTL DEF Spec

\* No two processes ever use one socket: a connection has one holder, and one that is held, or
\* whose checkin is in the mailbox, is neither idle nor being checked, for any number of
\* callers and connections and whatever dies, times out or is handed over in between.
THEOREM OneBorrowerAtATime == Spec => []OneBorrower
<1>1. ConnsInv => OneBorrower
  <2> SUFFICES ASSUME ConnsInv, NEW w \in Conns
               PROVE  /\ \A c, d \in Callers : Holds(c, w) /\ Holds(d, w) => c = d
                      /\ (\E c \in Callers : Holds(c, w)) \/ Returning(w)
                           => w \notin ToSet(pool.idle) \union pool.checking
                      /\ ~((\E c \in Callers : Holds(c, w)) /\ Returning(w))
    BY DEF OneBorrower
  <2>1. LentOk(w)
    BY DEF ConnsInv
  <2> QED  BY <2>1 DEF LentOk, Held, Outside, Returning, In
<1> QED  BY <1>1, ConnsInvAlways, PTL

\* A live connection is monitored and has one place: once in the idle list, in a health check
\* with its answer to come, or busy and somebody's; so close_all, which ends what is
\* monitored, leaves no connection behind.
THEOREM AllAccounted == Spec => []Accounted
<1>1. CallersInv /\ ConnsInv => Accounted
  <2> SUFFICES ASSUME CallersInv, ConnsInv, NEW w \in Conns, Alive(w)
               PROVE  /\ up /\ w \in pool.mons
                      /\ \/ Cardinality({i \in DOMAIN pool.idle : pool.idle[i] = w}) = 1
                            /\ w \notin pool.busy \union pool.checking
                         \/ w \in pool.checking \ pool.busy
                            /\ \/ w \in pings
                               \/ \E i \in DOMAIN mbox : mbox[i].kind = "ping_done" /\ mbox[i].who = w
                         \/ w \in pool.busy \ pool.checking
                            /\ \/ \E c \in Callers : Holds(c, w)
                               \/ Returning(w)
    BY DEF Accounted
  <2>1. LentOk(w) /\ PlaceOk(w) /\ Unique(pool.idle)
    BY DEF ConnsInv
  <2>2. ASSUME w \in ToSet(pool.idle)
        PROVE  Cardinality({i \in DOMAIN pool.idle : pool.idle[i] = w}) = 1
    <3>1. PICK j \in DOMAIN pool.idle : pool.idle[j] = w
      BY <2>2 DEF ToSet
    <3>2. {i \in DOMAIN pool.idle : pool.idle[i] = w} = {j}
      BY <2>1, <3>1 DEF Unique
    <3> QED  BY <3>2, FS_Singleton
  <2>3. up /\ w \in pool.mons
    BY <2>1 DEF PlaceOk
  <2>4. CASE w \in ToSet(pool.idle)
    <3>1. w \notin pool.busy \union pool.checking
      BY <2>1, <2>4 DEF LentOk, Outside
    <3> QED  BY <2>2, <2>3, <2>4, <3>1
  <2>5. CASE w \in pool.checking /\ (w \in pings \/ In(mbox, "ping_done", w))
    <3>1. w \in pool.checking \ pool.busy
      BY <2>1, <2>5 DEF LentOk, Outside
    <3> QED  BY <2>3, <2>5, <3>1 DEF In
  <2>6. CASE w \in pool.busy /\ (Held(w) \/ In(mbox, "checkin", w))
    <3>1. w \in pool.busy \ pool.checking
      BY <2>1, <2>6 DEF LentOk, Outside
    <3> QED  BY <2>3, <2>6, <3>1 DEF In, Held, Returning
  <2> QED  BY <2>1, <2>4, <2>5, <2>6 DEF PlaceOk
<1> QED  BY <1>1, ConnsInvAlways, PTL

-----------------------------------------------------------------------------
(* Nobody waits beside an idle connection, and room is offered.              *)

\* What WaitsForAReason needs of the pool.
ReasonInv == CallersInv /\ ConnsInv /\ Sized(pool) /\ WaitsForAReason

\* What every step does for the callers that wait.
Offered == WaitsForAReason' /\ (BesideRoom' => BesideRoom \/ TurnsAway)

\* The queue is empty already, or will be.
LEMMA ReasonServed ==
  ASSUME pool'.waiters = <<>>
  PROVE  Offered
BY DEF Offered, BesideRoom, WaitsForAReason

\* Nothing becomes free that was not.
LEMMA ReasonKept ==
  ASSUME WaitsForAReason, pool'.waiters # <<>> => pool.waiters # <<>>,
         pool.idle = <<>> => pool'.idle = <<>>,
         pool'.mons = pool.mons
  PROVE  Offered
BY DEF Offered, BesideRoom, WaitsForAReason, HasRoom

\* serve_waiter opens a connection in the place of one that is gone, or says why not.
LEMMA ReasonServeWaiter ==
  ASSUME ReasonInv, NEW p \in States, NEW w, p.mons = pool.mons \ {w}, p.waiters = pool.waiters,
         pool.idle = <<>> => p.idle = <<>>, p.busy \subseteq pool.busy,
         NEW ps \in [Conns -> {"none", "up", "closing", "dead"}], ServeWaiter(p, ps)
  PROVE  Offered
<1>1. CASE pool.waiters = <<>> \/ ~HasRoom(p)
  <2>1. pool' = p
    BY <1>1 DEF ServeWaiter
  <2>2. pool.waiters # <<>> => p.idle = <<>>
    BY DEF ReasonInv, WaitsForAReason
  <2> QED  BY <1>1, <2>1, <2>2 DEF Offered, BesideRoom, WaitsForAReason, HasRoom
<1>2. ASSUME pool.waiters # <<>>, NEW q \in States, q.idle = p.idle, q.mons = p.mons,
             q.busy = p.busy, q.waiters = Tail(p.waiters),
             OpenFor(q, ps, Head(p.waiters))
      PROVE  Offered
  <2>1. pool.idle = <<>> /\ p.idle = <<>>
    BY <1>2 DEF ReasonInv, WaitsForAReason
  <2>2. CASE pool' = q /\ Refused({Head(p.waiters)})
    <3>1. Head(pool.waiters) \in Callers
      <4>1. pool.waiters \in Seq(Callers)
        BY DEF ReasonInv, CallersInv, Typed, States
      <4> QED  BY <1>2, <4>1
    <3>2. cl'[Head(pool.waiters)].pc \in {"rest", "dead"}
      <4>1. cl \in [Callers -> Callings]
        BY DEF ReasonInv, CallersInv, Typed
      <4> QED  BY <2>2, <3>1, <4>1 DEF Refused, Callings
    <3>3. TurnsAway
      BY <1>2, <2>2, <3>2 DEF TurnsAway
    <3> QED  BY <1>2, <2>1, <2>2, <3>3 DEF Offered, WaitsForAReason
  <2>3. ASSUME NEW v \in Conns, st[v] = "none", pool'.idle = q.idle,
               pool'.mons = q.mons \union {v}
        PROVE  Offered
    <3> DEFINE M == pool.mons
    <3>1. IsFiniteSet(M) /\ Cardinality(M) \in Nat
      BY FS_CardinalityType DEF ReasonInv, Sized
    <3>2. v \notin M \ {w}
      BY <2>3 DEF ReasonInv, ConnsInv, LentOk
    <3>3. IsFiniteSet(M \ {w})
          /\ Cardinality(M \ {w}) = IF w \in M THEN Cardinality(M) - 1 ELSE Cardinality(M)
      BY <3>1, FS_RemoveElement
    <3>4. Cardinality((M \ {w}) \union {v}) = Cardinality(M \ {w}) + 1
      BY <3>2, <3>3, FS_AddElement
    <3>5. Cardinality(pool'.mons) >= Cardinality(pool.mons) /\ Cardinality(pool'.mons) \in Nat
      <4>1. pool'.mons = (M \ {w}) \union {v}
        BY <1>2, <2>3
      <4> HIDE DEF M
      <4>2. Cardinality((M \ {w}) \union {v}) >= Cardinality(M)
            /\ Cardinality((M \ {w}) \union {v}) \in Nat
        BY <3>1, <3>3, <3>4
      <4> QED  BY <4>1, <4>2 DEF M
    <3>6. HasRoom(pool)' => HasRoom(pool)
      BY <3>1, <3>5, PoolAssumption DEF HasRoom
    <3> QED  BY <1>2, <2>1, <2>3, <3>6 DEF Offered, BesideRoom, WaitsForAReason
  <2>4. \/ pool' = q /\ Refused({Head(p.waiters)})
        \/ \E v \in Conns : /\ st[v] = "none" /\ pool'.idle = q.idle
                            /\ pool'.mons = q.mons \union {v}
    BY <1>2, OpenForViews
  <2> QED  BY <2>2, <2>3, <2>4, Zenon
<1>3. \/ p.waiters = <<>> \/ ~HasRoom(p)
      \/ /\ p.waiters # <<>>
         /\ \E q \in States : /\ q.idle = p.idle /\ q.mons = p.mons /\ q.busy = p.busy
                              /\ q.waiters = Tail(p.waiters) /\ OpenFor(q, ps, Head(p.waiters))
  BY ServeWaiterViews
<1>4. CASE /\ p.waiters # <<>>
           /\ \E q \in States : /\ q.idle = p.idle /\ q.mons = p.mons /\ q.busy = p.busy
                                /\ q.waiters = Tail(p.waiters) /\ OpenFor(q, ps, Head(p.waiters))
  BY <1>2, <1>4
<1> QED  BY <1>1, <1>3, <1>4

LEMMA ReasonHandleCheckout ==
  ASSUME ReasonInv, HandleCheckout
  PROVE  Offered
<1>1. Typed /\ st \in [Conns -> {"none", "up", "closing", "dead"}]
  BY DEF ReasonInv, CallersInv, Typed, ConnsTyped
<1>2. CASE \E w \in ToSet(pool.idle) : pool'.waiters = pool.waiters
  <2>1. pool.idle # <<>>
    BY <1>2 DEF ToSet
  <2>2. pool'.waiters = <<>>
    BY <1>2, <2>1 DEF ReasonInv, WaitsForAReason
  <2> QED  BY <2>2, ReasonServed
<1>3. ASSUME NEW none \in States, none.idle = <<>>, none.mons = pool.mons,
             none.waiters = pool.waiters, HasRoom(pool), OpenFor(none, st, From)
      PROVE  Offered
  <2>1. CASE pool' = none
    BY <1>3, <2>1 DEF Offered, BesideRoom, WaitsForAReason
  <2>2. CASE pool'.idle = none.idle /\ pool'.waiters = none.waiters
    BY <1>3, <2>2 DEF Offered, BesideRoom, WaitsForAReason
  <2>3. \/ pool' = none
        \/ pool'.idle = none.idle /\ pool'.waiters = none.waiters
    BY <1>1, <1>3, OpenForViews
  <2> QED  BY <2>1, <2>2, <2>3
<1>4. ASSUME NEW none \in States, none.idle = <<>>, none.mons = pool.mons, ~HasRoom(pool),
             pool' = none \/ pool' = [none EXCEPT !.waiters = Append(@, From)]
      PROVE  Offered
  <2>1. pool'.idle = <<>> /\ pool'.mons = pool.mons
    BY <1>4 DEF States
  <2> QED  BY <1>4, <2>1 DEF Offered, BesideRoom, WaitsForAReason, HasRoom
<1>5. \/ \E w \in ToSet(pool.idle) : pool'.waiters = pool.waiters
      \/ \E none \in States :
           /\ none.idle = <<>> /\ none.mons = pool.mons /\ none.waiters = pool.waiters
           /\ \/ HasRoom(pool) /\ OpenFor(none, st, From)
              \/ /\ ~HasRoom(pool)
                 /\ pool' = none \/ pool' = [none EXCEPT !.waiters = Append(@, From)]
  BY <1>1, HandleCheckoutCases
<1>6. CASE \E none \in States :
             /\ none.idle = <<>> /\ none.mons = pool.mons /\ none.waiters = pool.waiters
             /\ \/ HasRoom(pool) /\ OpenFor(none, st, From)
                \/ /\ ~HasRoom(pool)
                   /\ pool' = none \/ pool' = [none EXCEPT !.waiters = Append(@, From)]
  BY <1>3, <1>4, <1>6
<1> QED  BY <1>2, <1>5, <1>6

LEMMA ReasonHandleCheckin ==
  ASSUME ReasonInv, HandleCheckin
  PROVE  Offered
<1>1. Typed /\ pool \in States /\ WaitsForAReason
  BY DEF ReasonInv, CallersInv, Typed
<1>2. From \in Conns
  BY <1>1, HandleCheckinCases
<1>3. CASE pool' = pool
  BY <1>1, <1>2, <1>3, ReasonKept
<1>4. CASE pool.waiters # <<>> /\ HandOver(From)
  <2>1. pool'.idle = pool.idle /\ pool'.mons = pool.mons
    BY <1>1, <1>2, <1>4, HandOverViews
  <2> QED  BY <1>1, <1>2, <1>4, <2>1, ReasonKept
<1>5. CASE pool'.waiters = pool.waiters /\ pool'.mons = pool.mons
           /\ (pool'.idle = pool.idle \/ pool.waiters = <<>>)
  BY <1>1, <1>2, <1>5, ReasonKept, ReasonServed
<1>6. CASE pool.waiters = <<>> /\ pool' = Retired(pool, {From})
  <2>1. pool'.waiters = <<>>
    BY <1>1, <1>6, RetiredViews
  <2> QED  BY <2>1, ReasonServed
<1>7. \/ pool' = pool
      \/ pool.waiters # <<>> /\ HandOver(From)
      \/ pool'.waiters = pool.waiters /\ pool'.mons = pool.mons
         /\ (pool'.idle = pool.idle \/ pool.waiters = <<>>)
      \/ pool.waiters = <<>> /\ pool' = Retired(pool, {From})
  BY <1>1, HandleCheckinCases
<1> QED  BY <1>3, <1>4, <1>5, <1>6, <1>7

LEMMA ReasonHandleDown ==
  ASSUME ReasonInv, HandleDown
  PROVE  Offered
<1>1. pool \in States /\ st \in [Conns -> {"none", "up", "closing", "dead"}]
  BY DEF ReasonInv, CallersInv, Typed, ConnsTyped
<1>2. ServeWaiter(Retired(pool, {From}), st)
  BY DEF HandleDown
<1> DEFINE p == Retired(pool, {From})
<1>3. /\ p \in States /\ p.mons = pool.mons \ {From} /\ p.waiters = pool.waiters
      /\ pool.idle = <<>> => p.idle = <<>>
      /\ p.busy \subseteq pool.busy
  BY <1>1, RetiredViews
<1> HIDE DEF p
<1>4. ServeWaiter(p, st)
  BY <1>2 DEF p
<1> QED  BY <1>1, <1>3, <1>4, ReasonServeWaiter

LEMMA ReasonWaiterTimeout ==
  ASSUME ReasonInv, WaiterTimeout
  PROVE  Offered
<1>1. Typed /\ WaitsForAReason /\ pool \in States
  BY DEF ReasonInv, CallersInv, Typed
<1>2. \/ pool' = pool
      \/ /\ pool'.idle = pool.idle /\ pool'.mons = pool.mons
         /\ pool' \in States /\ ToSet(pool'.waiters) \subseteq ToSet(pool.waiters)
  BY <1>1, WaiterTimeoutCases DEF Parked
<1>3. CASE pool' \in States /\ ToSet(pool'.waiters) \subseteq ToSet(pool.waiters)
  <2>1. pool'.waiters # <<>> => Head(pool'.waiters) \in ToSet(pool'.waiters)
    <3>1. pool'.waiters \in Seq(Callers)
      BY <1>3 DEF States
    <3> QED  BY <3>1, TailList
  <2>2. pool.waiters = <<>> => ToSet(pool.waiters) = {}
    BY DEF ToSet
  <2> QED  BY <1>2, <1>3, <2>1, <2>2, <1>1, ReasonKept
<1> QED  BY <1>1, <1>2, <1>3, ReasonKept

LEMMA ReasonMaintenance ==
  ASSUME ReasonInv, Maintenance
  PROVE  Offered
<1>1. Typed /\ WaitsForAReason
  BY DEF ReasonInv, CallersInv
<1>2. \E retired \in SUBSET ToSet(pool.idle) :
        /\ pool'.waiters = pool.waiters
        /\ pool.idle = <<>> => pool'.idle = <<>>
        /\ pool'.mons = pool.mons \ retired
  BY <1>1, MaintenanceViews
<1>3. CASE pool.idle = <<>>
  <2>1. ToSet(pool.idle) = {}
    BY <1>3 DEF ToSet
  <2>2. \A retired \in SUBSET ToSet(pool.idle) : pool.mons \ retired = pool.mons
    BY <2>1
  <2> QED  BY <1>1, <1>2, <1>3, <2>2, ReasonKept
<1>4. CASE pool.idle # <<>>
  <2>1. pool'.waiters = <<>>
    BY <1>1, <1>2, <1>4 DEF WaitsForAReason
  <2> QED  BY <2>1, ReasonServed
<1> QED  BY <1>3, <1>4

LEMMA ReasonPingDone ==
  ASSUME ReasonInv, PingDone
  PROVE  Offered
<1>1. Typed /\ WaitsForAReason /\ pool \in States
  BY DEF ReasonInv, CallersInv, Typed
<1>2. From \in Conns
  BY <1>1, PingDoneCases
<1>3. CASE pool' = pool
  BY <1>1, <1>3, ReasonKept
<1>4. CASE pool.waiters # <<>> /\ HandOver(From)
  <2>1. pool'.idle = pool.idle /\ pool'.mons = pool.mons
    BY <1>1, <1>2, <1>4, HandOverViews
  <2> QED  BY <1>1, <1>4, <2>1, ReasonKept
<1>5. CASE pool'.waiters = pool.waiters /\ pool'.mons = pool.mons
           /\ (pool'.idle = pool.idle \/ pool.waiters = <<>>)
  BY <1>1, <1>5, ReasonKept, ReasonServed
<1>6. ASSUME NEW p \in States, p.idle = pool.idle, p.waiters = pool.waiters,
             p.mons = pool.mons, p.busy = pool.busy,
             ServeWaiter(Retired(p, {From}), Killed({From}))
      PROVE  Offered
  <2> DEFINE r == Retired(p, {From})
            ps == Killed({From})
  <2>1. /\ r \in States /\ r.mons = p.mons \ {From} /\ r.waiters = p.waiters
        /\ p.idle = <<>> => r.idle = <<>>
        /\ r.busy \subseteq p.busy
    BY RetiredViews
  <2>2. ps \in [Conns -> {"none", "up", "closing", "dead"}] /\ ServeWaiter(r, ps)
    BY <1>1, <1>6, KilledTyped
  <2> HIDE DEF r, ps
  <2> QED  BY <1>6, <2>1, <2>2, ReasonServeWaiter
<1>7. \/ pool' = pool
      \/ pool.waiters # <<>> /\ HandOver(From)
      \/ pool'.waiters = pool.waiters /\ pool'.mons = pool.mons
         /\ (pool'.idle = pool.idle \/ pool.waiters = <<>>)
      \/ \E p \in States : /\ p.idle = pool.idle /\ p.waiters = pool.waiters
                           /\ p.mons = pool.mons /\ p.busy = pool.busy
                           /\ ServeWaiter(Retired(p, {From}), Killed({From}))
  BY <1>1, PingDoneCases
<1>8. CASE \E p \in States : /\ p.idle = pool.idle /\ p.waiters = pool.waiters
                             /\ p.mons = pool.mons /\ p.busy = pool.busy
                           /\ ServeWaiter(Retired(p, {From}), Killed({From}))
  BY <1>6, <1>8
<1> QED  BY <1>3, <1>4, <1>5, <1>7, <1>8

LEMMA ReasonNext ==
  ASSUME ReasonInv, [Next]_vars
  PROVE  ReasonInv' /\ Offered
<1>1. CallersInv' /\ ConnsInv'
  BY CallersNext, ConnsNext DEF ReasonInv
<1>2. Sized(pool)'
  BY SizedNext DEF ReasonInv, Sized, Shaped
<1>3. Offered
  <2>1. CASE Close
    <3>1. pool'.waiters = <<>>
      BY <2>1, CloseViews DEF ReasonInv
    <3> QED  BY <3>1, ReasonServed
  <2>2. CASE Manager /\ ~Close
    BY <2>2, ReasonHandleCheckout, ReasonHandleCheckin, ReasonHandleDown, ReasonWaiterTimeout,
       ReasonMaintenance, ReasonPingDone DEF Manager
  <2>3. ASSUME NEW c \in Callers, Caller(c) \/ TimerFires(c)
        PROVE  UNCHANGED pool
    BY <2>3 DEF Caller, Checkout, Borrow, PinnedVerb, Timeout, Unanswered, PoolGone, Die,
       CloseHandle, TimerFires, poolVars
  <2>4. ASSUME NEW w \in Conns, Conn(w)
        PROVE  UNCHANGED pool
    BY <2>4 DEF Conn, Serve, Breaks, Takes, Exits, PingTimeout, poolVars
  <2>5. CASE Tick \/ UNCHANGED vars
    <3>1. UNCHANGED pool
      BY <2>5 DEF Tick, vars, poolVars
    <3> QED  BY <3>1 DEF Offered, BesideRoom, ReasonInv, WaitsForAReason, HasRoom
  <2>6. CASE UNCHANGED pool
    BY <2>6 DEF Offered, BesideRoom, ReasonInv, WaitsForAReason, HasRoom
  <2> QED  BY <2>1, <2>2, <2>3, <2>4, <2>5, <2>6 DEF Next
<1> QED  BY <1>1, <1>2, <1>3 DEF ReasonInv, Offered

LEMMA ReasonInit == Init => ReasonInv
<1> SUFFICES ASSUME Init PROVE ReasonInv
  OBVIOUS
<1>1. IsFiniteSet({1}) /\ Cardinality({1}) = 1
  BY FS_Singleton, Zenon
<1>2. Sized(pool) /\ WaitsForAReason
  BY <1>1, PoolAssumption DEF Init, Sized, Shaped, WaitsForAReason
<1> QED  BY <1>2, CallersInit, ConnsInit DEF ReasonInv

\* No caller is parked beside an idle connection: every handler that frees one looks at the
\* queue before the manager reads its next message.  Beside room for another connection a
\* caller may be parked: RoomComesWithAFailure says when.
THEOREM ParkedForAReason == Spec => []WaitsForAReason
<1>1. Init => ReasonInv
  BY ReasonInit
<1>2. ReasonInv /\ [Next]_vars => ReasonInv'
  BY ReasonNext
<1>3. ReasonInv => WaitsForAReason
  BY DEF ReasonInv
<1> QED  BY <1>1, <1>2, <1>3, PTL DEF Spec

\* Callers come to be parked beside room only in a step of the manager that tried to open a
\* connection for the oldest of them and failed (serve_waiter): no DOWN, failed health check,
\* checkin, timer or maintenance tick leaves a free place unoffered.
THEOREM RoomComesWithAFailure == Spec => RoomIsOffered
<1>1. Init => ReasonInv
  BY ReasonInit
<1>2. ReasonInv /\ [Next]_vars => ReasonInv'
  BY ReasonNext
<1>3. ReasonInv /\ [Next]_vars => [BesideRoom' => BesideRoom \/ TurnsAway]_vars
  BY ReasonNext DEF Offered
<1> QED  BY <1>1, <1>2, <1>3, PTL DEF Spec, RoomIsOffered

-----------------------------------------------------------------------------
(* Requests and sessions.                                                    *)

\* A request of c for this verb that c waits for, if it lives; at most one; a request nobody
\* waits for any more.
Pending(q, c, verb) == \E i \in DOMAIN q : q[i].by = c /\ q[i].verb = verb /\ q[i].waits
Single(q, c) ==
  \A i, j \in DOMAIN q :
    q[i].by = c /\ q[i].waits /\ q[j].by = c /\ q[j].waits => i = j
Stale(q) == \E i \in DOMAIN q : ~q[i].waits

LEMMA NoRequest ==
  ASSUME NEW q, q = <<>>
  PROVE  /\ \A c, verb : ~Pending(q, c, verb)
         /\ \A c : Single(q, c)
         /\ ~Stale(q)
BY DEF Pending, Single, Stale

LEMMA AppendRequest ==
  ASSUME NEW T, NEW q \in Seq(T), NEW r \in T
  PROVE  /\ \A c, verb : Pending(Append(q, r), c, verb) =>
              Pending(q, c, verb) \/ (r.by = c /\ r.verb = verb /\ r.waits)
         /\ \A c : Single(q, c) /\ (r.by = c /\ r.waits => \A verb : ~Pending(q, c, verb))
                     => Single(Append(q, r), c)
         /\ Stale(Append(q, r)) => Stale(q) \/ ~r.waits
<1> DEFINE s == Append(q, r)
<1>1. /\ Len(q) \in Nat /\ DOMAIN q = 1..Len(q)
      /\ DOMAIN s = 1..Len(q) + 1 /\ s[Len(q) + 1] = r
      /\ \A i \in 1..Len(q) : s[i] = q[i]
  OBVIOUS
<1> HIDE DEF s
<1>2. \A i \in DOMAIN s : (i \in DOMAIN q /\ s[i] = q[i]) \/ (i = Len(q) + 1 /\ s[i] = r)
  BY <1>1
<1>3. \A c, verb : Pending(s, c, verb) =>
        Pending(q, c, verb) \/ (r.by = c /\ r.verb = verb /\ r.waits)
  BY <1>2 DEF Pending
<1>4. ASSUME NEW c, Single(q, c), r.by = c /\ r.waits => \A verb : ~Pending(q, c, verb)
      PROVE  Single(s, c)
  <2>1. r.by = c /\ r.waits => \A i \in DOMAIN q : ~(q[i].by = c /\ q[i].waits)
    BY <1>4 DEF Pending
  <2> QED  BY <1>2, <1>4, <2>1 DEF Single
<1>5. Stale(s) => Stale(q) \/ ~r.waits
  BY <1>2 DEF Stale
<1> QED  BY <1>3, <1>4, <1>5 DEF s

LEMMA TailRequest ==
  ASSUME NEW T, NEW q \in Seq(T), q # <<>>
  PROVE  /\ \A c, verb : Pending(Tail(q), c, verb) => Pending(q, c, verb)
         /\ Head(q).waits => Pending(q, Head(q).by, Head(q).verb)
         /\ ~Head(q).waits => Stale(q)
         /\ \A c : Single(q, c) => Single(Tail(q), c)
         /\ Single(q, Head(q).by) /\ Head(q).waits
              => \A verb : ~Pending(Tail(q), Head(q).by, verb)
         /\ Stale(Tail(q)) => Stale(q)
<1> DEFINE s == Tail(q)
           m == Head(q)
<1>1. /\ Len(q) \in Nat /\ Len(q) > 0 /\ DOMAIN q = 1..Len(q)
      /\ DOMAIN s = 1..Len(q) - 1 /\ q[1] = m
      /\ \A i \in 1..Len(q) - 1 : s[i] = q[i + 1]
  OBVIOUS
<1> HIDE DEF s, m
<1>2. /\ \A i \in DOMAIN s : i + 1 \in DOMAIN q /\ s[i] = q[i + 1] /\ i \in Nat /\ i + 1 # 1
      /\ 1 \in DOMAIN q
  BY <1>1
<1>3. \A c, verb : Pending(s, c, verb) => Pending(q, c, verb)
  BY <1>2 DEF Pending
<1>4. /\ m.waits => Pending(q, m.by, m.verb)
      /\ ~m.waits => Stale(q)
      /\ Stale(s) => Stale(q)
  BY <1>1, <1>2 DEF Pending, Stale
<1>5. ASSUME NEW c, Single(q, c)
      PROVE  Single(s, c)
  <2>1. ASSUME NEW i \in DOMAIN s, NEW j \in DOMAIN s,
               s[i].by = c, s[i].waits, s[j].by = c, s[j].waits
        PROVE  i = j
    <3>1. i + 1 = j + 1
      BY <1>2, <1>5, <2>1 DEF Single
    <3> QED  BY <1>2, <3>1
  <2> QED  BY <2>1 DEF Single
<1>6. ASSUME Single(q, m.by), m.waits, NEW verb, Pending(s, m.by, verb)
      PROVE  FALSE
  <2>1. PICK i \in DOMAIN s : s[i].by = m.by /\ s[i].waits
    BY <1>6 DEF Pending
  <2> QED  BY <1>1, <1>2, <1>6, <2>1 DEF Single
<1> QED  BY <1>3, <1>4, <1>5, <1>6 DEF s, m

\* What a statement leaves of the transaction's owner.
LEMMA OwnerAfter ==
  ASSUME NEW s \in Sessions, NEW r \in Requests
  PROVE  /\ After(s, r).owner \in {None, s.owner, r.by}
         /\ r.verb # "begin" => After(s, r).owner \in {None, s.owner}
         /\ r.verb \in {"commit", "rollback"} => After(s, r).owner = None
         /\ Aborted(s, r).owner \in {None, s.owner}
         /\ r.verb = "commit" => Aborted(s, r).owner = None
<1>1. /\ After(s, r).owner \in {None, s.owner, r.by}
      /\ r.verb # "begin" => After(s, r).owner \in {None, s.owner}
      /\ r.verb \in {"commit", "rollback"} => After(s, r).owner = None
  BY DEF After, Sessions, Closed
<1>2. /\ Aborted(s, r).owner \in {None, s.owner}
      /\ r.verb = "commit" => Aborted(s, r).owner = None
  <2>1. CASE r.verb = "commit"
    BY <2>1 DEF Aborted, Closed
  <2>2. CASE r.verb # "commit"
    <3>1. Aborted(s, r) = [s EXCEPT !.failed = s.owner # None]
      BY <2>2, Zenon DEF Aborted
    <3>2. Aborted(s, r).owner = s.owner
      BY <3>1 DEF Sessions
    <3> QED  BY <2>2, <3>2
  <2> QED  BY <2>1, <2>2
<1> QED  BY <1>1, <1>2

\* A caller that waits for an answer has one request, on the connection it holds; a request
\* that timed out makes its connection suspect.
ReqOk(w) ==
  /\ ~Alive(w) => todo[w] = <<>>
  /\ Stale(todo[w]) => w \in suspect
  /\ \A c \in Callers :
       /\ Single(todo[w], c)
       /\ \A verb : Pending(todo[w], c, verb) =>
            cl[c].pc \in {"asked", "dead"} /\ Holds(c, w) /\ cl[c].verb = verb

\* The one who began the transaction that is open holds the connection and knows it.
SessOk(w) ==
  /\ st[w] # "up" => session[w].owner = None
  /\ session[w].owner # None /\ w \notin suspect =>
       /\ Holds(session[w].owner, w)
       /\ cl[session[w].owner].depth > 0 \/ cl[session[w].owner].pc = "dead"

CleanInv == \A w \in Conns : ReqOk(w) /\ SessOk(w)

\* What the manager, and the end of a process, do to a connection.
Undisturbed(w) ==
  \/ /\ todo'[w] = todo[w] /\ session'[w] = session[w]
     /\ st'[w] = st[w] \/ (st[w] = "none" /\ st'[w] = "up")
  \/ todo'[w] = <<>> /\ session'[w] = Closed
  \/ /\ todo'[w] = Append(todo[w], Request(Ping, "ping")) /\ session'[w] = session[w]
     /\ Alive(w) /\ st'[w] = st[w]

\* Callers that hold nothing may change; the others at most die.
LEMMA CleanKept ==
  ASSUME CallersInv, CleanInv, suspect' = suspect, \A w \in Conns : Undisturbed(w),
         \A c \in Callers :
           \/ cl'[c] = cl[c]
           \/ cl[c].conn = None
           \/ /\ cl'[c].conn = cl[c].conn /\ cl'[c].depth = cl[c].depth
              /\ cl'[c].verb = cl[c].verb /\ cl'[c].pc = "dead"
  PROVE  CleanInv'
<1>1. None \notin Conns /\ Ping \notin Callers /\ None \notin Callers
  BY PoolAssumption DEF Conns
<1>2. todo \in [Conns -> Seq(Requests)] /\ session \in [Conns -> Sessions]
  BY DEF CallersInv, Typed, ConnsTyped, Sessions
<1> SUFFICES ASSUME NEW w \in Conns
             PROVE  ReqOk(w)' /\ SessOk(w)'
  BY DEF CleanInv
<1>3. ReqOk(w) /\ SessOk(w) /\ Undisturbed(w)
  BY DEF CleanInv
<1>4. /\ \A c \in Callers : \A verb : Pending(todo'[w], c, verb) => Pending(todo[w], c, verb)
      /\ \A c \in Callers : Single(todo'[w], c)
      /\ Stale(todo'[w]) => Stale(todo[w])
      /\ ~Alive(w)' => todo'[w] = <<>>
  <2>1. CASE todo'[w] = todo[w] /\ (st'[w] = st[w] \/ (st[w] = "none" /\ st'[w] = "up"))
    BY <1>3, <2>1 DEF ReqOk, Alive
  <2>2. CASE todo'[w] = <<>>
    BY <2>2, NoRequest
  <2>3. CASE todo'[w] = Append(todo[w], Request(Ping, "ping")) /\ Alive(w) /\ st'[w] = st[w]
    <3> DEFINE r == Request(Ping, "ping")
    <3>1. r.by = Ping /\ r.waits /\ r \in Requests
      BY <1>1 DEF Request, Requests, Verbs
    <3> HIDE DEF r
    <3>2. todo'[w] = Append(todo[w], r) /\ todo[w] \in Seq(Requests)
      BY <1>2, <2>3 DEF r
    <3>3. /\ \A c, verb : Pending(todo'[w], c, verb) => Pending(todo[w], c, verb) \/ r.by = c
          /\ \A c : Single(todo[w], c) /\ r.by # c => Single(todo'[w], c)
          /\ Stale(todo'[w]) => Stale(todo[w])
      BY <3>1, <3>2, AppendRequest
    <3> QED  BY <1>1, <1>3, <2>3, <3>1, <3>3 DEF ReqOk, Alive
  <2> QED  BY <1>3, <2>1, <2>2, <2>3 DEF Undisturbed
<1>5. ReqOk(w)'
  <2>1. ASSUME NEW c \in Callers, NEW verb, Pending(todo'[w], c, verb)
        PROVE  cl'[c].pc \in {"asked", "dead"} /\ Holds(c, w)' /\ cl'[c].verb = verb
    <3>1. cl[c].pc \in {"asked", "dead"} /\ Holds(c, w) /\ cl[c].verb = verb
      BY <1>3, <1>4, <2>1 DEF ReqOk
    <3> QED  BY <1>1, <3>1 DEF Holds
  <2> QED  BY <1>3, <1>4, <2>1 DEF ReqOk
<1>6. SessOk(w)'
  <2> DEFINE o == session'[w].owner
  <2>1. o = session[w].owner \/ o = None
    BY <1>3 DEF Undisturbed, Closed
  <2>2. st'[w] # "up" => o = None
    BY <1>3 DEF Undisturbed, Closed, SessOk
  <2>3. o \in Callers \union {None}
    BY <1>2, <2>1 DEF Sessions
  <2> HIDE DEF o
  <2>4. o # None /\ w \notin suspect =>
          cl'[o].conn = w /\ (cl'[o].depth > 0 \/ cl'[o].pc = "dead")
    <3> SUFFICES ASSUME o # None, w \notin suspect
                 PROVE  cl'[o].conn = w /\ (cl'[o].depth > 0 \/ cl'[o].pc = "dead")
      OBVIOUS
    <3>1. Holds(o, w) /\ (cl[o].depth > 0 \/ cl[o].pc = "dead") /\ o \in Callers
      BY <1>3, <2>1, <2>3 DEF SessOk
    <3> QED  BY <1>1, <3>1 DEF Holds
  <2> QED  BY <2>2, <2>4 DEF SessOk, Holds, o
<1> QED  BY <1>5, <1>6

\* A caller sends a verb to the connection it holds.
LEMMA CleanAsk ==
  ASSUME CallersInv, CleanInv, NEW c \in Callers, cl[c].pc \notin {"asked", "dead"},
         NEW w \in Conns, cl[c].conn = w, NEW verb \in Verbs \ {"ping"}, Ask(c, w, verb),
         [cl[c] EXCEPT !.pc = "asked", !.verb = verb, !.conn = w] \in Callings,
         UNCHANGED <<st, session, suspect>>
  PROVE  CleanInv'
<1>1. Typed /\ todo \in [Conns -> Seq(Requests)]
  BY DEF CallersInv, Typed, ConnsTyped
<1> DEFINE r == Request(c, verb)
<1>2. r.by = c /\ r.verb = verb /\ r.waits = TRUE /\ r \in Requests
  <2>1. Ping \notin Callers
    BY PoolAssumption
  <2> QED  BY <2>1 DEF Request, Requests
<1>3. /\ \A d \in Callers : d # c => cl'[d] = cl[d]
      /\ cl'[c].pc = "asked" /\ cl'[c].verb = verb /\ cl'[c].conn = w
      /\ cl'[c].depth = cl[c].depth
      /\ \A v \in Conns : v # w => todo'[v] = todo[v]
      /\ todo'[w] = todo[w] \/ todo'[w] = Append(todo[w], r)
  BY <1>1, AskViews
<1>4. ~Alive(w) => todo' = todo
  BY DEF Ask
<1> HIDE DEF r
<1>5. \A v \in Conns : \A k : ~Pending(todo[v], c, k)
  BY DEF CleanInv, ReqOk
<1> SUFFICES ASSUME NEW v \in Conns
             PROVE  ReqOk(v)' /\ SessOk(v)'
  BY DEF CleanInv
<1>6. ReqOk(v) /\ SessOk(v)
  BY DEF CleanInv
<1>7. /\ \A d \in Callers : \A k : Pending(todo'[v], d, k) =>
           Pending(todo[v], d, k) \/ (d = c /\ v = w /\ k = verb)
      /\ \A d \in Callers : Single(todo'[v], d)
      /\ Stale(todo'[v]) => Stale(todo[v])
  <2>1. CASE todo'[v] = todo[v]
    BY <1>6, <2>1 DEF ReqOk
  <2>2. CASE v = w /\ todo'[w] = Append(todo[w], r)
    <3>1. /\ \A d, k : Pending(todo'[w], d, k) => Pending(todo[w], d, k) \/ (r.by = d /\ r.verb = k)
          /\ \A d : Single(todo[w], d) /\ (r.by = d => \A k : ~Pending(todo[w], d, k))
                      => Single(todo'[w], d)
          /\ Stale(todo'[w]) => Stale(todo[w])
      <4>1. todo[w] \in Seq(Requests)
        BY <1>1
      <4> QED  BY <1>2, <2>2, <4>1, AppendRequest
    <3> QED  BY <1>2, <1>5, <1>6, <2>2, <3>1 DEF ReqOk
  <2> QED  BY <1>3, <2>1, <2>2
<1>8. ReqOk(v)'
  <2>1. ASSUME NEW d \in Callers, NEW k, Pending(todo'[v], d, k)
        PROVE  cl'[d].pc \in {"asked", "dead"} /\ Holds(d, v)' /\ cl'[d].verb = k
    <3>1. CASE d = c
      BY <1>3, <1>5, <1>7, <2>1, <3>1 DEF Holds
    <3>2. CASE d # c
      BY <1>3, <1>6, <1>7, <2>1, <3>2 DEF ReqOk, Holds
    <3> QED  BY <3>1, <3>2
  <2>2. ~Alive(v)' => todo'[v] = <<>>
    BY <1>3, <1>4, <1>6 DEF ReqOk, Alive
  <2> QED  BY <1>6, <1>7, <2>1, <2>2 DEF ReqOk
<1>9. SessOk(v)'
  <2>1. session[v].owner \in Callers \union {None}
    BY DEF CallersInv, Typed, ConnsTyped
  <2> QED  BY <1>3, <1>6, <2>1 DEF SessOk, Holds
<1> QED  BY <1>8, <1>9

\* A caller takes the outcome of the verb it asked w for.
LEMMA CleanOutcome ==
  ASSUME CallersInv, CleanInv, NEW c \in Callers, cl[c].pc = "asked", NEW ok, Outcome(c, ok),
         NEW w \in Conns, cl[c].conn = w, suspect \subseteq suspect',
         \A v \in Conns : v # w => /\ todo'[v] = todo[v] /\ session'[v] = session[v]
                                   /\ st'[v] = st[v],
         ~Alive(w)' => todo'[w] = <<>>,
         Stale(todo'[w]) => w \in suspect',
         \A d \in Callers : Single(todo'[w], d),
         \A d \in Callers : \A k : Pending(todo'[w], d, k) => d # c /\ Pending(todo[w], d, k),
         st'[w] # "up" => session'[w].owner = None,
         w \notin suspect' /\ session'[w].owner # None =>
           session'[w].owner = c /\ Pinned(c, cl[c].verb, ok) > 0
  PROVE  CleanInv'
<1>1. Typed /\ None \notin Callers
  BY PoolAssumption DEF CallersInv
<1>2. /\ \A d \in Callers : d # c => cl'[d] = cl[d]
      /\ cl'[c].depth = Pinned(c, cl[c].verb, ok)
      /\ cl'[c].depth = 0 \/ cl'[c].conn = w
  BY <1>1, OutcomeViews
<1> SUFFICES ASSUME NEW v \in Conns
             PROVE  ReqOk(v)' /\ SessOk(v)'
  BY DEF CleanInv
<1>3. ReqOk(v) /\ SessOk(v)
  BY DEF CleanInv
<1>4. session[v].owner \in Callers \union {None}
  BY DEF CallersInv, Typed, ConnsTyped
<1>5. CASE v = w
  <2>1. \A d \in Callers : \A k : Pending(todo'[w], d, k) =>
          cl'[d].pc \in {"asked", "dead"} /\ Holds(d, w)' /\ cl'[d].verb = k
    BY <1>2, <1>3, <1>5 DEF ReqOk, Holds
  <2>2. ReqOk(w)'
    BY <2>1 DEF ReqOk
  <2>3. SessOk(w)'
    <3>1. Pinned(c, cl[c].verb, ok) > 0 => cl'[c].depth > 0 /\ cl'[c].conn = w
      BY <1>2
    <3> QED  BY <3>1 DEF SessOk, Holds
  <2> QED  BY <1>5, <2>2, <2>3
<1>6. CASE v # w
  <2>1. ~Holds(c, v)
    BY <1>6 DEF Holds
  <2>2. \A d \in Callers : \A k : Pending(todo'[v], d, k) =>
          cl'[d].pc \in {"asked", "dead"} /\ Holds(d, v)' /\ cl'[d].verb = k
    BY <1>2, <1>3, <1>6, <2>1 DEF ReqOk, Holds
  <2>3. ReqOk(v)'
    BY <1>3, <1>6, <2>2 DEF ReqOk, Alive
  <2>4. SessOk(v)'
    BY <1>2, <1>3, <1>4, <1>6, <2>1 DEF SessOk, Holds
  <2> QED  BY <2>3, <2>4
<1> QED  BY <1>5, <1>6

\* A connection takes its next request, and answers it.
LEMMA CleanAnswer ==
  ASSUME CallersInv, ConnsInv, CleanInv, NEW w \in Conns, Takes(w), NEW ok \in BOOLEAN,
         Answer(w, Head(todo[w]), ok),
         \A v \in Conns : v # w => session'[v] = session[v] /\ st'[v] = st[v],
         st'[w] = "up" \/ (st'[w] = "closing" /\ session'[w].owner = None),
         \/ session'[w].owner = None
         \/ /\ session'[w].owner = session[w].owner
            /\ Head(todo[w]).verb \notin {"commit", "rollback"}
         \/ session'[w].owner = Head(todo[w]).by /\ Head(todo[w]).verb = "begin" /\ ok
  PROVE  CleanInv'
<1> DEFINE r == Head(todo[w])
<1>1. Typed /\ Ping \notin Callers /\ None \notin Callers
  BY PoolAssumption DEF CallersInv
<1>2. /\ r \in Requests /\ todo[w] \in Seq(Requests) /\ todo[w] # <<>>
      /\ todo'[w] = Tail(todo[w]) /\ suspect' = suspect
      /\ \A v \in Conns : v # w => todo'[v] = todo[v]
  BY <1>1, TakesViews
<1>3. /\ \A c, k : Pending(todo'[w], c, k) => Pending(todo[w], c, k)
      /\ r.waits => Pending(todo[w], r.by, r.verb)
      /\ ~r.waits => Stale(todo[w])
      /\ \A c : Single(todo[w], c) => Single(todo'[w], c)
      /\ Single(todo[w], r.by) /\ r.waits => \A k : ~Pending(todo'[w], r.by, k)
      /\ Stale(todo'[w]) => Stale(todo[w])
  BY <1>2, TailRequest
<1>4. ReqOk(w) /\ SessOk(w) /\ LentOk(w)
  BY DEF CleanInv, ConnsInv
<1>5. /\ Stale(todo'[w]) => w \in suspect'
      /\ \A d \in Callers : Single(todo'[w], d)
      /\ Alive(w)'
      /\ st'[w] # "up" => session'[w].owner = None
  BY <1>2, <1>3, <1>4 DEF ReqOk, Alive
<1>6. session[w].owner \in Callers \union {None}
  BY <1>1 DEF Typed, ConnsTyped
<1>7. /\ \/ session'[w].owner = None
         \/ session'[w].owner = session[w].owner /\ r.verb \notin {"commit", "rollback"}
         \/ session'[w].owner = r.by /\ r.verb = "begin" /\ ok
      /\ r.verb = "begin" => r.by \in Callers
  BY <1>2 DEF Requests
<1>8. \/ cl' = cl /\ (r.by \in Callers => ~(r.waits /\ cl[r.by].pc = "asked"))
      \/ r.by \in Callers /\ r.waits /\ cl[r.by].pc = "asked" /\ Outcome(r.by, ok)
  BY <1>1, <1>2, AnswerCases
<1> HIDE DEF r
<1>9. CASE cl' = cl /\ (r.by \in Callers => ~(r.waits /\ cl[r.by].pc = "asked"))
  <2> SUFFICES ASSUME NEW v \in Conns
               PROVE  ReqOk(v)' /\ SessOk(v)'
    BY DEF CleanInv
  <2>1. CASE v # w
    <3>1. ReqOk(v) /\ SessOk(v)
      BY DEF CleanInv
    <3> QED  BY <1>2, <1>9, <2>1, <3>1 DEF ReqOk, SessOk, Holds, Alive
  <2>2. ReqOk(w)'
    BY <1>3, <1>4, <1>5, <1>9 DEF ReqOk, Holds
  <2>3. SessOk(w)'
    <3>1. ASSUME session'[w].owner # None, w \notin suspect
          PROVE  /\ cl[session'[w].owner].conn = w
                 /\ cl[session'[w].owner].depth > 0 \/ cl[session'[w].owner].pc = "dead"
      <4>1. CASE session'[w].owner = session[w].owner
        BY <1>4, <3>1, <4>1 DEF SessOk, Holds
      <4>2. CASE session'[w].owner = r.by /\ r.verb = "begin"
        <5>1. r.by \in Callers /\ r.waits
          BY <1>3, <1>4, <1>7, <3>1, <4>2 DEF ReqOk
        <5>2. cl[r.by].pc = "dead" /\ cl[r.by].conn = w
          BY <1>3, <1>4, <1>9, <5>1 DEF ReqOk, Holds
        <5> QED  BY <4>2, <5>2
      <4> QED  BY <1>7, <3>1, <4>1, <4>2
    <3> QED  BY <1>2, <1>5, <1>9, <3>1 DEF SessOk, Holds
  <2> QED  BY <1>2, <1>9, <2>1, <2>2, <2>3
<1>10. CASE r.by \in Callers /\ r.waits /\ cl[r.by].pc = "asked" /\ Outcome(r.by, ok)
  <2> DEFINE c == r.by
  <2>1. cl[c].conn = w /\ cl[c].verb = r.verb
    BY <1>3, <1>4, <1>10 DEF ReqOk, Holds
  <2>2. \A d \in Callers : \A k : Pending(todo'[w], d, k) => d # c /\ Pending(todo[w], d, k)
    BY <1>3, <1>4, <1>10 DEF ReqOk
  <2>3. cl[c] \in Callings
    BY <1>1, <1>10 DEF Typed
  <2>4. ASSUME w \notin suspect', session'[w].owner # None
        PROVE  session'[w].owner = c /\ Pinned(c, cl[c].verb, ok) > 0
    <3>1. CASE session'[w].owner = session[w].owner /\ r.verb \notin {"commit", "rollback"}
      <4>1. /\ Holds(session[w].owner, w) /\ session[w].owner \in Callers
            /\ cl[session[w].owner].depth > 0 \/ cl[session[w].owner].pc = "dead"
        BY <1>2, <1>4, <1>6, <2>4, <3>1 DEF SessOk
      <4>2. session[w].owner = c
        BY <1>4, <1>10, <2>1, <4>1 DEF LentOk, Holds
      <4>3. cl[c].depth > 0
        BY <1>10, <4>1, <4>2
      <4>4. cl[c].verb \in {"call", "savepoint", "release", "rollback_to"}
        BY <1>10, <2>1, <2>3, <3>1, <4>3 DEF Callings, Verbs
      <4>5. Pinned(c, cl[c].verb, ok) > 0
        BY <1>1, <1>10, <4>3, <4>4, PinnedRange
      <4> QED  BY <3>1, <4>2, <4>5
    <3>2. CASE session'[w].owner = r.by /\ r.verb = "begin" /\ ok
      <4>1. Pinned(c, cl[c].verb, ok) = 1
        BY <1>1, <1>10, <2>1, <3>2, PinnedRange
      <4>2. session'[w].owner = c
        BY <3>2
      <4> HIDE DEF c
      <4> QED  BY <4>1, <4>2
    <3> QED  BY <1>7, <2>4, <3>1, <3>2
  <2>5. c \in Callers /\ cl[c].pc = "asked" /\ Outcome(c, ok)
    BY <1>10
  <2>6. \A v \in Conns : v # w => /\ todo'[v] = todo[v] /\ session'[v] = session[v]
                                  /\ st'[v] = st[v]
    BY <1>2
  <2>7. suspect \subseteq suspect'
    BY <1>2
  <2> HIDE DEF c
  <2> QED  BY <1>5, <2>1, <2>2, <2>4, <2>5, <2>6, <2>7, CleanOutcome
<1> QED  BY <1>8, <1>9, <1>10

LEMMA CleanServe ==
  ASSUME CallersInv, ConnsInv, CleanInv, NEW w \in Conns, Serve(w)
  PROVE  CleanInv'
<1> DEFINE r == Head(todo[w])
<1>1. Typed
  BY DEF CallersInv
<1>2. Takes(w) /\ st' = st /\ \A v \in Conns : v # w => session'[v] = session[v]
  BY <1>1, ServeViews
<1>3. PICK ok \in BOOLEAN :
        /\ Answer(w, r, ok)
        /\ ok => session'[w] = After(session[w], r)
        /\ ~ok => session'[w] = Aborted(session[w], r) /\ r.verb # "rollback"
  BY <1>1, ServeViews
<1>4. r \in Requests /\ session[w] \in Sessions /\ st[w] = "up"
  BY <1>1, <1>2, TakesViews DEF Typed, ConnsTyped, Sessions
<1> HIDE DEF r
<1>5. \/ session'[w].owner = None
      \/ session'[w].owner = session[w].owner /\ r.verb \notin {"commit", "rollback"}
      \/ session'[w].owner = r.by /\ r.verb = "begin" /\ ok
  <2>1. CASE ok
    BY <1>3, <1>4, <2>1, OwnerAfter
  <2>2. CASE ~ok
    BY <1>3, <1>4, <2>2, OwnerAfter
  <2> QED  BY <2>1, <2>2
<1> QED  BY <1>2, <1>3, <1>4, <1>5, CleanAnswer DEF r

LEMMA CleanBreaks ==
  ASSUME CallersInv, ConnsInv, CleanInv, NEW w \in Conns, Breaks(w)
  PROVE  CleanInv'
<1>1. Typed
  BY DEF CallersInv
<1>2. /\ Takes(w) /\ Answer(w, Head(todo[w]), FALSE)
      /\ session'[w].owner = None /\ st'[w] = "closing"
      /\ \A v \in Conns : v # w => session'[v] = session[v] /\ st'[v] = st[v]
  <2>1. Closed.owner = None
    BY DEF Closed
  <2> QED  BY <1>1, <2>1, BreaksViews
<1> QED  BY <1>2, CleanAnswer

LEMMA CleanTimeout ==
  ASSUME CallersInv, ConnsInv, CleanInv, NEW c \in Callers, Timeout(c)
  PROVE  CleanInv'
<1>1. Typed
  BY DEF CallersInv
<1>0. PICK w \in Conns : w = cl[c].conn
  BY <1>1, TimeoutViews
<1>2. /\ cl[c].pc = "asked" /\ w \in Conns /\ Outcome(c, FALSE)
      /\ suspect' = suspect \union {w}
      /\ \A v \in Conns : v # w => todo'[v] = todo[v]
      /\ \A v \in Conns : DOMAIN todo'[v] = DOMAIN todo[v]
      /\ \A v \in Conns : \A i \in DOMAIN todo[v] :
           todo'[v][i].by = todo[v][i].by /\ todo'[v][i].verb = todo[v][i].verb
      /\ UNCHANGED <<st, session>>
  <2>1. /\ cl[c].pc = "asked" /\ Outcome(c, FALSE)
        /\ suspect' = suspect \union {cl[c].conn}
        /\ \A v \in Conns : v # cl[c].conn => todo'[v] = todo[v]
        /\ \A v \in Conns : DOMAIN todo'[v] = DOMAIN todo[v]
        /\ UNCHANGED <<st, session>>
    BY <1>1, TimeoutViews, Zenon
  <2>2. \A v \in Conns : \A i \in DOMAIN todo[v] :
          todo'[v][i].by = todo[v][i].by /\ todo'[v][i].verb = todo[v][i].verb
    BY <1>1, TimeoutViews, Zenon
  <2> QED  BY <1>0, <2>1, <2>2
<1>3. ReqOk(w) /\ SessOk(w) /\ todo' \in [Conns -> Seq(Requests)]
      /\ todo \in [Conns -> Seq(Requests)]
  BY <1>1, <1>2, TimeoutViews DEF CleanInv, Typed, ConnsTyped
<1> DEFINE q == todo[w]
           p == todo'[w]
<1>9. ASSUME NEW i \in DOMAIN p
      PROVE  /\ i \in DOMAIN q /\ p[i].by = q[i].by /\ p[i].verb = q[i].verb
             /\ p[i].waits => q[i].waits /\ q[i].by # c
  <2>1. i \in DOMAIN q /\ p[i].by = q[i].by /\ p[i].verb = q[i].verb
    BY <1>2, <1>9
  <2> HIDE DEF p, q
  <2>2. p[i].waits = (q[i].waits /\ ~(w = cl[c].conn /\ q[i].by = c))
    BY <1>1, <2>1, TimeoutViews, Zenon DEF p, q
  <2>3. p[i].waits => q[i].waits /\ q[i].by # c
    BY <1>0, <2>2, Zenon
  <2> QED  BY <2>1, <2>3
<1> HIDE DEF q, p
<1>10. \A d \in Callers : Single(q, d)
  BY <1>3 DEF ReqOk, q
<1>11. \A d \in Callers : Single(p, d)
  BY <1>9, <1>10 DEF Single
<1>12. \A d \in Callers : \A k : Pending(p, d, k) => d # c /\ Pending(q, d, k)
  BY <1>9 DEF Pending
<1>4. \A d \in Callers : Single(todo'[w], d)
  BY <1>11 DEF p
<1>5. \A d \in Callers : \A k : Pending(todo'[w], d, k) => d # c /\ Pending(todo[w], d, k)
  BY <1>12 DEF p, q
<1>6. ~Alive(w)' => todo'[w] = <<>>
  <2> SUFFICES ASSUME ~Alive(w) PROVE todo'[w] = <<>>
    BY <1>2 DEF Alive
  <2>1. todo[w] = <<>>
    BY <1>3 DEF ReqOk
  <2>2. todo'[w] \in Seq(Requests) /\ DOMAIN todo'[w] = {}
    BY <1>2, <1>3, <2>1
  <2>3. Len(todo'[w]) \in Nat /\ DOMAIN todo'[w] = 1..Len(todo'[w]) /\ ~(1 \in DOMAIN todo'[w])
    BY <2>2
  <2>4. Len(todo'[w]) = 0
    BY <2>3
  <2> QED  BY <2>2, <2>4
<1>7. w \in suspect' /\ suspect \subseteq suspect' /\ w \in Conns
      /\ (st'[w] # "up" => session'[w].owner = None)
      /\ \A v \in Conns : v # w => /\ todo'[v] = todo[v] /\ session'[v] = session[v]
                                   /\ st'[v] = st[v]
  BY <1>2, <1>3 DEF SessOk
<1>8. cl[c].pc = "asked" /\ Outcome(c, FALSE) /\ cl[c].conn = w
  BY <1>0, <1>2
<1> QED  BY <1>4, <1>5, <1>6, <1>7, <1>8, CleanOutcome

LEMMA CleanUnanswered ==
  ASSUME CallersInv, ConnsInv, CleanInv, NEW c \in Callers, Unanswered(c)
  PROVE  CleanInv'
<1> DEFINE w == cl[c].conn
<1>1. /\ cl[c].pc = "asked" /\ ~Alive(w) /\ Outcome(c, FALSE)
      /\ UNCHANGED <<todo, suspect, st, session>>
  BY DEF Unanswered, poolVars, connVars
<1>2. w \in Conns
  BY <1>1, OutcomeViews DEF CallersInv
<1> HIDE DEF w
<1>3. todo'[w] = <<>> /\ session'[w].owner = None
  BY <1>1, <1>2 DEF CleanInv, ReqOk, SessOk, Alive
<1>4. /\ ~Stale(todo'[w])
      /\ \A d \in Callers : Single(todo'[w], d)
      /\ \A d \in Callers : \A k : ~Pending(todo'[w], d, k)
  BY <1>3, NoRequest
<1>5. cl[c].conn = w
  BY DEF w
<1>6. suspect \subseteq suspect'
      /\ \A v \in Conns : v # w => /\ todo'[v] = todo[v] /\ session'[v] = session[v]
                                   /\ st'[v] = st[v]
  BY <1>1
<1> QED  BY <1>1, <1>2, <1>3, <1>4, <1>5, <1>6, CleanOutcome

\* The manager changes what callers hold only for those that hold nothing.
Answered == \A c \in Callers : cl'[c] = cl[c] \/ cl[c].conn = None

\* The processes become ps, except for one that may be opened.
Opened(ps) == \A w \in Conns : st'[w] = ps[w] \/ (st[w] = "none" /\ st'[w] = "up")

LEMMA AnsweredOne ==
  ASSUME Typed, NEW c \in Callers, Waits(c),
         Refused({c}) \/ \E w \in Conns : Lend(c, w)
  PROVE  Answered
<1>1. CASE Refused({c})
  <2>1. {c} \in SUBSET Callers /\ \A d \in {c} : Waits(d)
    OBVIOUS
  <2>2. \A d \in Callers : d \notin {c} => cl'[d] = cl[d]
    BY <1>1, <2>1, RefusedViews
  <2> QED  BY <2>2 DEF Answered, Waits
<1>2. ASSUME NEW w \in Conns, Lend(c, w)
      PROVE  Answered
  BY <1>2, LendViews DEF Answered, Waits
<1> QED  BY <1>1, <1>2

LEMMA OpenForAnswered ==
  ASSUME Typed, NEW p \in States, NEW ps \in [Conns -> {"none", "up", "closing", "dead"}],
         NEW c \in Callers, Waits(c), OpenFor(p, ps, c)
  PROVE  Answered /\ Opened(ps)
<1>1. CASE st' = ps /\ Refused({c})
  BY <1>1, AnsweredOne DEF Opened
<1>2. ASSUME NEW w \in Conns, st[w] = "none", Lend(c, w), st'[w] = "up",
             \A v \in Conns : v # w => st'[v] = ps[v]
      PROVE  Answered /\ Opened(ps)
  <2>1. Opened(ps)
    BY <1>2 DEF Opened
  <2> QED  BY <1>2, <2>1, AnsweredOne
<1>3. \/ /\ pool' = p /\ st' = ps /\ Refused({c})
      \/ \E w \in Conns :
           /\ st[w] = "none" /\ Lend(c, w)
           /\ st' \in [Conns -> {"none", "up", "closing", "dead"}] /\ st'[w] = "up"
           /\ \A v \in Conns : v # w => st'[v] = ps[v]
           /\ pool' \in States /\ pool'.idle = p.idle /\ pool'.waiters = p.waiters
           /\ pool'.checking = p.checking
           /\ pool'.busy = p.busy \union {w} /\ pool'.mons = p.mons \union {w}
  BY OpenForViews, Zenon
<1> QED  BY <1>1, <1>2, <1>3, Zenon

LEMMA ServeWaiterAnswered ==
  ASSUME CallersInv, NEW p \in States, p.waiters = pool.waiters,
         NEW ps \in [Conns -> {"none", "up", "closing", "dead"}], ServeWaiter(p, ps)
  PROVE  Answered /\ Opened(ps)
<1>1. CASE st' = ps /\ UNCHANGED cl
  BY <1>1 DEF Answered, Opened
<1>2. ASSUME p.waiters # <<>>, NEW q \in States, OpenFor(q, ps, Head(p.waiters))
      PROVE  Answered /\ Opened(ps)
  <2>1. Head(pool.waiters) \in Callers /\ Waits(Head(pool.waiters))
    BY <1>2, OldestWaits
  <2> QED  BY <1>2, <2>1, OpenForAnswered DEF CallersInv
<1>3. \/ st' = ps /\ UNCHANGED cl
      \/ p.waiters # <<>> /\ \E q \in States : OpenFor(q, ps, Head(p.waiters))
  BY ServeWaiterViews
<1> QED  BY <1>1, <1>2, <1>3

LEMMA HandOverAnswered ==
  ASSUME CallersInv, pool.waiters # <<>>, NEW w \in Conns, HandOver(w)
  PROVE  Answered
<1>1. Typed /\ Head(pool.waiters) \in Callers /\ Waits(Head(pool.waiters))
  BY OldestWaits DEF CallersInv
<1>2. Lend(Head(pool.waiters), w)
  BY <1>1, HandOverViews
<1> QED  BY <1>1, <1>2, AnsweredOne

\* The manager leaves the connections alone, opens one, or ends some.
LEMMA CleanManaged ==
  ASSUME CallersInv, CleanInv, suspect' = suspect, Answered,
         \/ UNCHANGED <<todo, session>> /\ Opened(st)
         \/ \E ws : /\ todo' = Emptied(ws) /\ Ended(ws)
                    /\ Opened(Killed(ws)) \/ st' = Killed(ws)
  PROVE  CleanInv'
<1>1. Typed
  BY DEF CallersInv
<1>2. CASE UNCHANGED <<todo, session>> /\ Opened(st)
  <2>1. \A w \in Conns : Undisturbed(w)
    BY <1>2 DEF Undisturbed, Opened
  <2> QED  BY <2>1, CleanKept DEF Answered
<1>3. ASSUME NEW ws, todo' = Emptied(ws), Ended(ws), Opened(Killed(ws)) \/ st' = Killed(ws)
      PROVE  CleanInv'
  <2>1. ASSUME NEW w \in Conns
        PROVE  Undisturbed(w)
    <3>1. /\ todo'[w] = IF w \in ws \intersect pool.mons THEN <<>> ELSE todo[w]
          /\ session'[w] = IF w \in ws \intersect pool.mons THEN Closed ELSE session[w]
          /\ Killed(ws)[w] = IF w \in ws \intersect pool.mons THEN "dead" ELSE st[w]
      BY <1>1, <1>3, EmptiedTyped, EndedTyped, KilledTyped
    <3>2. st'[w] = Killed(ws)[w] \/ (st[w] = "none" /\ st'[w] = "up")
      BY <1>3 DEF Opened
    <3> QED  BY <3>1, <3>2 DEF Undisturbed
  <2> QED  BY <2>1, CleanKept DEF Answered
<1> QED  BY <1>2, <1>3

LEMMA CleanHandleCheckout ==
  ASSUME CallersInv, CleanInv, HandleCheckout
  PROVE  CleanInv'
<1> DEFINE c == From
<1>1. Typed
  BY DEF CallersInv
<1>2. Receives("checkout") /\ Taken /\ UNCHANGED <<up, suspect, todo, session>>
  BY <1>1, HandleCheckoutCases
<1>3. c \in Callers /\ Waits(c)
  BY <1>2, AskerWaits
<1>4. \/ st' = st /\ (UNCHANGED cl \/ Refused({c}) \/ \E w \in Conns : Lend(c, w))
      \/ \E none \in States : OpenFor(none, st, c)
  BY <1>1, HandleCheckoutCases
<1> HIDE DEF c
<1>5. CASE st' = st /\ (UNCHANGED cl \/ Refused({c}) \/ \E w \in Conns : Lend(c, w))
  <2>1. Answered /\ Opened(st)
    BY <1>1, <1>3, <1>5, AnsweredOne DEF Answered, Opened
  <2> QED  BY <1>2, <2>1, CleanManaged
<1>6. CASE \E none \in States : OpenFor(none, st, c)
  <2>1. st \in [Conns -> {"none", "up", "closing", "dead"}]
    BY <1>1 DEF Typed, ConnsTyped
  <2>2. Answered /\ Opened(st)
    BY <1>1, <1>3, <1>6, <2>1, OpenForAnswered
  <2> QED  BY <1>2, <2>2, CleanManaged
<1> QED  BY <1>4, <1>5, <1>6

LEMMA CleanHandleCheckin ==
  ASSUME CallersInv, CleanInv, HandleCheckin
  PROVE  CleanInv'
<1>1. Typed
  BY DEF CallersInv
<1>2. From \in Conns /\ suspect' = suspect
  BY <1>1, HandleCheckinCases
<1>3. \/ UNCHANGED connVars /\ (UNCHANGED cl \/ (pool.waiters # <<>> /\ HandOver(From)))
      \/ st' = Killed({From}) /\ todo' = Emptied({From}) /\ Ended({From}) /\ UNCHANGED cl
  BY <1>1, HandleCheckinCases
<1>4. Answered
  BY <1>2, <1>3, HandOverAnswered DEF Answered
<1>5. UNCHANGED connVars => UNCHANGED <<todo, session>> /\ Opened(st)
  BY DEF connVars, Opened
<1> QED  BY <1>2, <1>3, <1>4, <1>5, CleanManaged

LEMMA CleanHandleDown ==
  ASSUME CallersInv, CleanInv, HandleDown
  PROVE  CleanInv'
<1>1. pool \in States /\ st \in [Conns -> {"none", "up", "closing", "dead"}]
  BY DEF CallersInv, Typed, ConnsTyped
<1>2. UNCHANGED <<suspect, todo, session>> /\ ServeWaiter(Retired(pool, {From}), st)
  BY DEF HandleDown, Quiet
<1>3. Retired(pool, {From}) \in States /\ Retired(pool, {From}).waiters = pool.waiters
  BY <1>1, RetiredViews
<1>4. Answered /\ Opened(st)
  BY <1>1, <1>2, <1>3, ServeWaiterAnswered
<1> QED  BY <1>2, <1>4, CleanManaged

LEMMA CleanWaiterTimeout ==
  ASSUME CallersInv, CleanInv, WaiterTimeout
  PROVE  CleanInv'
<1>1. Typed
  BY DEF CallersInv
<1>2. UNCHANGED <<suspect, connVars>> /\ (UNCHANGED cl \/ (From \in Parked /\ Refused({From})))
  BY <1>1, WaiterTimeoutCases
<1>3. Answered
  <2>1. From \in Parked => From \in Callers /\ Waits(From)
    <3>1. Parked \subseteq Callers
      BY <1>1 DEF Parked, Typed, States, ToSet
    <3> QED  BY <3>1 DEF CallersInv, Asking
  <2> QED  BY <1>1, <1>2, <2>1, AnsweredOne DEF Answered
<1>4. UNCHANGED <<suspect, todo, session>> /\ Opened(st)
  BY <1>2 DEF connVars, Opened
<1> QED  BY <1>3, <1>4, CleanManaged

LEMMA CleanMaintenance ==
  ASSUME CallersInv, CleanInv, Maintenance
  PROVE  CleanInv'
<1>1. Typed
  BY DEF CallersInv
<1>2. UNCHANGED <<suspect, cl>>
  BY <1>1, MaintenanceViews
<1>3. PICK retired \in SUBSET ToSet(pool.idle) :
        /\ st' = Killed(retired) /\ Ended(retired)
        /\ \A w \in Conns :
             \/ todo'[w] = Emptied(retired)[w]
             \/ /\ todo'[w] = Append(todo[w], Request(Ping, "ping"))
                /\ Alive(w) /\ w \notin retired
  BY <1>1, MaintenanceViews
<1>4. ASSUME NEW w \in Conns
      PROVE  Undisturbed(w)
  <2>1. /\ Emptied(retired)[w] = IF w \in retired \intersect pool.mons THEN <<>> ELSE todo[w]
        /\ session'[w] = IF w \in retired \intersect pool.mons THEN Closed ELSE session[w]
        /\ st'[w] = IF w \in retired \intersect pool.mons THEN "dead" ELSE st[w]
    BY <1>1, <1>3, EmptiedTyped, EndedTyped, KilledTyped
  <2> QED  BY <1>3, <2>1 DEF Undisturbed
<1> QED  BY <1>2, <1>4, CleanKept

LEMMA CleanPingDone ==
  ASSUME CallersInv, CleanInv, PingDone
  PROVE  CleanInv'
<1>1. Typed
  BY DEF CallersInv
<1>2. From \in Conns /\ suspect' = suspect
  BY <1>1, PingDoneCases
<1>3. \/ UNCHANGED connVars /\ (UNCHANGED cl \/ (pool.waiters # <<>> /\ HandOver(From)))
      \/ /\ todo' = Emptied({From}) /\ Ended({From})
         /\ \E p \in States : /\ p.waiters = pool.waiters
                              /\ ServeWaiter(Retired(p, {From}), Killed({From}))
  BY <1>1, PingDoneCases
<1>4. CASE UNCHANGED connVars /\ (UNCHANGED cl \/ (pool.waiters # <<>> /\ HandOver(From)))
  <2>1. Answered
    BY <1>2, <1>4, HandOverAnswered DEF Answered
  <2>2. UNCHANGED <<todo, session>> /\ Opened(st)
    BY <1>4 DEF connVars, Opened
  <2> QED  BY <1>2, <2>1, <2>2, CleanManaged
<1>5. ASSUME todo' = Emptied({From}), Ended({From}), NEW p \in States, p.waiters = pool.waiters,
             ServeWaiter(Retired(p, {From}), Killed({From}))
      PROVE  CleanInv'
  <2>1. Retired(p, {From}) \in States /\ Retired(p, {From}).waiters = pool.waiters
        /\ Killed({From}) \in [Conns -> {"none", "up", "closing", "dead"}]
    BY <1>1, <1>5, RetiredViews, KilledTyped
  <2>2. Answered /\ Opened(Killed({From}))
    BY <1>5, <2>1, ServeWaiterAnswered
  <2> QED  BY <1>2, <1>5, <2>2, CleanManaged
<1> QED  BY <1>3, <1>4, <1>5

LEMMA CleanClose ==
  ASSUME CallersInv, CleanInv, Close
  PROVE  CleanInv'
<1>1. /\ st' = Killed(pool.mons) /\ todo' = Emptied(pool.mons) /\ Ended(pool.mons)
      /\ suspect' = suspect
      /\ \A d \in Callers : (d \notin Parked => cl'[d] = cl[d])
  BY CloseViews
<1>2. \A d \in Callers : d \in Parked => cl[d].conn = None
  BY DEF CallersInv, Asking, Waits
<1>3. Answered
  BY <1>1, <1>2 DEF Answered
<1> QED  BY <1>1, <1>3, CleanManaged

LEMMA CleanCaller ==
  ASSUME CallersInv, ConnsInv, CleanInv, NEW c \in Callers, Caller(c) \/ TimerFires(c)
  PROVE  CleanInv'
<1>1. Typed /\ cl \in [Callers -> Callings] /\ cl[c] \in Callings
  BY DEF CallersInv, Typed
<1>2. ASSUME UNCHANGED <<st, todo, session, suspect>>,
             \A d \in Callers :
               \/ cl'[d] = cl[d]
               \/ cl[d].conn = None
               \/ /\ cl'[d].conn = cl[d].conn /\ cl'[d].depth = cl[d].depth
                  /\ cl'[d].verb = cl[d].verb /\ cl'[d].pc = "dead"
      PROVE  CleanInv'
  <2>1. \A w \in Conns : Undisturbed(w)
    BY <1>2 DEF Undisturbed
  <2> QED  BY <1>2, <2>1, CleanKept
<1>3. CASE Checkout(c) \/ PoolGone(c)
  <2>1. cl[c].conn = None /\ UNCHANGED <<st, todo, session, suspect>>
    BY <1>1, <1>3 DEF Checkout, PoolGone, Callings, connVars
  <2>2. \E r : cl' = [cl EXCEPT ![c] = r]
    BY <1>3 DEF Checkout, PoolGone
  <2>3. \A d \in Callers : d # c => cl'[d] = cl[d]
    BY <1>1, <2>2
  <2> QED  BY <1>2, <2>1, <2>3
<1>4. CASE Die(c)
  <2>1. cl' = [cl EXCEPT ![c].pc = "dead"] /\ UNCHANGED <<st, todo, session, suspect>>
    BY <1>4 DEF Die, connVars
  <2>2. /\ \A d \in Callers : d # c => cl'[d] = cl[d]
        /\ cl'[c].conn = cl[c].conn /\ cl'[c].depth = cl[c].depth
        /\ cl'[c].verb = cl[c].verb /\ cl'[c].pc = "dead"
    BY <1>1, <2>1 DEF Callings
  <2> QED  BY <1>2, <2>1, <2>2
<1>5. CASE CloseHandle(c) \/ TimerFires(c)
  <2>1. UNCHANGED <<st, todo, session, suspect, cl>>
    BY <1>5 DEF CloseHandle, TimerFires, connVars
  <2> QED  BY <1>2, <2>1
<1>6. CASE Borrow(c)
  <2>1. cl[c].pc = "lent" /\ cl[c].conn \in Conns /\ cl[c].depth = 0
    BY <1>1, <1>6 DEF Borrow, Callings
  <2>2. PICK verb \in {"call", "begin"} : Ask(c, cl[c].conn, verb)
    BY <1>6 DEF Borrow
  <2>3. [cl[c] EXCEPT !.pc = "asked", !.verb = verb, !.conn = cl[c].conn] \in Callings
    BY <1>1, <2>1 DEF Callings, Pcs, Verbs
  <2>4. verb \in Verbs \ {"ping"} /\ UNCHANGED <<st, session, suspect>>
    BY <1>6 DEF Verbs, Borrow
  <2> QED  BY <2>1, <2>2, <2>3, <2>4, CleanAsk
<1>7. CASE PinnedVerb(c)
  <2>1. cl[c].pc = "rest" /\ cl[c].conn \in Conns
    BY <1>1, <1>7, PinnedVerbViews
  <2>2. PICK verb \in Verbs \ {"ping", "begin"} :
          /\ Ask(c, cl[c].conn, verb)
          /\ [cl[c] EXCEPT !.pc = "asked", !.verb = verb, !.conn = cl[c].conn] \in Callings
    BY <1>1, <1>7, PinnedVerbViews
  <2>3. verb \in Verbs \ {"ping"} /\ UNCHANGED <<st, session, suspect>>
    BY <1>7 DEF PinnedVerb
  <2> QED  BY <2>1, <2>2, <2>3, CleanAsk
<1> QED  BY <1>3, <1>4, <1>5, <1>6, <1>7, CleanTimeout, CleanUnanswered DEF Caller

LEMMA CleanConn ==
  ASSUME CallersInv, ConnsInv, CleanInv, NEW w \in Conns, Conn(w)
  PROVE  CleanInv'
<1>1. Typed
  BY DEF CallersInv
<1>2. CASE Exits(w)
  <2>1. /\ todo'[w] = <<>> /\ session'[w] = Closed /\ UNCHANGED <<cl, suspect>>
        /\ \A v \in Conns : v # w =>
             session'[v] = session[v] /\ st'[v] = st[v] /\ todo'[v] = todo[v]
    BY <1>1, <1>2, ExitsViews
  <2>2. \A v \in Conns : Undisturbed(v)
    BY <2>1 DEF Undisturbed
  <2> QED  BY <2>1, <2>2, CleanKept
<1>3. CASE PingTimeout(w)
  <2>1. UNCHANGED <<st, todo, session, cl, suspect>>
    BY <1>3 DEF PingTimeout, connVars
  <2>2. \A v \in Conns : Undisturbed(v)
    BY <2>1 DEF Undisturbed
  <2> QED  BY <2>1, <2>2, CleanKept
<1> QED  BY <1>2, <1>3, CleanServe, CleanBreaks DEF Conn

LEMMA CleanInit ==
  ASSUME Init
  PROVE  CleanInv
<1> SUFFICES ASSUME NEW w \in Conns
             PROVE  ReqOk(w) /\ SessOk(w)
  BY DEF CleanInv
<1>1. todo[w] = <<>> /\ session[w].owner = None
  BY DEF Init, Closed
<1>2. ReqOk(w)
  BY <1>1, NoRequest DEF ReqOk
<1> QED  BY <1>1, <1>2 DEF SessOk

LEMMA CleanNext ==
  ASSUME CallersInv, ConnsInv, CleanInv, [Next]_vars
  PROVE  CleanInv'
<1>1. CASE Manager
  BY <1>1, CleanHandleCheckout, CleanHandleCheckin, CleanHandleDown, CleanWaiterTimeout,
     CleanMaintenance, CleanPingDone, CleanClose DEF Manager
<1>2. ASSUME NEW c \in Callers, Caller(c) \/ TimerFires(c)
      PROVE  CleanInv'
  BY <1>2, CleanCaller
<1>3. ASSUME NEW w \in Conns, Conn(w)
      PROVE  CleanInv'
  BY <1>3, CleanConn
<1>4. CASE Tick \/ UNCHANGED vars
  <2>1. UNCHANGED <<st, todo, session, cl, suspect>>
    BY <1>4 DEF Tick, vars, connVars
  <2>2. \A w \in Conns : Undisturbed(w)
    BY <2>1 DEF Undisturbed
  <2> QED  BY <2>1, <2>2, CleanKept
<1> QED  BY <1>1, <1>2, <1>3, <1>4 DEF Next

\* A connection whose session has a transaction open is held by the caller that began it, unless a
\* request on it timed out: commit, rollback and the death of the process end the transaction
\* before the checkin, at every depth of nesting and whatever statement failed in it.
THEOREM ComesBackClean == Spec => []ReturnedClean
<1>1. Init => CallersInv /\ ConnsInv /\ CleanInv
  BY CallersInit, ConnsInit, CleanInit
<1>2. CallersInv /\ ConnsInv /\ CleanInv /\ [Next]_vars => (CallersInv /\ ConnsInv /\ CleanInv)'
  BY CallersNext, ConnsNext, CleanNext
<1>3. CleanInv => ReturnedClean
  BY DEF CleanInv, SessOk, ReturnedClean
<1> QED  BY <1>1, <1>2, <1>3, PTL DEF Spec
=============================================================================
