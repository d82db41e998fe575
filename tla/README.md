# Ridge: a TLA+ verification of its runtime

Ridge is a compiler (Rust) from a small actor language to the BEAM, with a
runtime in Erlang and a small native library in C.  Most of the repository is
pure translation.  The parts where processes race, die, time out and retry are the
**hot reload** (replacing the code of a running node under its actors, and knowing
afterwards what happened), the **messages** between actors that go on during it, and
the **database drivers** (PostgreSQL's connection pool, SQLite's shared connection, and
the transactions of both).  This directory
models these parts, model-checks them with TLC and proves the core of the hot
reload with TLAPS.

## 1. Inventory

| Component | Where | State | Operations | What makes it correct |
|---|---|---|---|---|
| Admission server | `ridge_loader.erl` 216-300 | `?VSN_KEY`, `?ACTIVE_KEY` (the fence), the registered owner | `apply`, `apply_bundle` | one reload at a time, none over a fence |
| Applicator | `ridge_loader.erl` 526-592, 847-861, 1047-1130 | cohort, progress | suspend, commit, load, migrate, refresh, finish | its answer is true |
| Recovery owner | `ridge_loader.erl` 594-845 | phase, suspensions journal | `recovery_loop`, abort, complete | every suspension is settled, old state never resumes on new code |
| Startup gate | `ridge_rt.erl` 2827-3083 | readers, writer, waiting, resumes, fenced | enter, leave, begin_reload, suspended, check, commit, abort, finish | an actor being born and a reload exclude each other without deadlock |
| State migration | `check.rs`, `scaffold.rs`, `driver/reload.rs`, `actor.rs`, `ridge_rt.erl` 3470-3510, `ridge_loader.erl` 1065-1130 | the actor's state map, the version history | classify, plan, change_code, retry | declared fields with declared types, no value lost |
| Receipt registry | `ridge_loader.erl` 33-203 | incarnation, receipts | reserve, submit, query, cancel, events, prune | a receipt tells the truth; an operation runs at most once |
| Reload client | `ridge-cli/src/cmd/reload.rs`, `reload_receipts.rs` and its probe | lock, snapshot, journal | compile, plan, reserve, journal, submit, poll, finish, recover | a crash anywhere is recovered without a second application |
| Purge worker | `ridge_loader.erl` 862-1006 | pending purges | schedule, pause, resume | old code leaves only when nobody runs it |
| Record migration | `ridge_rt.erl` 3515-3720, `actor.rs` 986-1018 | version caches, evidence generation | `migrate_message`, `migrate_value`, invalidate | a value reaches code of its own version |
| Messaging | `ridge_rt.erl` 2515-2815 | mailboxes, calls under way | send, ask, timers | bounds, every ask ends, late answers |
| PostgreSQL pool | `ridge_pg.erl` 78-401, 479-915 | the manager's idle, busy, mons, checking, waiters; timers; the pin in each caller's process dictionary; the server's session | checkout, checkin, DOWN, waiter timeout, maintenance, health checks, close; begin, commit, rollback | a connection has one borrower and no foreign transaction, none is lost, every checkout is answered |
| SQLite worker | `ridge_sqlite.erl` 176-450, 491-536 | registry entry, mailbox, depth, tx_level, ru_on | connect, verbs, begin, commit, rollback, close | nested transactions, whoever shares the handle |
| SQLite bridge | `native/sqlite_nif.c` | `conn_t`, statements, row array | open, close, exec, query, destructor | no call on a closed handle, no leak on any way out |
| In-memory store | `ridge_rt.erl` 3840-4115 | tables, a transaction stack per caller | the verbs of the adapters | the same nested transactions |
| Language server | `ridge-lsp/src/server.rs` | generation, dirty set, tasks | change, debounce, compile, publish | the newest text is compiled, stale results are dropped |
| Front end, lowering, code generation, packages, formatter | other crates | none beyond one run | pure functions | out of reach as wholes |

How they interact: a client talks to the registry by rpc (each request may be
lost, late, or answered to nobody); a worker of the registry calls the admission
server, which acts as the applicator; the applicator calls the owner, the owner
calls the gate and suspends actors with `sys`; initializers of actors call the
gate; the code server completes a load whoever is still alive; monitors tell the
survivors.  Messages that waited while an actor was suspended were built by older code
and are migrated when they are received, with the help of a cache of record versions
that the loader erases.  A caller of PostgreSQL asks the pool manager for a connection process,
talks to it directly and gives it back by a message that nobody acknowledges; the
manager monitors connections but not callers, and is itself driven by timers, health
checks and DOWNs through one mailbox.  Callers of SQLite share the worker of a handle,
which makes one native call at a time, on a dirty scheduler; the native library takes
no lock.  The hard behaviours are therefore interleaving, death between any two
steps, and timeouts whose answer comes late.  `PROJECT.json` lists them as hazards,
each at its line.

## 2. Modules

| Module | Models | Extends / instantiates |
|---|---|---|
| `HotReload` | gate, owner, applicator, code server, actors | `UpgradePromise` (INSTANCE) |
| `UpgradePromise` | the abstract promise: one version of user code at a time, on state of that version | |
| `HotReloadInv` | the inductive invariant `IInv` | `HotReload` |
| `HotReloadProofs` | the theorems | `HotReloadInv`, TLAPS |
| `ActorMigration` | one actor's state over a chain of reloads | |
| `ReloadReceipts` | clients, registry, and the node reduced to what `HotReload` shows of it | |
| `NestedTx` | the abstract promise of a connection: writes, and transactions that nest | |
| `SqliteNif` | `sqlite_nif.c` over one connection, one step per call into SQLite, which is external | |
| `SqliteConn` | the worker of a handle, its clients, the registry entry | `SqliteNif`; `NestedTx` (INSTANCE) |
| `PgPool` | pool manager, callers with pinned transactions, connection processes, sessions | |
| `PgPoolProofs` | the theorems about borrowing, waiting and the size of the pool | `PgPool`, `CountingLemmas` |
| `CountingLemmas` | lemmas about the places of a sequence, and about least and largest numbers | `FiniteSetTheorems`, TLAPS |
| `SqliteProofs` | the theorems about native calls, handles and statements | `SqliteConn`, `CountingLemmas` |
| `SqliteTxProofs` | the theorems about transactions, with the refinement of `NestedTx` | `SqliteProofs` |
| `MessagesProofs` | the theorems about versions, requests and mailboxes | `Messages`, `CountingLemmas` |
| `ReceiptsProofs` | the theorems about journals and receipts | `ReloadReceipts`, TLAPS |
| `MigrationProofs` | the theorems about the state of an actor | `ActorMigration`, TLAPS |
| `Messages` | senders, one actor, its mailbox and its receive path, the cache of record versions, and a reload reduced to what these see of it | |
| `MCHotReload`, `MCActorMigration`, `MCReloadReceipts`, `MCMessages`, `MCSqliteConn`, `MCPgPool` | instances and symmetry for TLC | |

Operators whose comment starts with "Mutant:" are plausible bugs, one per
property, used to show that the property notices them; no specification uses them.

### HotReload

`life` is where an actor process is (unborn, asking the gate, initializing,
ready, suspended, dead...); `stale` holds what of its state is still in the form
of older code; `args` where its init arguments come from.  `up`, `enters`, `readers`,
`waiting`, `writer`, `marks`, `resumes`, `aborting`, `fenced` are the gate's loop state
and mailbox; `opc`, `phase`, `owned`, `cand`, `todo`, `orphan`, `safe`, `strays` the owner;
`wpc`, `cohort`, `wtodo`, `result` the applicator; `fence`, `vsn`, `code`, `swap` the
persistent terms and the code server.  One action per handler or per step between
two points where another process can be observed.

Decisions: a call of the owner to the gate is one step of both (the owner waits, and
what the gate does is atomic); a request of a process that dies is either handled
before its death or never sent.  `kill` makes a process dead at once; a kill that is
not confirmed in time is a fault that makes the outcome unsafe.  The load is two
steps, request and effect, so that the applicator can die in between.  An
applicator that dies just after spawning its owner leaves a stray owner, which
registers late.  `{ridge_startup_cancelled}` is ignored by the owner and left out, as are
gen_servers that are not Ridge actors, the seeding of a node without version, and
preflight, which only rejects.

The documents say in one place that actors are resumed on the error path
(`docs/hot-reload-design.md` 184-188); after the commit grant the code stops the ones
it cannot trust.  The model follows the code.

### ActorMigration

A declaration is a sequence of fields with type and default; an edit is any
other declaration, with `migrate` members for the current or older versions.
`Verdict`, `Rename` and `Holes` are the planner's rules; `Change` is `code_change`;
`msgs` is the mailbox of `change_code` requests, so that a request that timed out is
still handled, before the retry.  Values carry the type they were stored with and
their origin; origins are relabelled at each plan because handlers have run in
between.  A layout stands for its hash.  A hook is any function that is well typed from the
version its clause is for: it raises, or returns a whole new state whose fields it computes
or copies from fields declared with the same type (`HookTypes`).  The loader chooses the clause
by the FROM hash and not by the state, so the retry of a `change_code` that timed out may run
it on a state it has migrated already, and then what it copies may have any type; `rerun` is
history and says that this has happened.  (A raise is caught by gen_server and answered as an
error; the comment at `ridge_loader.erl` 1101-1104 expects the actor to die.)

### ReloadReceipts

The node is reduced to prepared, loaded, published, unfenced; `told` marks an
operation whose applicator has failed while the owner goes on.  `wire` holds
requests that may be handled late; `ask` the one a client still waits for.  Composing
a receipt is two steps (`view`), because admission runs beside the registry.  The
client's files are `snap` and `journal`; the lock is that a workspace has one `pc`.
`Build` changes the snapshot only: `ridge build` also overwrites the `.beam` files a
payload is copied from (`reload.rs` 288, `reload_receipts.rs` 118-121), which no property here
looks at.  Payloads are frozen before the reservation, so digests agree and
`operation_conflict` cannot occur; the three phases of a receipt move together as far
as a client can tell and are one flag, `committed`.  The protocol handshake is part of
`Start`.

### Messages

`snd[s]` is a sender between the steps of a send or an ask: `resolve_handle_pid`, the look
at `message_queue_len`, the cast; or the call, which waits for the answer, the death of the
process it went to (`inc` is the incarnation a supervised handle found) or a deadline.
`mbox` is the actor's mailbox and `actor` the child: `match` is where `migrate_tagged` compares
the tag of a record with the versions it knows, `store` the time between reading them from
the code and putting them into the cache.  `code` and `cache` are the versions that are loaded
and cached; `phase` is a reload, of which only the suspension between two messages, the load,
the erasure of the cache and the resumption matter here (`HotReload` has the rest).  `bind`
is any process outside the cohort, `main` for instance, that migrates a collection and so
fills the same cache without being suspended.  `late` is history: it stored versions that
had been erased.

A record is its version, and any version up to the loaded one: a sender outside the cohort
may still run old code, or hold an old value.  A message that holds a single record is compared once more before
the walk, by the fast path of `migrate_message`; the answer is the same.  `waits` says that
somebody still waits for the answer of a request; the platform throws other answers away.
The step from one version to another goes to the loaded one: an edge is a function of the
loaded code whose result has its shape.

Left out: what a handler does, other than return or raise; nested values and collections;
timers, monitors of handles and `mailbox_size`, which only read.

### SqliteNif and SqliteConn

`call[p]` is the native call process p is in, between two calls into SQLite; any
process may make one, because nothing in the C code prevents it (`sqlite_connect`
runs natively in the caller, everything else in the worker).  `conn` is `conn_t`,
`stmts` who has a prepared statement, `db` what SQLite does with transactions: rows
committed, rows visible, and the savepoint stack, on which BEGIN is name 0.  A
statement may fail wherever the bridge checks a return code, an allocation may fail
wherever it checks for NULL.  When a statement fails SQLite does nothing to the open
transaction or takes the whole of it back (`RolledBack`: a full disk, an I/O error, no
memory, a COMMIT that fails otherwise than on a lock); the bridge reports both as an error.
Preparing and binding are one step, as no other
process can tell them apart.

`SqliteConn` puts the worker and its clients around it.  `cur` is the request the worker
serves and where it is in `handle_request` (`relax`, `begin`, `undo`, `nest`, `unnest`,
`end`, `restore`, `create`, `run`, `close`), one stage per native call it waits for;
`depth`, `level`, `ruOn` are its State.  `cl[c].frames` is what client c believes it has
open, as `Repo.transaction` nests it; `told`, `kept`, `undone` remember what clients were
told.  A client that gives up leaves its request behind (`Orphan`).  A handle is
opened once in a behaviour.  `torn` is history: SQLite has taken back a transaction that
`depth` still counts.

`ImplementsNestedTx` maps the connection to `NestedTx`: `durable` and `visible` are SQLite's,
`open` lists for each level the snapshot of the last savepoint of that name.  While `torn`, `broken` holds: after `TxBreaks`, the
engine taking the transaction back, `NestedTx` promises only that nothing durable is lost
(`TxBroken`), until the user's depth is 0 and everything is as after a commit or rollback
(`TxMends`).  ROLLBACK TO leaves its savepoint on the stack, so the stack is longer than the nesting; the
worker's `depth` is the nesting except between a statement and its answer, which
`Nesting` accounts for.

### PgPool

`mbox` is the manager's mailbox, `pool` its State, `timers` the armed waiter timers;
each handler of `pool_loop` is one action, with the replies it sends.  `st[w]` is a
connection process: `closing` is the time between the answer that reports a broken
socket and the end of the process, in which `is_process_alive` still says true.
`todo[w]` is its mailbox, `session[w]` the server's side of it.  `cl[c]` is a caller: the
pin is `conn` with `depth`.  A request carries `waits`, FALSE once its caller gave up.
Which maintenance windows have passed is the clock's choice, so `Maintenance` picks any
fate for each idle connection.  `suspect` is history, for the properties.
The bounds stop the model and nothing else: a connect beyond `MaxOpened` is refused, as
any connect may be.

Left out: `get_default_isolation` (a read), `checkout_cancel` (no code sends it), `meta` (the
clock), the retries inside one connect.  `do_connect` catches what is thrown, but an
unexpected byte where the server's answer to the start of a session is read
(`ridge_pg.erl` 1391-1397, 1409-1422, 1440-1455) is a crash of the manager; the model's
manager ends only by `close`.  After an SQL error `drain_until_ready` (1624-1633) swallows a
transport fault, so that the process of a broken socket stays and is lent again until a
request or a ping finds out; the model ends it.

## 3. Runs

Deadlock checking is off where a system may rest: an idle node with its bounds
used up, or a client that must wait for its operator.

| Run | Bounds | Shows |
|---|---|---|
| `reload_twice` | 2 running actors (one legacy, one changed) + 1 starting, 2 reloads, 2 faults | `NoStaleExecution`, `UnfencedIsWhole`, `AnswersAreTrue`, `SwapAlone`, `ParkedArgsMigrated`, `OwnerAssertions`, refinement of `UpgradePromise` |
| `reload_live` | 2 actors that start each other, 1 fault, fair | `StartsEnd`, `SuspensionEnds`, `ReloadEnds` |
| `migrate_chain` | 8 declarations with at least one field, hooks for any version or none, 2 reloads | `WellShaped`, `ValuesKept`, `PlainSurvives`, `ThroughHook` |
| `receipts_faults` | 1 workspace, 2 operations, registry limit 1, 2 faults, fair | `Journalled`, `ReceiptsTrue`, `ClosedTrue`, `PendingSettles` |
| `messages` | 2 senders (one asks), error-policy mailbox of 1, 3 messages, 2 reloads, no edge from version 1 to 3, 1 death, fair | `HandlersSeeCurrent`, `OnlyGapsDropped`, `SoftBound`, `AsksEnd` |
| `sqlite_conn` | 2 clients, 2 writes, 5 requests, 2 levels of nesting, 1 fault, row array of 1 to start with | `HandleHeld`, `NothingLeaks`, `RelaxedOnlyInTx`, `InStepAtomic`, refinement of `NestedTx` |
| `pg_pool` | 3 callers, pool of 1, queue of 2, 2 connections in all, 3 verbs, 2 levels of nesting, 1 error, 1 timeout or death, 1 sweep, fair | `OneBorrower`, `Accounted`, `WithinMax`, `WaitsForAReason`, `RoomIsOffered`, `ReturnedClean`, `CheckoutEnds` |

The bounds are enough for the interesting cases: a third actor is born while two
are suspended; two faults kill any two of gate, owner and applicator; a second
reload meets what the first left behind; a registry limit of one makes the second
reservation meet a full registry; two faults allow a lost answer and a crash, or a
crash and an expired receipt, in one behaviour.  Three messages of two senders put one
more than its bound into a mailbox of one, beside an ask that the bound does not stop; two
reloads make a queued record two versions old, with and without the edge it needs; one
death takes the actor between the resolution of a handle and the use of it.  The other two
mailbox policies are the same actions without `MailboxFull` (and, for the unbounded one,
without `Measure`).  Five requests of two clients hold
a nested transaction with an interfering verb of the other client, or a failed
commit and what follows it; two rows make the row array of one grow; one fault is
a failed statement that SQLite takes the transaction back for.  Three callers
and one connection give a borrower and two waiters, or, while the connection is being
pinged, a full queue and one who is turned away; a second connection replaces one that died, or cannot be
opened, which leaves a waiter beside room; three verbs open a nested
transaction and end its inner level, well or badly, while others wait (not also the outer
one after it: that is left to the proof of `ReturnedClean`); one sweep checks or retires
the connection while a caller holds or awaits it.  Two connections at a time are too many for
a run of `CheckoutEnds`; every safety property of the pool is proved for any number.

Five runs expect a violation; each states a sentence of the repository that the
code does not keep.  `PROJECT.json` quotes the sentences.

| Run | Sentence | What happens |
|---|---|---|
| `migrate_stateless` | "drop keys that no longer exist" | an empty declaration keeps them, and a later field of another type finds one |
| `receipts_label` | "the version of the code it runs" | sources edited between compiling and planning name the code compiled before |
| `sqlite_busy` | "It commits and returns the value when the body answers `Ok`" | a COMMIT that fails, on a locked database for instance, leaves the transaction open at depth 1; what the handle is asked next runs inside it, answers Ok, and is not durable |
| `sqlite_full` | the same | a statement that fails on a full disk, for instance, makes SQLite take the transaction back; the worker still counts it, and the commit is answered Ok for a row that is gone |
| `pg_timeout` | "the connection stays borrowed for the transaction's whole span" | a BEGIN that timed out takes effect after its connection was checked in and lent to somebody else |

More observations, made while modelling, have no run of their own.  About the hot
reload:

* `ridge_loader.erl` 1099 justifies the retry of a migration with "migrations are
  idempotent" (also `docs/spec.md` 2323-2324).  For a user hook nothing makes them so: a hook
  slower than the call's timeout is run again on the state it has just migrated.  One that
  swaps `a: Int` and `b: Text`, run twice, answers ok with an Int under a Text field, and the
  actor serves with it.  `WellShaped` excepts the types, and not the fields, after such a second run
  (`rerun`); without the exception TLC finds it.  `ValuesKept` shows that the automatic instructions
  do not mind.
* A `sys:suspend` that times out may take effect late.  The owner kills the actor at once
  (`ridge_loader.erl` 749-751); the model makes the timeout and the kill one step, so
  neither `NoStaleExecution` nor `SuspensionEnds` says anything of a suspension in between.
* `reload.rs` 263: "`Ok(None)` means the node already runs this code".  The baseline is
  whatever was built last, by any `ridge build`, so after a plain build the command
  finds no difference and says so although the node runs older code.
* A rejection with `base_version_mismatch` is settled as unknown (`reload_receipts.rs`
  224-232): the snapshot is removed and the journal kept, where
  `hot-reload-design.md` 221 says that a confirmed rejection restores the snapshot.
  `PendingSettles` names this case among the unprovable ones.
* A `migrate` member for an older version, left in the source, makes a change that was
  reported as automatic ("state field gets its default", `check.rs` 304) select the
  hook form (`driver/reload.rs` 380); no clause matches, the retry raises too, and the
  actor is killed.  `PlainSurvives` holds only for sources without such a member.
* `receipt_view` reads version and fence one after the other and compares generations
  in between ("Do not combine observations from different committed code generations",
  `ridge_loader.erl` 136-137).  The generation moves at the load, not at the publication:
  a reload that had loaded before the first reading publishes and drops its fence
  between the two, and the receipt shows the old version without a fence.

About messages:

* The cache of record versions says of itself that invalidation makes "the next tagged
  message" re-read the versions "from the new code" (`ridge_rt.erl` 3673-3676).  A process
  that is not suspended may read the old versions before the load and put them after the
  erasure (3663-3664).  From then on, until the next reload of the module, handlers of the
  new code are given old records, and current ones are looked up as if they were old and
  dropped.  Without `~late` TLC finds this in `HandlersSeeCurrent`: look up, load,
  erase, resume, store, receive.
* A message without an edge is dropped for an ask too, with no answer
  (`actor.rs` 976-980 says so: "the caller's ask times out").  An ask with
  `timeout never` waits until the actor dies.  `AsksEnd` names exactly this case.
* A send that answers ok may have been dropped: by the `drop_newest` policy, by the death of
  the actor it was queued for, or by a missing edge.  An answered ask says nothing of
  sends before it where one of these can happen.

About the databases:

* `ridge_pg.erl` 897-901: a transport fault "is answered once and then ends the process,
  so the pool drops the broken socket on its DOWN rather than lending it out again".
  The answer comes before the close; a caller that checks in at once finds the process
  alive, and the connection is idle, or lent, until its DOWN arrives.  The next
  borrower waits for the query timeout.
* A caller that dies with a connection, or while one is on its way to it, keeps it for
  ever: only connections are monitored.  `Accounted` allows exactly this.
* When `serve_waiter` cannot connect it answers the oldest waiter only; the rest stay
  parked, with room in the pool, until another event or their timers.  `RoomIsOffered` names this
  step (`TurnsAway`) as the only one after which callers newly wait beside room;
  `CheckoutEnds` holds for them by their timers.
* The manager connects inside its loop: while it does, timers, checkins and closes
  wait, and a `begin` falls back to `read_committed` after five seconds
  (`ridge_pg.erl` 188-195) whatever the pool's default isolation is.
* PostgreSQL answers the COMMIT of an aborted transaction with success (it rolls back),
  and the driver does not look at the command tag.
* After an error on which SQLite itself takes the transaction back, `depth` stays, later
  inserts commit one by one and savepoints open transactions of their own: the run `sqlite_full`.
  If the error is that of COMMIT, `close_tx` also skips `maybe_restore_ru`, so relaxed reads
  stay on outside any transaction, where the comment on `open_tx` says "the connection never
  keeps relaxed reads without an open transaction".  `RelaxedOnlyInTx`, `InStepAtomic` and
  `NestedTx` except such a transaction by name (`torn`), and nothing else.
* A nested rollback leaves its savepoint: in a long transaction with many failing inner
  ones, SQLite's stack grows until the outermost end.
* A value that `to_cell` has no clause for (an array in an array) ends the worker, and the
  handle with it.

**Fairness.**  `HotReload!FairSpec` gives weak fairness to the steps of live processes
only: gate, owner, applicator, code server, resume workers, and initializers, which
the BEAM schedules preemptively and whose receives have timeouts or monitors.
Faults and user crashes are never obliged to happen; user code is obliged to return.
`SuspensionEnds` holds with at most one fault: if owner and applicator die together the
fence stays up and the code asks for a restart.  `ReloadReceipts!FairSpec` gives strong
fairness to the registry's mailbox (served in order, so no request is passed over
for ever) and weak fairness to the node and to a user who repeats the command.
`Messages!FairSpec` gives strong fairness to the receipt of a message, because the request
to suspend waits in the same queue and cannot overtake messages for ever; weak fairness to the
actor's steps, whose handlers return, to a reload that has begun, and to the monitor
of a call.  Nobody is obliged to send, to restart the actor or to set a deadline.
`PgPool!FairSpec` obliges the manager to take its next message, armed timers to fire,
and the runtime to deliver the manager's DOWN; callers and connection processes are
obliged to nothing, because a query may take for ever and a borrower may never
return.  `SqliteConn` states no fairness: a native call may block as long as SQLite
does.

## 4. Proofs

`HotReloadProofs` proves, for any set of actors and any number of versions and
faults: `Invariance` (`Spec => []IInv`), `TypeCorrect`, `NeverStale`, `ParkedMigrated`, `Whole`,
`TrueAnswers`, `NeverBadmatch`, `Alone` (an action property) and `Refinement`
(`Spec => UpgradePromise!Spec`).  The only assumption is the one on the constants in
`HotReload`.

None of the properties is inductive by itself.  Whether an actor runs on stale
state depends on who may still resume it, which depends on what the owner has
journalled, what the gate has marked, and what the applicator has been told.  `IInv`
has one part for each of these:

* `TypeOK`, which says besides the types that the gate's readers are whoever holds its
  permission;
* `GateInv`: the gate admits a reload only when there is no such initializer and no resume
  worker;
* `PrepareInv`: while the reload prepares, the actors that still run are the ones the
  suspend loop has not reached;
* `LoadInv`: nothing runs while the load may happen, and from the grant to the
  publication the fence is up and the gate lets nobody in;
* `PairInv`: which applicator steps go with which owner steps;
* `StaleInv`: state in the form of older code belongs to a halted actor, and the owner
  resumes only converted ones;
* `SuspendInv`: somebody answers for every suspended actor, or the fence is up;
* `JournalInv`: the owner's journal agrees with the cohort and with how far the
  applicator's loops have come.

No run checks `IInv`, which the proof makes superfluous; `MCHotReload` extends its module, so
that it can be added to `MCHotReloadTwice.cfg` when the model changes.
Each action preserves `IInv` in a lemma of its own; the theorems follow from `IInv`
and, for `Alone` and `Refinement`, from `IInv` and one step.

`PgPoolProofs` proves, for any number of callers, connections, verbs and faults, all the
safety properties of `PgPool`: `PoolSize` (`WithinMax`), `PoolTypeCorrect` (`TypeOK`),
`OneBorrowerAtATime` (`OneBorrower`), `AllAccounted` (`Accounted`), `ParkedForAReason`
(`WaitsForAReason`), `RoomComesWithAFailure` (`RoomIsOffered`, an action property) and
`ComesBackClean` (`ReturnedClean`).  The invariant has four layers, each
leaning on the ones before:

* `Sized`: `mons` is finite and no larger than `MaxConns`.  Only `OpenFor` adds to it, and every
  way to it goes through `HasRoom`;
* `CallersInv`: a caller has at most one checkout in the mailbox or one place in the queue, never
  both, and only while it waits for the manager.  Without it a late checkin, a waiter's
  timer or a dead connection could lend to a caller that holds one already;
* `ConnsInv`: where each connection is: idle once, being pinged with the answer to come,
  on its way back, or held by one caller, and a message about it is in the mailbox at most once
  per kind.  `OneBorrower` and `Accounted` follow; with them `WaitsForAReason` is inductive (`ReasonInv`), and a
  step from it that leaves room beside a queue is one of `BesideRoom` before or `TurnsAway`,
  which is `RoomIsOffered`;
* `CleanInv`: a connection has at most the one request of the caller that holds it, and
  the owner of its open transaction is that caller, which has it pinned or has died, unless
  a request on it timed out.

`SqliteProofs` proves, for any number of clients, requests, levels and faults,
`ConnTypeCorrect`, `NoUseAfterClose` (`HandleHeld`) and `NoLeak` (`NothingLeaks`).  The C code
takes no lock, so `HandleHeld` is not inductive: whether a call inside SQLite still has
its handle depends on nobody else being in the close function.  `BaseInv` says who may be in a
native call (`WhoInv`: the worker while it runs, or the one client that opens the handle
while there is no worker), how far the opener has come (`OpenInv`), that the two fields of
`conn_t` tell whether it was closed (`HandleInv`), and that only a stepping call has a
statement and rows (`CallInv`).

`SqliteTxProofs` proves `NeverRelaxedOutside` (`RelaxedOnlyInTx`), `NestedTransactions`
(`Spec => NestedTx!TxSpec` under the refinement mapping) and `InStepTransactions`
(`InStepAtomic`).  The worker's `depth` is behind
SQLite's stack from the moment a statement takes effect to its answer, and ROLLBACK TO leaves
savepoints no transaction owns; `StackInv` says which stacks there are at each stage (BEGIN
at the bottom, then the savepoints of the open levels in order, each perhaps more than
once), `RelaxInv` ties the pragma to `ruOn` and the stage, `FreshInv` says that a row that was
never inserted is nowhere.  Of a transaction that SQLite has taken back while the worker
counts it (`torn`) `StackInv` keeps what is true on any stack (`Ground`): what is durable is in every
snapshot, and outside a transaction nothing else is visible; and that it ends with `depth` at 0.
`Opens` reads the snapshots of the levels off such a stack,
and one lemma per statement says what it does to them; the refinement is these lemmas,
step by step, with everything that is not a statement a stutter.  For `InStepAtomic` the
invariant has to say what a client believes while it believes it (`BeliefInv`):

* `AskInv`: a client waits for at most one request, and has a transaction if that ends one;
* `CountInv`: the transactions of all clients, plus the commits and rollbacks still on their way
  whose client has given up, are no more than `depth`.  Hence no client believes in a level
  that the connection does not have, whoever died or timed out before;
* `FrameInv`: the rows of a sound transaction at level i are visible, not durable, in the
  snapshots of the levels above i and in no other; between the statement that ends the level
  and the answer they are where the statement has put them, merged or gone;
* `MonoInv`, `SpentInv`: a transaction inside a sound one is sound, and nobody will insert a
  row again that some transaction holds or that was rolled back;
* `RowsInv`: what is durable is visible and in every snapshot, what a client in step committed
  is durable, and what it rolled back is in neither nor in any snapshot to come back from.

`FrameInv` says nothing while `torn`: no transaction of that time is in step, and by `CountInv` none
is believed in any more when `depth` is 0 again.

A native statement moves the rows by the same case distinction as the refinement; an answer
moves no row and brings the client's side to the levels the statement has left.

`MessagesProofs` proves `MessagesTypeCorrect`, `HandlersCurrent` (`HandlersSeeCurrent`),
`DropsAreGaps` (`OnlyGapsDropped`) and `MailboxSoftlyBounded` (`SoftBound`), for any number of
senders, versions, messages and deaths.  `CacheInv` says when a cached or looked-up version
is the loaded one: not between a load and the erasure of the cache, when no actor is in its
receive path.  `Room` is the bound made inductive: a sender that has measured
the mailbox and not yet sent holds a place in it, so the messages already there and
the senders about to add one are together fewer than the capacity and the number of senders.
`OneRequest` (an answer is awaited in one place) is what keeps a request from being
answered twice, on which the types depend.

`ReceiptsProofs` proves `ReceiptsTypeCorrect`, `JournalBeforeDispatch` (`Journalled`),
`ReceiptsTellTheTruth` (`ReceiptsTrue`) and `SettledTruly` (`ClosedTrue`), for any number of
workspaces, versions, operations and faults.  A receipt is about the past and is read
late: the invariant needs something that is true when it is composed and stays true.  That is
`Final(i, n)`: operation i has replaced code n times, nothing runs for it and nothing is
reserved.  No step undoes it (`Once` is the reason: at most one call of an operation, and none
after it has run), so every event on its way to the registry (`EventsTrue`), every receipt
(`EntriesTrue`), every answer a client holds and every journal it has settled (`ClientInv`,
`ClosedFinal`) may speak of it at any time.

`MigrationProofs` proves `MigrationTypeCorrect`, `PlainEditsKeepActors` (`PlainSurvives`) and
`HookedEditsUseHook` (`ThroughHook`) for any set of declarations, any history of layouts
and any chain of reloads, and, when every declaration has a field (`Declares`),
`StateMatchesDeclaration` (`WellShaped`) and `MigrationKeepsValues` (`ValuesKept`).  `Declares` is
needed: the run `migrate_stateless` shows the code keep all keys where none is declared, with the
wrong value in one of them an edit later.  After a hook has run a second time `WellShaped`
promises the fields and not their types (`rerun`), because nothing else is true.  `FieldsInv` is the reason an automatic migration
may run twice: the actor's state is either untouched or already that of the new declaration,
never a mixture, and on the second `apply_code_change` does nothing (`ChangeAgain`).
`Queue` says which requests can still be handled late: at most the one before the one the
loader waits for.  `PlainInv` rests on `PlainSupplied`: in an edit the check lets through
without a hook, every field that is missing after the rename has a default, also when
the change is applied to a state that has been changed already.

All theorems are over the assumptions on the constants, named in the modules that declare
them (`ConstantsAssumption`, `ShapesAssumption`, `ReceiptsAssumption`, `MessagesAssumption`,
`NifAssumption`, `ConnAssumption`, `PoolAssumption`), and
nothing else; TLC evaluates each in some run.  They say that the sets are sets of the
right kind of thing and that the bounds are numbers; None, and in `ReloadReceipts` Torn, must
not be one of the values they stand apart from.  `Senders` and the fields of a declaration are
finite.

Only model-checked: all liveness (`StartsEnd`, `SuspensionEnds`,
`ReloadEnds`, `AsksEnd`, `CheckoutEnds`, `PendingSettles`: fairness and ENABLED are out of the prover's reach) and
the runs that expect a violation.

## 5. Not modelled, and the plan

Done: all the modules of section 2, and a proof of every safety property that a passing run
checks.  What is left to take up, in order:

1. a model of the purge worker and of the in-memory store;
2. timers and monitors of handles in `Messages`.

Not modelled, with the reason for each part under "components" in `PROJECT.json`:

* vendored SQLite (`sqlite3.c`, `sqlite3.h`).  These two files are nearly all the C of the
  repository; they are third-party code and enter `SqliteNif` only as the operators that
  say what the bridge relies on.  All of `sqlite_nif.c` that touches a connection is
  modelled.
* the purge worker, the language server's scheduling, the in-memory store: each has state
  worth a model of the kind above.
* the walk of `migrate_value` through nested values, collections with their evidence and the
  cache of migrated collections; monitors of handles, timers, restart strategies.
* wire protocol, authentication and encodings of the PostgreSQL driver; extraction of the
  native library; runners: I/O.
* front end, lowering, code generation, formatting, package resolution: pure functions over
  programs.
