--------------------------- MODULE HotReloadProofs ---------------------------
(***************************************************************************)
(* Theorems about HotReload for every set of actors, every number of       *)
(* reloads and every number of faults.  IInv (module HotReloadInv) is      *)
(* inductive; each lemma below shows that one action keeps it, conjunct by *)
(* conjunct, and cites only the other conjuncts it needs.                  *)
(***************************************************************************)
EXTENDS HotReloadInv, TLAPS

USE DEF Lives, Starting, Permit, Exec, Active, Loading, Unpublished, WorkerPcs, OwnerPcs,
        Calls, GateCalls, Alive, TypeOK, ActorTypes, GateTypes, OwnerTypes, WorkerTypes, Flags

-----------------------------------------------------------------------------
(* The actors: every step keeps the invariant. *)

LEMMA KeepsSpawn ==
  ASSUME IInv, NEW a \in Actors, NEW p \in Actors \cup {None}, Spawn(a, p)
  PROVE  IInv'
<1> USE DEF IInv, Spawn, ownerVars, workerVars, nodeVars
<1>1. Flags'  OBVIOUS
<1>2. ActorTypes' /\ GateTypes' /\ OwnerTypes' /\ WorkerTypes'  OBVIOUS
<1>3. GateInv'  BY DEF GateInv
<1>4. PrepareInv'  BY DEF PrepareInv
<1>5. LoadInv'  BY DEF LoadInv
<1>6. PairInv'  BY DEF PairInv
<1>7. StaleInv'  BY DEF StaleInv
<1>8. SuspendInv'  BY DEF SuspendInv
<1>9. JournalInv'  BY DEF JournalInv
<1> QED  BY <1>1, <1>2, <1>3, <1>4, <1>5, <1>6, <1>7, <1>8, <1>9

LEMMA KeepsBeginInit ==
  ASSUME IInv, NEW a \in Actors, BeginInit(a)
  PROVE  IInv'
<1> USE DEF IInv, BeginInit, gateVars, ownerVars, workerVars, nodeVars
<1>1. Flags'  OBVIOUS
<1>2. ActorTypes' /\ GateTypes' /\ OwnerTypes' /\ WorkerTypes'  OBVIOUS
<1>3. GateInv'  BY DEF GateInv
<1>4. PrepareInv'  BY DEF PrepareInv
<1>5. LoadInv'  BY DEF LoadInv
<1>6. PairInv'  BY DEF PairInv
<1>7. StaleInv'  BY DEF StaleInv
<1>8. SuspendInv'  BY DEF SuspendInv
<1>9. JournalInv'  BY DEF JournalInv
<1> QED  BY <1>1, <1>2, <1>3, <1>4, <1>5, <1>6, <1>7, <1>8, <1>9

LEMMA KeepsEndInit ==
  ASSUME IInv, NEW a \in Actors, EndInit(a)
  PROVE  IInv'
<1> USE DEF IInv, EndInit, gateVars, ownerVars, workerVars, nodeVars
<1>1. Flags'  OBVIOUS
<1>2. ActorTypes' /\ GateTypes' /\ OwnerTypes' /\ WorkerTypes'  OBVIOUS
<1>3. GateInv'  BY DEF GateInv
<1>4. PrepareInv'  BY DEF PrepareInv
<1>5. LoadInv'  BY DEF LoadInv
<1>6. PairInv'  BY DEF PairInv
<1>7. StaleInv'  BY DEF StaleInv
<1>8. SuspendInv'  BY DEF SuspendInv
<1>9. JournalInv'  BY DEF JournalInv
<1> QED  BY <1>1, <1>2, <1>3, <1>4, <1>5, <1>6, <1>7, <1>8, <1>9

LEMMA KeepsActorCrash ==
  ASSUME IInv, NEW a \in Actors, ActorCrash(a)
  PROVE  IInv'
<1> USE DEF IInv, ActorCrash, Killed, gateVars, ownerVars, workerVars, nodeVars, Alive
<1>1. Flags'  OBVIOUS
<1>2. ActorTypes' /\ GateTypes' /\ OwnerTypes' /\ WorkerTypes'  OBVIOUS
<1>3. GateInv'  BY DEF GateInv
<1>4. PrepareInv'  BY DEF PrepareInv
<1>5. LoadInv'  BY DEF LoadInv
<1>6. PairInv'  BY DEF PairInv
<1>7. StaleInv'  BY DEF StaleInv
<1>8. SuspendInv'  BY DEF SuspendInv
<1>9. JournalInv'  BY DEF JournalInv
<1> QED  BY <1>1, <1>2, <1>3, <1>4, <1>5, <1>6, <1>7, <1>8, <1>9

-----------------------------------------------------------------------------
(* The startup gate: every step keeps the invariant. *)

LEMMA KeepsGateEnter ==
  ASSUME IInv, NEW a \in Actors, GateEnter(a)
  PROVE  IInv'
<1> USE DEF IInv, GateEnter, StartupFenced, ResumeAll, ownerVars, workerVars, nodeVars
<1>1. Flags'  OBVIOUS
<1>2. ActorTypes' /\ GateTypes' /\ OwnerTypes' /\ WorkerTypes'  OBVIOUS
<1>3. GateInv'  BY DEF GateInv
<1>4. PrepareInv'  BY DEF PrepareInv
<1>5. LoadInv'  BY DEF LoadInv
<1>6. PairInv'  BY DEF PairInv
<1>7. StaleInv'  BY DEF StaleInv, LoadInv
<1>8. SuspendInv'  BY DEF SuspendInv
<1>9. JournalInv'  BY DEF JournalInv
<1> QED  BY <1>1, <1>2, <1>3, <1>4, <1>5, <1>6, <1>7, <1>8, <1>9

LEMMA KeepsGateLeave ==
  ASSUME IInv, NEW a \in Actors, GateLeave(a)
  PROVE  IInv'
<1> USE DEF IInv, GateLeave, ownerVars, workerVars, nodeVars
<1>1. Flags'  OBVIOUS
<1>2. ActorTypes' /\ GateTypes' /\ OwnerTypes' /\ WorkerTypes'  OBVIOUS
<1>3. GateInv'  BY DEF GateInv
<1>4. PrepareInv'  BY DEF PrepareInv, GateInv
<1>5. LoadInv'  BY DEF LoadInv
<1>6. PairInv'  BY DEF PairInv
<1>7. StaleInv'  BY DEF StaleInv
<1>8. SuspendInv'  BY DEF SuspendInv
<1>9. JournalInv'  BY DEF JournalInv
<1> QED  BY <1>1, <1>2, <1>3, <1>4, <1>5, <1>6, <1>7, <1>8, <1>9

LEMMA KeepsGateActorDown ==
  ASSUME IInv, NEW a \in Actors, GateActorDown(a)
  PROVE  IInv'
<1> USE DEF IInv, GateActorDown, actorVars, ownerVars, workerVars, nodeVars
<1>1. Flags'  OBVIOUS
<1>2. ActorTypes' /\ GateTypes' /\ OwnerTypes' /\ WorkerTypes'  OBVIOUS
<1>3. GateInv'  BY DEF GateInv
<1>4. PrepareInv'  BY DEF PrepareInv
<1>5. LoadInv'  BY DEF LoadInv
<1>6. PairInv'  BY DEF PairInv
<1>7. StaleInv'  BY DEF StaleInv
<1>8. SuspendInv'  BY DEF SuspendInv
<1>9. JournalInv'  BY DEF JournalInv
<1> QED  BY <1>1, <1>2, <1>3, <1>4, <1>5, <1>6, <1>7, <1>8, <1>9

LEMMA KeepsResumeWorker ==
  ASSUME IInv, NEW a \in Actors, ResumeWorker(a)
  PROVE  IInv'
<1> USE DEF IInv, ResumeWorker, Killed, ownerVars, workerVars, nodeVars, Alive
<1>1. Flags'  OBVIOUS
<1>2. ActorTypes' /\ GateTypes' /\ OwnerTypes' /\ WorkerTypes'  OBVIOUS
<1>3. GateInv'  BY DEF GateInv
<1>4. PrepareInv'  BY DEF PrepareInv, GateInv
<1>5. LoadInv'  BY DEF LoadInv
<1>6. PairInv'  BY DEF PairInv
<1>7. StaleInv'  BY DEF StaleInv, LoadInv
<1>8. SuspendInv'  BY DEF SuspendInv
<1>9. JournalInv'  BY DEF JournalInv
<1> QED  BY <1>1, <1>2, <1>3, <1>4, <1>5, <1>6, <1>7, <1>8, <1>9

LEMMA KeepsResumeWorkerDie ==
  ASSUME IInv, NEW a \in Actors, ResumeWorkerDie(a)
  PROVE  IInv'
<1> USE DEF IInv, ResumeWorkerDie, Fault, actorVars, ownerVars, workerVars, nodeVars
<1>1. Flags'  OBVIOUS
<1>2. ActorTypes' /\ GateTypes' /\ OwnerTypes' /\ WorkerTypes'  OBVIOUS
<1>3. GateInv'  BY DEF GateInv
<1>4. PrepareInv'  BY DEF PrepareInv
<1>5. LoadInv'  BY DEF LoadInv
<1>6. PairInv'  BY DEF PairInv
<1>7. StaleInv'  BY DEF StaleInv
<1>8. SuspendInv'  BY DEF SuspendInv
<1>9. JournalInv'  BY DEF JournalInv
<1> QED  BY <1>1, <1>2, <1>3, <1>4, <1>5, <1>6, <1>7, <1>8, <1>9

LEMMA KeepsGateResumed ==
  ASSUME IInv, NEW a \in Actors, GateResumed(a)
  PROVE  IInv'
<1> USE DEF IInv, GateResumed, Killed, Resuming, AfterAbort, workerVars, nodeVars, Alive
<1>1. Flags'  BY Zenon
<1>2. ActorTypes' /\ GateTypes' /\ OwnerTypes' /\ WorkerTypes'  OBVIOUS
<1>3. GateInv'  BY DEF GateInv
<1>4. PrepareInv'  BY DEF PrepareInv
<1>5. LoadInv'  BY DEF LoadInv
<1>6. PairInv'  BY DEF PairInv
<1>7. StaleInv'  BY DEF StaleInv
<1>8. SuspendInv'  BY DEF SuspendInv, LoadInv
<1>9. JournalInv'  BY DEF JournalInv
<1> QED  BY <1>1, <1>2, <1>3, <1>4, <1>5, <1>6, <1>7, <1>8, <1>9

LEMMA KeepsGateOwnerDown ==
  ASSUME IInv, GateOwnerDown
  PROVE  IInv'
<1> USE DEF IInv, GateOwnerDown, Resuming, ReleaseWaiters, ownerVars, workerVars, nodeVars
<1>1. Flags'  BY Zenon
<1>2. ActorTypes' /\ GateTypes' /\ OwnerTypes' /\ WorkerTypes'  OBVIOUS
<1>3. GateInv'  BY DEF GateInv
<1>4. PrepareInv'  BY DEF PrepareInv
<1>5. LoadInv'  BY DEF LoadInv
<1>6. PairInv'  BY DEF PairInv
<1>7. StaleInv'  BY DEF StaleInv, LoadInv
<1>8. SuspendInv'  BY DEF SuspendInv, GateInv
<1>9. JournalInv'  BY DEF JournalInv
<1> QED  BY <1>1, <1>2, <1>3, <1>4, <1>5, <1>6, <1>7, <1>8, <1>9

LEMMA KeepsGateDie ==
  ASSUME IInv, GateDie
  PROVE  IInv'
<1> USE DEF IInv, GateDie, Killed, Fault, ownerVars, workerVars, nodeVars, Alive
<1>1. Flags'  BY Zenon
<1>2. ActorTypes' /\ GateTypes' /\ OwnerTypes' /\ WorkerTypes'  OBVIOUS
<1>3. GateInv'  BY DEF GateInv
<1>4. PrepareInv'  BY DEF PrepareInv
<1>5. LoadInv'  BY DEF LoadInv
<1>6. PairInv'  BY DEF PairInv
<1>7. StaleInv'  BY DEF StaleInv
<1>8. SuspendInv'  BY DEF SuspendInv
<1>9. JournalInv'  BY DEF JournalInv
<1> QED  BY <1>1, <1>2, <1>3, <1>4, <1>5, <1>6, <1>7, <1>8, <1>9

-----------------------------------------------------------------------------
(* Admission and the recovery owner: every step keeps the invariant. *)

LEMMA KeepsAdmit ==
  ASSUME IInv, Admit
  PROVE  IInv'
<1> USE DEF IInv, Admit, actorVars, gateVars, ownerVars, nodeVars
<1>1. Flags'  OBVIOUS
<1>2. ActorTypes' /\ GateTypes' /\ OwnerTypes' /\ WorkerTypes'  OBVIOUS
<1>3. GateInv'  BY DEF GateInv
<1>4. PrepareInv'  BY DEF PrepareInv
<1>5. LoadInv'  BY DEF LoadInv
<1>6. PairInv'  BY DEF PairInv
<1>7. StaleInv'  BY DEF StaleInv
<1>8. SuspendInv'  BY DEF SuspendInv
<1>9. JournalInv'  BY DEF JournalInv
<1> QED  BY <1>1, <1>2, <1>3, <1>4, <1>5, <1>6, <1>7, <1>8, <1>9

LEMMA KeepsOwnerRegister ==
  ASSUME IInv, OwnerRegister
  PROVE  IInv'
<1> USE DEF IInv, OwnerRegister, NewOwner, actorVars, gateVars, nodeVars
<1>1. Flags'  BY Zenon
<1>2. ActorTypes' /\ GateTypes' /\ OwnerTypes' /\ WorkerTypes'  OBVIOUS
<1>3. GateInv'  BY DEF GateInv
<1>4. PrepareInv'  BY DEF PrepareInv
<1>5. LoadInv'  BY DEF LoadInv
<1>6. PairInv'  BY DEF PairInv
<1>7. StaleInv'  BY DEF StaleInv, SuspendInv
<1>8. SuspendInv'  BY DEF SuspendInv
<1>9. JournalInv'  BY DEF JournalInv, SuspendInv
<1> QED  BY <1>1, <1>2, <1>3, <1>4, <1>5, <1>6, <1>7, <1>8, <1>9

LEMMA KeepsStrayRegister ==
  ASSUME IInv, StrayRegister
  PROVE  IInv'
<1> USE DEF IInv, StrayRegister, NewOwner, actorVars, gateVars, workerVars, nodeVars
<1>1. Flags'  BY Zenon
<1>2. ActorTypes' /\ GateTypes' /\ OwnerTypes' /\ WorkerTypes'  OBVIOUS
<1>3. GateInv'  BY DEF GateInv
<1>4. PrepareInv'  BY DEF PrepareInv
<1>5. LoadInv'  BY DEF LoadInv
<1>6. PairInv'  BY DEF PairInv
<1>7. StaleInv'  BY DEF StaleInv, SuspendInv
<1>8. SuspendInv'  BY DEF SuspendInv
<1>9. JournalInv'  BY DEF JournalInv, SuspendInv
<1> QED  BY <1>1, <1>2, <1>3, <1>4, <1>5, <1>6, <1>7, <1>8, <1>9

LEMMA KeepsGateBegin ==
  ASSUME IInv, GateBegin
  PROVE  IInv'
<1> USE DEF IInv, GateBegin, StartupFenced, Reply, Outcome, Answer, actorVars, nodeVars
<1>1. Flags'  BY Zenon
<1>2. ActorTypes' /\ GateTypes' /\ OwnerTypes' /\ WorkerTypes'  OBVIOUS
<1>3. GateInv'  BY DEF GateInv, LoadInv
<1>4. PrepareInv'  BY DEF PrepareInv
<1>5. LoadInv'  BY DEF LoadInv, PairInv
<1>6. PairInv'  BY DEF PairInv
<1>7. StaleInv'  BY DEF StaleInv
<1>8. SuspendInv'  BY DEF SuspendInv
<1>9. JournalInv'  BY DEF JournalInv
<1> QED  BY <1>1, <1>2, <1>3, <1>4, <1>5, <1>6, <1>7, <1>8, <1>9

LEMMA KeepsCensus ==
  ASSUME IInv, Census
  PROVE  IInv'
<1> USE DEF IInv, Census, Reply, actorVars, gateVars, nodeVars, Alive
<1>1. Flags'  OBVIOUS
<1>2. ActorTypes' /\ GateTypes' /\ OwnerTypes' /\ WorkerTypes'  OBVIOUS
<1>3. GateInv'  BY DEF GateInv
<1>4. PrepareInv'  BY DEF PrepareInv
<1>5. LoadInv'  BY DEF LoadInv
<1>6. PairInv'  BY DEF PairInv
<1>7. StaleInv'  BY DEF StaleInv, PairInv
<1>8. SuspendInv'  BY DEF SuspendInv
<1>9. JournalInv'  BY DEF JournalInv
<1> QED  BY <1>1, <1>2, <1>3, <1>4, <1>5, <1>6, <1>7, <1>8, <1>9

LEMMA KeepsOwnerSuspend ==
  ASSUME IInv, OwnerSuspend
  PROVE  IInv'
<1> USE DEF IInv, OwnerSuspend, actorVars, gateVars, workerVars
<1>1. Flags'  OBVIOUS
<1>2. ActorTypes' /\ GateTypes' /\ OwnerTypes' /\ WorkerTypes'  OBVIOUS
<1>3. GateInv'  BY DEF GateInv, LoadInv
<1>4. PrepareInv'  BY DEF PrepareInv
<1>5. LoadInv'  BY DEF LoadInv
<1>6. PairInv'  BY DEF PairInv
<1>7. StaleInv'  BY DEF StaleInv
<1>8. SuspendInv'  BY DEF SuspendInv
<1>9. JournalInv'  BY DEF JournalInv
<1> QED  BY <1>1, <1>2, <1>3, <1>4, <1>5, <1>6, <1>7, <1>8, <1>9

LEMMA KeepsSuspendNext ==
  ASSUME IInv, NEW a \in Actors, SuspendNext(a)
  PROVE  IInv'
<1> USE DEF IInv, SuspendNext, Reply, actorVars, gateVars, nodeVars, Alive
<1>1. Flags'  OBVIOUS
<1>2. ActorTypes' /\ GateTypes' /\ OwnerTypes' /\ WorkerTypes'  OBVIOUS
<1>3. GateInv'  BY DEF GateInv
<1>4. PrepareInv'  BY DEF PrepareInv
<1>5. LoadInv'  BY DEF LoadInv
<1>6. PairInv'  BY ConstantsAssumption DEF PairInv
<1>7. StaleInv'  BY DEF StaleInv
<1>8. SuspendInv'  BY DEF SuspendInv
<1>9. JournalInv'  BY DEF JournalInv
<1> QED  BY <1>1, <1>2, <1>3, <1>4, <1>5, <1>6, <1>7, <1>8, <1>9

LEMMA KeepsSuspendCall ==
  ASSUME IInv, SuspendCall
  PROVE  IInv'
<1> USE DEF IInv, SuspendCall, Killed, Reply, gateVars, nodeVars, Alive
<1>1. Flags'  OBVIOUS
<1>2. ActorTypes' /\ GateTypes' /\ OwnerTypes' /\ WorkerTypes'  OBVIOUS
<1>3. GateInv'  BY DEF GateInv
<1>4. PrepareInv'  BY DEF PrepareInv
<1>5. LoadInv'  BY DEF LoadInv
<1>6. PairInv'  BY DEF PairInv
<1>7. StaleInv'  BY DEF StaleInv
<1>8. SuspendInv'  BY DEF SuspendInv, PairInv
<1>9. JournalInv'  BY DEF JournalInv
<1> QED  BY <1>1, <1>2, <1>3, <1>4, <1>5, <1>6, <1>7, <1>8, <1>9

LEMMA KeepsGateSuspended ==
  ASSUME IInv, GateSuspended
  PROVE  IInv'
<1> USE DEF IInv, GateSuspended, ResumeAll, Reply, actorVars, nodeVars
<1>1. Flags'  OBVIOUS
<1>2. ActorTypes' /\ GateTypes' /\ OwnerTypes' /\ WorkerTypes'  BY DEF PairInv
<1>3. GateInv'  BY DEF GateInv
<1>4. PrepareInv'  BY DEF PrepareInv
<1>5. LoadInv'  BY DEF LoadInv
<1>6. PairInv'  BY DEF PairInv
<1>7. StaleInv'  BY DEF StaleInv
<1>8. SuspendInv'  BY DEF SuspendInv
<1>9. JournalInv'  BY DEF JournalInv
<1> QED  BY <1>1, <1>2, <1>3, <1>4, <1>5, <1>6, <1>7, <1>8, <1>9

LEMMA KeepsSuspendDone ==
  ASSUME IInv, SuspendDone
  PROVE  IInv'
<1> USE DEF IInv, SuspendDone, Reply, actorVars, gateVars, nodeVars
<1>1. Flags'  OBVIOUS
<1>2. ActorTypes' /\ GateTypes' /\ OwnerTypes' /\ WorkerTypes'  OBVIOUS
<1>3. GateInv'  BY DEF GateInv
<1>4. PrepareInv'  BY DEF PrepareInv
<1>5. LoadInv'  BY DEF LoadInv
<1>6. PairInv'  BY DEF PairInv
<1>7. StaleInv'  BY DEF StaleInv, PairInv
<1>8. SuspendInv'  BY DEF SuspendInv
<1>9. JournalInv'  BY DEF JournalInv
<1> QED  BY <1>1, <1>2, <1>3, <1>4, <1>5, <1>6, <1>7, <1>8, <1>9

LEMMA KeepsOwnerCommit ==
  ASSUME IInv, OwnerCommit
  PROVE  IInv'
<1> USE DEF IInv, OwnerCommit, Fault, actorVars, gateVars, nodeVars
<1>1. Flags'  OBVIOUS
<1>2. ActorTypes' /\ GateTypes' /\ OwnerTypes' /\ WorkerTypes'  OBVIOUS
<1>3. GateInv'  BY DEF GateInv, LoadInv
<1>4. PrepareInv'  BY DEF PrepareInv
<1>5. LoadInv'  BY DEF LoadInv
<1>6. PairInv'  BY DEF PairInv
<1>7. StaleInv'  BY DEF StaleInv
<1>8. SuspendInv'  BY DEF SuspendInv
<1>9. JournalInv'  BY DEF JournalInv
<1> QED  BY <1>1, <1>2, <1>3, <1>4, <1>5, <1>6, <1>7, <1>8, <1>9

LEMMA KeepsGateCheck ==
  ASSUME IInv, GateCheck
  PROVE  IInv'
<1> USE DEF IInv, GateCheck, actorVars, gateVars, nodeVars, Alive
<1>1. Flags'  OBVIOUS
<1>2. ActorTypes' /\ GateTypes' /\ OwnerTypes' /\ WorkerTypes'  OBVIOUS
<1>3. GateInv'  BY DEF GateInv
<1>4. PrepareInv'  BY DEF PrepareInv
<1>5. LoadInv'  BY DEF LoadInv
<1>6. PairInv'  BY DEF PairInv
<1>7. StaleInv'  BY DEF StaleInv
<1>8. SuspendInv'  BY DEF SuspendInv
<1>9. JournalInv'  BY DEF JournalInv
<1> QED  BY <1>1, <1>2, <1>3, <1>4, <1>5, <1>6, <1>7, <1>8, <1>9

LEMMA KeepsGateCommit ==
  ASSUME IInv, GateCommit
  PROVE  IInv'
<1> USE DEF IInv, GateCommit, Reply, actorVars, nodeVars
<1>1. Flags'  OBVIOUS
<1>2. ActorTypes' /\ GateTypes' /\ OwnerTypes' /\ WorkerTypes'  OBVIOUS
<1>3. GateInv'  BY DEF GateInv
<1>4. PrepareInv'  BY DEF PrepareInv
<1>5. LoadInv'
  <2>1. ~Unpublished /\ phase = "precommit" /\ fence
    BY DEF LoadInv, PairInv
  <2>2. CASE writer = "preparing" /\ ~orphan
    <3>1. \A b \in Actors : life[b] \notin Exec /\ resumes[b] # "pending" /\ owned[b] # "true"
      BY <2>1, <2>2 DEF GateInv, PrepareInv, StaleInv
    <3> QED
      BY <2>1, <2>2, <3>1 DEF LoadInv
  <2>3. CASE orphan
    BY <2>1, <2>3 DEF LoadInv
  <2>4. CASE writer # "preparing" /\ ~orphan
    BY <2>1, <2>4 DEF LoadInv
  <2> QED
    BY <2>2, <2>3, <2>4
<1>6. PairInv'  BY DEF PairInv
<1>7. StaleInv'  BY DEF StaleInv, LoadInv
<1>8. SuspendInv'  BY DEF SuspendInv, LoadInv
<1>9. JournalInv'
  <2>1. CASE orphan
    BY <2>1 DEF JournalInv
  <2>2. CASE ~orphan /\ writer = "preparing"
    BY <2>2 DEF JournalInv
  <2>3. CASE ~orphan /\ writer # "preparing"
    BY <2>3 DEF JournalInv
  <2> QED
    BY <2>1, <2>2, <2>3
<1> QED  BY <1>1, <1>2, <1>3, <1>4, <1>5, <1>6, <1>7, <1>8, <1>9

LEMMA KeepsOwnerLoaded ==
  ASSUME IInv, OwnerLoaded
  PROVE  IInv'
<1> USE DEF IInv, OwnerLoaded, actorVars, gateVars, nodeVars
<1>1. Flags'  OBVIOUS
<1>2. ActorTypes' /\ GateTypes' /\ OwnerTypes' /\ WorkerTypes'  OBVIOUS
<1>3. GateInv'  BY DEF GateInv, LoadInv
<1>4. PrepareInv'  BY DEF PrepareInv
<1>5. LoadInv'  BY DEF LoadInv
<1>6. PairInv'  BY DEF PairInv
<1>7. StaleInv'  BY DEF StaleInv
<1>8. SuspendInv'  BY DEF SuspendInv
<1>9. JournalInv'  BY DEF JournalInv
<1> QED  BY <1>1, <1>2, <1>3, <1>4, <1>5, <1>6, <1>7, <1>8, <1>9

LEMMA KeepsOwnerReady ==
  ASSUME IInv, OwnerReady
  PROVE  IInv'
<1> USE DEF IInv, OwnerReady, actorVars, gateVars, nodeVars
<1>1. Flags'  OBVIOUS
<1>2. ActorTypes' /\ GateTypes' /\ OwnerTypes' /\ WorkerTypes'  BY DEF StaleInv
<1>3. GateInv'  BY DEF GateInv
<1>4. PrepareInv'  BY DEF PrepareInv
<1>5. LoadInv'  BY DEF LoadInv
<1>6. PairInv'  BY DEF PairInv
<1>7. StaleInv'  BY DEF StaleInv, LoadInv
<1>8. SuspendInv'  BY DEF SuspendInv
<1>9. JournalInv'  BY DEF JournalInv
<1> QED  BY <1>1, <1>2, <1>3, <1>4, <1>5, <1>6, <1>7, <1>8, <1>9

LEMMA KeepsOwnerEnd ==
  ASSUME IInv, OwnerEnd
  PROVE  IInv'
<1> USE DEF IInv, OwnerEnd, actorVars, gateVars, workerVars, nodeVars
<1>1. Flags'  OBVIOUS
<1>2. ActorTypes' /\ GateTypes' /\ OwnerTypes' /\ WorkerTypes'  OBVIOUS
<1>3. GateInv'  BY DEF GateInv
<1>4. PrepareInv'  BY DEF PrepareInv
<1>5. LoadInv'  BY DEF LoadInv
<1>6. PairInv'  BY DEF PairInv
<1>7. StaleInv'  BY DEF StaleInv, LoadInv
<1>8. SuspendInv'  BY DEF SuspendInv, LoadInv
<1>9. JournalInv'  BY DEF JournalInv
<1> QED  BY <1>1, <1>2, <1>3, <1>4, <1>5, <1>6, <1>7, <1>8, <1>9

LEMMA KeepsOwnerStop ==
  ASSUME IInv, OwnerStop
  PROVE  IInv'
<1> USE DEF IInv, OwnerStop, Killed, Fault, Stop, Untrusted, gateVars, workerVars,
                  nodeVars, Alive
<1>1. Flags'  BY Zenon
<1>2. ActorTypes' /\ GateTypes' /\ OwnerTypes' /\ WorkerTypes'  OBVIOUS
<1>3. GateInv'  BY DEF GateInv
<1>4. PrepareInv'  BY DEF PrepareInv
<1>5. LoadInv'  BY DEF LoadInv
<1>6. PairInv'  BY DEF PairInv
<1>7. StaleInv'  BY DEF StaleInv
<1>8. SuspendInv'  BY DEF SuspendInv
<1>9. JournalInv'  BY DEF JournalInv
<1> QED  BY <1>1, <1>2, <1>3, <1>4, <1>5, <1>6, <1>7, <1>8, <1>9

LEMMA KeepsGateAbort ==
  ASSUME IInv, GateAbort
  PROVE  IInv'
<1> USE DEF IInv, GateAbort, ResumeAll, AfterAbort, actorVars, workerVars, nodeVars
<1>1. Flags'  BY Zenon
<1>2. ActorTypes' /\ GateTypes' /\ OwnerTypes' /\ WorkerTypes'  OBVIOUS
<1>3. GateInv'  BY DEF GateInv, LoadInv
<1>4. PrepareInv'  BY DEF PrepareInv
<1>5. LoadInv'  BY DEF LoadInv
<1>6. PairInv'  BY DEF PairInv
<1>7. StaleInv'  BY DEF StaleInv
<1>8. SuspendInv'  BY DEF SuspendInv, LoadInv
<1>9. JournalInv'  BY DEF JournalInv
<1> QED  BY <1>1, <1>2, <1>3, <1>4, <1>5, <1>6, <1>7, <1>8, <1>9

LEMMA KeepsOwnerResume ==
  ASSUME IInv, NEW a \in Actors, OwnerResume(a)
  PROVE  IInv'
<1> USE DEF IInv, OwnerResume, Killed, Fault, Stop, gateVars, workerVars, nodeVars, Alive
<1>1. Flags'  BY Zenon
<1>2. ActorTypes' /\ GateTypes' /\ OwnerTypes' /\ WorkerTypes'  OBVIOUS
<1>3. GateInv'  BY DEF GateInv
<1>4. PrepareInv'  BY DEF PrepareInv
<1>5. LoadInv'  BY DEF LoadInv
<1>6. PairInv'  BY DEF PairInv
<1>7. StaleInv'  BY DEF StaleInv, SuspendInv
<1>8. SuspendInv'  BY DEF SuspendInv
<1>9. JournalInv'  BY DEF JournalInv
<1> QED  BY <1>1, <1>2, <1>3, <1>4, <1>5, <1>6, <1>7, <1>8, <1>9

LEMMA KeepsOwnerPublish ==
  ASSUME IInv, OwnerPublish
  PROVE  IInv'
<1> USE DEF IInv, OwnerPublish, Reply, Outcome, Answer, actorVars, gateVars
<1>1. Flags'  OBVIOUS
<1>2. ActorTypes' /\ GateTypes' /\ OwnerTypes' /\ WorkerTypes'  OBVIOUS
<1>3. GateInv'  BY DEF GateInv
<1>4. PrepareInv'  BY DEF PrepareInv
<1>5. LoadInv'  BY DEF LoadInv, PairInv
<1>6. PairInv'  BY DEF PairInv
<1>7. StaleInv'  BY DEF StaleInv, SuspendInv
<1>8. SuspendInv'  BY DEF SuspendInv
<1>9. JournalInv'  BY DEF JournalInv
<1> QED  BY <1>1, <1>2, <1>3, <1>4, <1>5, <1>6, <1>7, <1>8, <1>9

LEMMA KeepsOwnerSchedule ==
  ASSUME IInv, OwnerSchedule
  PROVE  IInv'
<1> USE DEF IInv, OwnerSchedule, Fault, Reply, Outcome, Answer, actorVars, gateVars,
                  nodeVars
<1>1. Flags'  OBVIOUS
<1>2. ActorTypes' /\ GateTypes' /\ OwnerTypes' /\ WorkerTypes'  OBVIOUS
<1>3. GateInv'  BY DEF GateInv, LoadInv
<1>4. PrepareInv'  BY DEF PrepareInv
<1>5. LoadInv'  BY DEF LoadInv
<1>6. PairInv'  BY DEF PairInv
<1>7. StaleInv'  BY DEF StaleInv
<1>8. SuspendInv'  BY DEF SuspendInv
<1>9. JournalInv'  BY DEF JournalInv
<1> QED  BY <1>1, <1>2, <1>3, <1>4, <1>5, <1>6, <1>7, <1>8, <1>9

LEMMA KeepsOwnerErase ==
  ASSUME IInv, OwnerErase
  PROVE  IInv'
<1> USE DEF IInv, OwnerErase, actorVars, gateVars, workerVars
<1>1. Flags'  BY Zenon
<1>2. ActorTypes' /\ GateTypes' /\ OwnerTypes' /\ WorkerTypes'  OBVIOUS
<1>3. GateInv'  BY DEF GateInv
<1>4. PrepareInv'  BY DEF PrepareInv
<1>5. LoadInv'  BY DEF LoadInv
<1>6. PairInv'  BY DEF PairInv
<1>7. StaleInv'  BY DEF StaleInv
<1>8. SuspendInv'  BY DEF SuspendInv
<1>9. JournalInv'  BY DEF JournalInv
<1> QED  BY <1>1, <1>2, <1>3, <1>4, <1>5, <1>6, <1>7, <1>8, <1>9

LEMMA KeepsGateFinish ==
  ASSUME IInv, GateFinish
  PROVE  IInv'
<1> USE DEF IInv, GateFinish, Resuming, ReleaseWaiters, Reply, Outcome, Answer, nodeVars
<1>1. Flags'  BY Zenon
<1>2. ActorTypes' /\ GateTypes' /\ OwnerTypes' /\ WorkerTypes'  OBVIOUS
<1>3. GateInv'  BY DEF GateInv
<1>4. PrepareInv'  BY DEF PrepareInv
<1>5. LoadInv'  BY DEF LoadInv, PairInv
<1>6. PairInv'  BY DEF PairInv
<1>7. StaleInv'  BY DEF StaleInv, LoadInv
<1>8. SuspendInv'  BY DEF SuspendInv
<1>9. JournalInv'  BY DEF JournalInv
<1> QED  BY <1>1, <1>2, <1>3, <1>4, <1>5, <1>6, <1>7, <1>8, <1>9

LEMMA KeepsOwnerGateLost ==
  ASSUME IInv, OwnerGateLost
  PROVE  IInv'
<1> USE DEF IInv, OwnerGateLost, Reply, Outcome, Answer, OwnerGone, actorVars, nodeVars
<1>1. Flags'  BY Zenon
<1>2. ActorTypes' /\ GateTypes' /\ OwnerTypes' /\ WorkerTypes'  OBVIOUS
<1>3. GateInv'  BY DEF GateInv
<1>4. PrepareInv'  BY DEF PrepareInv
<1>5. LoadInv'  BY DEF LoadInv
<1>6. PairInv'  BY DEF PairInv
<1>7. StaleInv'  BY DEF StaleInv
<1>8. SuspendInv'  BY DEF SuspendInv
<1>9. JournalInv'  BY DEF JournalInv
<1> QED  BY <1>1, <1>2, <1>3, <1>4, <1>5, <1>6, <1>7, <1>8, <1>9

LEMMA KeepsOwnerExit ==
  ASSUME IInv, OwnerExit
  PROVE  IInv'
<1> USE DEF IInv, OwnerExit, OwnerGone, WorkerDone, actorVars, nodeVars
<1>1. Flags'  BY Zenon
<1>2. ActorTypes' /\ GateTypes' /\ OwnerTypes' /\ WorkerTypes'  OBVIOUS
<1>3. GateInv'  BY DEF GateInv
<1>4. PrepareInv'  BY DEF PrepareInv
<1>5. LoadInv'  BY DEF LoadInv
<1>6. PairInv'  BY DEF PairInv
<1>7. StaleInv'  BY DEF StaleInv
<1>8. SuspendInv'  BY DEF SuspendInv, PairInv
<1>9. JournalInv'  BY ConstantsAssumption DEF JournalInv
<1> QED  BY <1>1, <1>2, <1>3, <1>4, <1>5, <1>6, <1>7, <1>8, <1>9

LEMMA KeepsOwnerDie ==
  ASSUME IInv, OwnerDie
  PROVE  IInv'
<1> USE DEF IInv, OwnerDie, Fault, OwnerGone, actorVars, workerVars, nodeVars
<1>1. Flags'  BY Zenon
<1>2. ActorTypes' /\ GateTypes' /\ OwnerTypes' /\ WorkerTypes'  OBVIOUS
<1>3. GateInv'  BY DEF GateInv
<1>4. PrepareInv'  BY DEF PrepareInv
<1>5. LoadInv'  BY DEF LoadInv
<1>6. PairInv'  BY DEF PairInv
<1>7. StaleInv'  BY DEF StaleInv
<1>8. SuspendInv'  BY DEF SuspendInv
<1>9. JournalInv'  BY DEF JournalInv
<1> QED  BY <1>1, <1>2, <1>3, <1>4, <1>5, <1>6, <1>7, <1>8, <1>9

-----------------------------------------------------------------------------
(* The applicator and the code server: every step keeps the invariant. *)

LEMMA KeepsLoadRequest ==
  ASSUME IInv, LoadRequest
  PROVE  IInv'
<1> USE DEF IInv, LoadRequest, actorVars, gateVars, ownerVars
<1>1. Flags'  OBVIOUS
<1>2. ActorTypes' /\ GateTypes' /\ OwnerTypes' /\ WorkerTypes'  OBVIOUS
<1>3. GateInv'  BY DEF GateInv
<1>4. PrepareInv'  BY DEF PrepareInv
<1>5. LoadInv'  BY DEF LoadInv
<1>6. PairInv'  BY DEF PairInv
<1>7. StaleInv'  BY DEF StaleInv
<1>8. SuspendInv'  BY DEF SuspendInv
<1>9. JournalInv'  BY DEF JournalInv
<1> QED  BY <1>1, <1>2, <1>3, <1>4, <1>5, <1>6, <1>7, <1>8, <1>9

LEMMA KeepsCodeServer ==
  ASSUME IInv, CodeServer
  PROVE  IInv'
<1> USE DEF IInv, CodeServer, StaleAfterLoad, ArgsAfterLoad, gateVars, ownerVars
<1>1. Flags'  BY Zenon
<1>2. ActorTypes' /\ GateTypes' /\ OwnerTypes' /\ WorkerTypes'  OBVIOUS
<1>3. GateInv'  BY DEF GateInv
<1>4. PrepareInv'  BY DEF PrepareInv
<1>5. LoadInv'  BY DEF LoadInv
<1>6. PairInv'  BY DEF PairInv
<1>7. StaleInv'
  <2>1. CASE code' = code + 1 /\ stale' = [b \in Actors |-> StaleAfterLoad(b)]
    <3>1. swap /\ code = vsn /\ vsn' = vsn
      BY DEF LoadInv
    <3>2. \A b \in Actors : life[b] \notin Exec /\ owned[b] # "true" /\ life'[b] = life[b]
      BY <3>1 DEF LoadInv
    <3>3. \A b \in Actors : life[b] \notin {"suspended", "dead"} => stale'[b] = {}
      BY <2>1, <3>2
    <3>4. wpc' \in {"invalidate", "idle"} /\ (wpc' = "idle" => wpc = "idle")
      BY <2>1, <3>1 DEF LoadInv
    <3>5. \A b \in Actors : b \notin Changed => "fields" \notin stale'[b]
      BY <2>1
    <3>6. \A b \in Actors : life'[b] \notin Exec /\ owned'[b] # "true"
      BY <3>2
    <3>7. code' # vsn' /\ cohort' = cohort /\ wtodo' = wtodo
      BY <2>1, <3>1
    <3>8. wtodo \subseteq cohort /\ (wpc' = "idle" => wtodo = {})
      BY <3>4 DEF StaleInv
    <3> HIDE DEF CodeServer, StaleAfterLoad, ArgsAfterLoad
    <3> QED
      BY <3>2, <3>3, <3>4, <3>5, <3>6, <3>7, <3>8 DEF StaleInv
  <2>2. CASE UNCHANGED <<code, stale, args>> /\ wpc' = IF wpc = "loading" THEN "rejected" ELSE wpc
    BY <2>2 DEF StaleInv
  <2> QED
    BY <2>1, <2>2
<1>8. SuspendInv'  BY DEF SuspendInv
<1>9. JournalInv'  BY DEF JournalInv
<1> QED  BY <1>1, <1>2, <1>3, <1>4, <1>5, <1>6, <1>7, <1>8, <1>9

LEMMA KeepsInvalidate ==
  ASSUME IInv, Invalidate
  PROVE  IInv'
<1> USE DEF IInv, Invalidate, actorVars, gateVars, ownerVars, nodeVars
<1>1. Flags'  OBVIOUS
<1>2. ActorTypes' /\ GateTypes' /\ OwnerTypes' /\ WorkerTypes'  OBVIOUS
<1>3. GateInv'  BY DEF GateInv
<1>4. PrepareInv'  BY DEF PrepareInv
<1>5. LoadInv'  BY DEF LoadInv
<1>6. PairInv'  BY DEF PairInv
<1>7. StaleInv'  BY DEF StaleInv
<1>8. SuspendInv'  BY DEF SuspendInv
<1>9. JournalInv'  BY DEF JournalInv
<1> QED  BY <1>1, <1>2, <1>3, <1>4, <1>5, <1>6, <1>7, <1>8, <1>9

LEMMA KeepsMigrateNext ==
  ASSUME IInv, NEW a \in Actors, MigrateNext(a)
  PROVE  IInv'
<1> USE DEF IInv, MigrateNext, Killed, gateVars, ownerVars, nodeVars, Alive
<1>1. Flags'  OBVIOUS
<1>2. ActorTypes' /\ GateTypes' /\ OwnerTypes' /\ WorkerTypes'  OBVIOUS
<1>3. GateInv'  BY DEF GateInv
<1>4. PrepareInv'  BY DEF PrepareInv
<1>5. LoadInv'  BY DEF LoadInv
<1>6. PairInv'  BY DEF PairInv
<1>7. StaleInv'  BY DEF StaleInv
<1>8. SuspendInv'  BY DEF SuspendInv
<1>9. JournalInv'  BY DEF JournalInv
<1> QED  BY <1>1, <1>2, <1>3, <1>4, <1>5, <1>6, <1>7, <1>8, <1>9

LEMMA KeepsMigrateDone ==
  ASSUME IInv, MigrateDone
  PROVE  IInv'
<1> USE DEF IInv, MigrateDone, actorVars, gateVars, ownerVars, nodeVars
<1>1. Flags'  OBVIOUS
<1>2. ActorTypes' /\ GateTypes' /\ OwnerTypes' /\ WorkerTypes'  OBVIOUS
<1>3. GateInv'  BY DEF GateInv
<1>4. PrepareInv'  BY DEF PrepareInv
<1>5. LoadInv'  BY DEF LoadInv
<1>6. PairInv'  BY DEF PairInv
<1>7. StaleInv'  BY DEF StaleInv
<1>8. SuspendInv'  BY DEF SuspendInv
<1>9. JournalInv'  BY DEF JournalInv
<1> QED  BY <1>1, <1>2, <1>3, <1>4, <1>5, <1>6, <1>7, <1>8, <1>9

LEMMA KeepsRefreshNext ==
  ASSUME IInv, NEW a \in Actors, RefreshNext(a)
  PROVE  IInv'
<1> USE DEF IInv, RefreshNext, Killed, gateVars, ownerVars, nodeVars, Alive
<1>1. Flags'  OBVIOUS
<1>2. ActorTypes' /\ GateTypes' /\ OwnerTypes' /\ WorkerTypes'  OBVIOUS
<1>3. GateInv'  BY DEF GateInv
<1>4. PrepareInv'  BY DEF PrepareInv
<1>5. LoadInv'  BY DEF LoadInv
<1>6. PairInv'  BY DEF PairInv
<1>7. StaleInv'  BY ConstantsAssumption DEF StaleInv
<1>8. SuspendInv'  BY DEF SuspendInv
<1>9. JournalInv'  BY DEF JournalInv, StaleInv
<1> QED  BY <1>1, <1>2, <1>3, <1>4, <1>5, <1>6, <1>7, <1>8, <1>9

LEMMA KeepsRefreshDone ==
  ASSUME IInv, RefreshDone
  PROVE  IInv'
<1> USE DEF IInv, RefreshDone, actorVars, gateVars, ownerVars, nodeVars
<1>1. Flags'  OBVIOUS
<1>2. ActorTypes' /\ GateTypes' /\ OwnerTypes' /\ WorkerTypes'  OBVIOUS
<1>3. GateInv'  BY DEF GateInv
<1>4. PrepareInv'  BY DEF PrepareInv
<1>5. LoadInv'  BY DEF LoadInv
<1>6. PairInv'  BY DEF PairInv
<1>7. StaleInv'  BY DEF StaleInv
<1>8. SuspendInv'  BY DEF SuspendInv
<1>9. JournalInv'  BY DEF JournalInv
<1> QED  BY <1>1, <1>2, <1>3, <1>4, <1>5, <1>6, <1>7, <1>8, <1>9

LEMMA KeepsWorkerRaise ==
  ASSUME IInv, WorkerRaise
  PROVE  IInv'
<1> USE DEF IInv, WorkerRaise, Fault, actorVars, gateVars, ownerVars, nodeVars
<1>1. Flags'  OBVIOUS
<1>2. ActorTypes' /\ GateTypes' /\ OwnerTypes' /\ WorkerTypes'  OBVIOUS
<1>3. GateInv'  BY DEF GateInv
<1>4. PrepareInv'  BY DEF PrepareInv
<1>5. LoadInv'  BY DEF LoadInv
<1>6. PairInv'  BY DEF PairInv
<1>7. StaleInv'  BY DEF StaleInv
<1>8. SuspendInv'  BY DEF SuspendInv
<1>9. JournalInv'  BY DEF JournalInv
<1> QED  BY <1>1, <1>2, <1>3, <1>4, <1>5, <1>6, <1>7, <1>8, <1>9

LEMMA KeepsOwnerLost ==
  ASSUME IInv, OwnerLost
  PROVE  IInv'
<1> USE DEF IInv, OwnerLost, Killed, WorkerDone, gateVars, nodeVars, Alive, Calls
<1>1. Flags'  OBVIOUS
<1>2. ActorTypes' /\ GateTypes' /\ OwnerTypes' /\ WorkerTypes'  OBVIOUS
<1>3. GateInv'  BY DEF GateInv
<1>4. PrepareInv'  BY DEF PrepareInv
<1>5. LoadInv'  BY DEF LoadInv
<1>6. PairInv'  BY DEF PairInv
<1>7. StaleInv'  BY DEF StaleInv
<1>8. SuspendInv'  BY DEF SuspendInv
<1>9. JournalInv'  BY ConstantsAssumption DEF JournalInv
<1> QED  BY <1>1, <1>2, <1>3, <1>4, <1>5, <1>6, <1>7, <1>8, <1>9

LEMMA KeepsWorkerDie ==
  ASSUME IInv, WorkerDie
  PROVE  IInv'
<1> USE DEF IInv, WorkerDie, Fault, WorkerDone, actorVars, gateVars, nodeVars
<1>1. Flags'  BY Zenon
<1>2. ActorTypes' /\ GateTypes' /\ OwnerTypes' /\ WorkerTypes'  OBVIOUS
<1>3. GateInv'  BY DEF GateInv
<1>4. PrepareInv'  BY DEF PrepareInv
<1>5. LoadInv'  BY DEF LoadInv
<1>6. PairInv'
  <2>1. opc \in Active \/ opc \in {"begin", "exit"} => orphan'
    BY Zenon DEF PairInv
  <2> QED
    BY <2>1 DEF PairInv
<1>7. StaleInv'  BY DEF StaleInv
<1>8. SuspendInv'  BY DEF SuspendInv
<1>9. JournalInv'
  <2>1. opc \in Active \/ opc = "begin" => orphan'
    BY Zenon DEF PairInv
  <2> QED
    BY <2>1, ConstantsAssumption DEF JournalInv
<1> QED  BY <1>1, <1>2, <1>3, <1>4, <1>5, <1>6, <1>7, <1>8, <1>9

-----------------------------------------------------------------------------
(* The invariant. *)

LEMMA InitIInv == Init => IInv
<1> SUFFICES ASSUME Init PROVE IInv
  OBVIOUS
<1> USE ConstantsAssumption DEF Init
<1>1. Flags  BY Zenon
<1>2. ActorTypes /\ GateTypes /\ OwnerTypes /\ WorkerTypes  OBVIOUS
<1>3. GateInv /\ PrepareInv  BY DEF GateInv, PrepareInv
<1>4. LoadInv /\ PairInv  BY DEF LoadInv, PairInv
<1>5. StaleInv  BY DEF StaleInv
<1>6. SuspendInv /\ JournalInv  BY DEF SuspendInv, JournalInv
<1> QED  BY <1>1, <1>2, <1>3, <1>4, <1>5, <1>6 DEF IInv

\* A stuttering step changes none of the variables the invariant speaks of.
LEMMA KeepsStutter ==
  ASSUME IInv, UNCHANGED vars
  PROVE  IInv'
<1> USE DEF IInv, vars, actorVars, gateVars, ownerVars, workerVars, nodeVars
<1>1. Flags' /\ ActorTypes' /\ GateTypes' /\ OwnerTypes' /\ WorkerTypes'  OBVIOUS
<1>2. GateInv'  BY DEF GateInv
<1>3. PrepareInv'  BY DEF PrepareInv
<1>4. LoadInv'  BY DEF LoadInv
<1>5. PairInv'  BY DEF PairInv
<1>6. StaleInv'  BY DEF StaleInv
<1>7. SuspendInv'  BY DEF SuspendInv
<1>8. JournalInv'  BY DEF JournalInv
<1> QED  BY <1>1, <1>2, <1>3, <1>4, <1>5, <1>6, <1>7, <1>8

LEMMA StepIInv ==
  ASSUME IInv, [Next]_vars
  PROVE  IInv'
<1>1. CASE \E a \in Actors : ActorStep(a) \/ ResumeWorker(a)
  BY <1>1, KeepsSpawn, KeepsBeginInit, KeepsEndInit, KeepsActorCrash, KeepsResumeWorker
  DEF ActorStep
<1>2. CASE GateStep
  BY <1>2, KeepsGateEnter, KeepsGateLeave, KeepsGateActorDown, KeepsGateResumed,
     KeepsGateOwnerDown
  DEF GateStep
<1>3. CASE OwnerStep
  BY <1>3, KeepsOwnerRegister, KeepsStrayRegister, KeepsGateBegin, KeepsCensus,
     KeepsOwnerSuspend, KeepsSuspendCall, KeepsGateSuspended, KeepsSuspendDone,
     KeepsSuspendNext, KeepsOwnerResume, KeepsOwnerCommit, KeepsGateCheck, KeepsGateCommit,
     KeepsOwnerLoaded, KeepsOwnerReady, KeepsOwnerEnd, KeepsOwnerStop, KeepsGateAbort,
     KeepsOwnerPublish, KeepsOwnerSchedule, KeepsOwnerErase, KeepsGateFinish,
     KeepsOwnerGateLost, KeepsOwnerExit
  DEF OwnerStep
<1>4. CASE WorkerStep
  BY <1>4, KeepsLoadRequest, KeepsCodeServer, KeepsInvalidate, KeepsMigrateNext,
     KeepsRefreshNext, KeepsMigrateDone, KeepsRefreshDone, KeepsOwnerLost
  DEF WorkerStep
<1>5. CASE FaultStep
  BY <1>5, KeepsGateDie, KeepsOwnerDie, KeepsWorkerDie, KeepsWorkerRaise,
     KeepsResumeWorkerDie
  DEF FaultStep
<1>6. CASE Admit
  BY <1>6, KeepsAdmit
<1>7. CASE UNCHANGED vars
  BY <1>7, KeepsStutter
<1> QED
  BY <1>1, <1>2, <1>3, <1>4, <1>5, <1>6, <1>7 DEF Next

\* The invariant holds throughout every reload, whatever crashes and whenever.
THEOREM Invariance == Spec => []IInv
<1>1. Init => IInv
  BY InitIInv
<1>2. IInv /\ [Next]_vars => IInv'
  BY StepIInv
<1> QED
  BY <1>1, <1>2, PTL DEF Spec

-----------------------------------------------------------------------------
(* What it implies. *)

\* The states of the gate, the owner, the applicator and the actors stay in
\* their domains.
THEOREM TypeCorrect == Spec => []TypeOK
<1>1. IInv => TypeOK
  BY DEF IInv
<1> QED
  BY <1>1, Invariance, PTL

\* No actor ever runs user code on state in the form of older code.
THEOREM NeverStale == Spec => []NoStaleExecution
<1>1. IInv => NoStaleExecution
  BY DEF IInv, StaleInv, NoStaleExecution
<1> QED
  BY <1>1, Invariance, PTL

\* An initializer that was parked behind a load runs on migrated arguments.
THEOREM ParkedMigrated == Spec => []ParkedArgsMigrated
<1>1. IInv => ParkedArgsMigrated
  BY DEF IInv, GateInv, ParkedArgsMigrated
<1> QED
  BY <1>1, Invariance, PTL

\* Without a fence and without an owner the node has lost track of nothing,
\* after any number of deaths.
THEOREM Whole == Spec => []UnfencedIsWhole
<1>1. IInv => UnfencedIsWhole
  BY DEF IInv, LoadInv, SuspendInv, UnfencedIsWhole
<1> QED
  BY <1>1, Invariance, PTL

\* ok and an explicit rejection are told to the client only when they are true.
THEOREM TrueAnswers == Spec => []AnswersAreTrue
<1>1. IInv => AnswersAreTrue
  BY DEF IInv, LoadInv, SuspendInv, AnswersAreTrue
<1> QED
  BY <1>1, Invariance, PTL

\* No match of the recovery owner fails, so it never dies of its own assertions.
THEOREM NeverBadmatch == Spec => []OwnerAssertions
<1>1. ASSUME IInv PROVE OwnerAssertions
  <2>1. opc = "finish" /\ up => Resuming = {} /\ ~fenced /\ ~fence
    BY <1>1 DEF IInv, GateInv, Resuming
  <2>2. ASSUME opc = "loop", ~orphan
        PROVE  /\ wpc = "loaded" => phase = "committing"
               /\ wpc = "ready" => phase = "loaded" /\ owned[wcur] # "no"
               /\ wpc = "complete" => phase = "loaded"
    BY <1>1, <2>2 DEF IInv, LoadInv, JournalInv
  <2>3. opc = "loop" /\ ~orphan /\ wpc = "complete" =>
          \A a \in Actors : owned[a] # "no" /\ Alive(a) => owned[a] = "true"
    BY <1>1 DEF IInv, JournalInv
  <2> QED
    BY <2>1, <2>2, <2>3 DEF OwnerAssertions
<1> QED
  BY <1>1, Invariance, PTL

-----------------------------------------------------------------------------
(* The refinement.  All steps but two are calm: they leave both versions alone, *)
(* outdate nobody, and set nobody running while somebody is outdated.           *)

Outdated == {b \in Actors : Alive(b) /\ stale[b] # {}}

Calm ==
  /\ code' = code /\ vsn' = vsn
  /\ \A b \in Actors : stale'[b] \subseteq stale[b] /\ (life[b] = "dead" => life'[b] = "dead")
  /\ Outdated # {} => \A b \in Actors : life'[b] \notin Exec

LEMMA CalmActors ==
  ASSUME IInv, \E a \in Actors : ActorStep(a) \/ ResumeWorker(a)
  PROVE  Calm
<1> USE DEF IInv, StaleInv, Calm, Outdated, actorVars, gateVars, ownerVars, workerVars, nodeVars
<1>1. ASSUME NEW a \in Actors, NEW p \in Actors \cup {None}, Spawn(a, p) PROVE Calm
  BY <1>1 DEF Spawn
<1>2. ASSUME NEW a \in Actors, BeginInit(a) PROVE Calm
  BY <1>2 DEF BeginInit
<1>3. ASSUME NEW a \in Actors, EndInit(a) PROVE Calm
  BY <1>3 DEF EndInit
<1>4. ASSUME NEW a \in Actors, ActorCrash(a) PROVE Calm
  BY <1>4 DEF ActorCrash, Killed
<1>5. ASSUME NEW a \in Actors, ResumeWorker(a) PROVE Calm
  BY <1>5 DEF ResumeWorker, Killed, LoadInv
<1> QED
  BY <1>1, <1>2, <1>3, <1>4, <1>5 DEF ActorStep

LEMMA CalmGate ==
  ASSUME IInv, GateStep
  PROVE  Calm
<1> USE DEF IInv, StaleInv, Calm, Outdated, actorVars, gateVars, ownerVars, workerVars, nodeVars
<1>1. ASSUME NEW a \in Actors, GateEnter(a) PROVE Calm
  BY <1>1 DEF GateEnter, StartupFenced, ResumeAll, LoadInv
<1>2. ASSUME NEW a \in Actors, GateLeave(a) PROVE Calm
  BY <1>2 DEF GateLeave
<1>3. ASSUME NEW a \in Actors, GateActorDown(a) PROVE Calm
  BY <1>3 DEF GateActorDown
<1>4. ASSUME NEW a \in Actors, GateResumed(a) PROVE Calm
  BY <1>4 DEF GateResumed, Killed, Resuming, LoadInv
<1>5. CASE GateOwnerDown
  BY <1>5 DEF GateOwnerDown, Resuming, ReleaseWaiters, SuspendInv
<1> QED
  BY <1>1, <1>2, <1>3, <1>4, <1>5 DEF GateStep

LEMMA CalmOwner ==
  ASSUME IInv, OwnerStep /\ ~OwnerPublish
  PROVE  Calm
<1> USE DEF IInv, StaleInv, Calm, Outdated, actorVars, gateVars, ownerVars, workerVars, nodeVars
<1>1. CASE OwnerRegister
  BY <1>1 DEF OwnerRegister, NewOwner
<1>2. CASE StrayRegister
  BY <1>2 DEF StrayRegister, NewOwner
<1>3. CASE GateBegin
  BY <1>3 DEF GateBegin, StartupFenced, Reply, Answer
<1>4. CASE Census
  BY <1>4 DEF Census, Reply
<1>5. CASE OwnerSuspend
  BY <1>5 DEF OwnerSuspend
<1>6. CASE SuspendCall
  BY <1>6 DEF SuspendCall, Killed, Reply
<1>7. CASE GateSuspended
  BY <1>7 DEF GateSuspended, ResumeAll, Reply
<1>8. CASE SuspendDone
  BY <1>8 DEF SuspendDone, Reply
<1>9. ASSUME NEW a \in Actors, SuspendNext(a) PROVE Calm
  BY <1>9 DEF SuspendNext, Reply
<1>10. ASSUME NEW a \in Actors, OwnerResume(a) PROVE Calm
  BY <1>10 DEF OwnerResume, Killed, Fault, Stop, SuspendInv
<1>11. CASE OwnerCommit
  BY <1>11 DEF OwnerCommit, Fault
<1>12. CASE GateCheck
  BY <1>12 DEF GateCheck
<1>13. CASE GateCommit
  BY <1>13 DEF GateCommit, Reply
<1>14. CASE OwnerLoaded
  BY <1>14 DEF OwnerLoaded
<1>15. CASE OwnerReady
  BY <1>15 DEF OwnerReady
<1>16. CASE OwnerEnd
  BY <1>16 DEF OwnerEnd
<1>17. CASE OwnerStop
  BY <1>17 DEF OwnerStop, Killed, Fault, Stop, Untrusted
<1>18. CASE GateAbort
  BY <1>18 DEF GateAbort, ResumeAll
<1>19. CASE OwnerSchedule
  BY <1>19 DEF OwnerSchedule, Fault, Reply, Answer
<1>20. CASE OwnerErase
  BY <1>20 DEF OwnerErase
<1>21. CASE GateFinish
  BY <1>21 DEF GateFinish, Resuming, ReleaseWaiters, Reply, Answer, SuspendInv
<1>22. CASE OwnerGateLost
  BY <1>22 DEF OwnerGateLost, Reply, Answer, OwnerGone
<1>23. CASE OwnerExit
  BY <1>23 DEF OwnerExit, OwnerGone, WorkerDone
<1> QED
  BY <1>1, <1>2, <1>3, <1>4, <1>5, <1>6, <1>7, <1>8, <1>9, <1>10, <1>11, <1>12, <1>13, 
     <1>14, <1>15, <1>16, <1>17, <1>18, <1>19, <1>20, <1>21, <1>22, <1>23 DEF OwnerStep

LEMMA CalmWorker ==
  ASSUME IInv, WorkerStep /\ ~CodeServer
  PROVE  Calm
<1> USE DEF IInv, StaleInv, Calm, Outdated, actorVars, gateVars, ownerVars, workerVars, nodeVars
<1>1. CASE LoadRequest
  BY <1>1 DEF LoadRequest
<1>2. CASE Invalidate
  BY <1>2 DEF Invalidate
<1>3. ASSUME NEW a \in Actors, MigrateNext(a) PROVE Calm
  BY <1>3 DEF MigrateNext, Killed
<1>4. ASSUME NEW a \in Actors, RefreshNext(a) PROVE Calm
  BY <1>4 DEF RefreshNext, Killed
<1>5. CASE MigrateDone
  BY <1>5 DEF MigrateDone
<1>6. CASE RefreshDone
  BY <1>6 DEF RefreshDone
<1>7. CASE OwnerLost
  BY <1>7 DEF OwnerLost, Killed, WorkerDone
<1> QED
  BY <1>1, <1>2, <1>3, <1>4, <1>5, <1>6, <1>7 DEF WorkerStep

LEMMA CalmFault ==
  ASSUME IInv, FaultStep \/ Admit
  PROVE  Calm
<1> USE DEF IInv, StaleInv, Calm, Outdated, actorVars, gateVars, ownerVars, workerVars, nodeVars
<1>1. CASE GateDie
  BY <1>1 DEF GateDie, Killed, Fault
<1>2. CASE OwnerDie
  BY <1>2 DEF OwnerDie, Fault, OwnerGone
<1>3. CASE WorkerDie
  BY <1>3 DEF WorkerDie, Fault, WorkerDone
<1>4. CASE WorkerRaise
  BY <1>4 DEF WorkerRaise, Fault
<1>5. ASSUME NEW a \in Actors, ResumeWorkerDie(a) PROVE Calm
  BY <1>5 DEF ResumeWorkerDie, Fault
<1>6. CASE Admit
  BY <1>6 DEF Admit
<1> QED
  BY <1>1, <1>2, <1>3, <1>4, <1>5, <1>6 DEF FaultStep

\* Every step is calm, publishes, or is the code server's.
LEMMA StepKinds ==
  ASSUME IInv, [Next]_vars
  PROVE  Calm \/ OwnerPublish \/ CodeServer
<1>1. CASE UNCHANGED vars
  BY <1>1 DEF vars, actorVars, nodeVars, Calm, Outdated, IInv, StaleInv
<1> QED
  BY <1>1, CalmActors, CalmGate, CalmOwner, CalmWorker, CalmFault
  DEF Next, OwnerStep, WorkerStep

\* The code server acts with the old code still published and nobody running.
LEMMA CodeServerAlone ==
  ASSUME IInv, CodeServer
  PROVE  /\ code = vsn /\ vsn' = vsn /\ life' = life /\ opc' = opc /\ fence' = fence
         /\ \A b \in Actors : life[b] \notin Exec
  BY DEF IInv, LoadInv, CodeServer, ownerVars

\* The code is swapped only while nobody holds the gate or serves requests, even
\* when the code server finishes the request of a dead applicator.
THEOREM Alone == Spec => SwapAlone
<1>1. IInv /\ [Next]_vars => [code' # code => \A a \in Actors : life[a] \notin Exec]_vars
  BY StepKinds, CodeServerAlone DEF Calm, OwnerPublish
<1>2. (code' # code => \A a \in Actors : life[a] \notin Exec)
      => (code' # code => \A a \in Actors :
            life[a] \notin {"granted", "queued", "init", "leaving", "failing", "ready"})
  OBVIOUS
<1> QED
  BY <1>1, <1>2, Invariance, PTL DEF Spec, SwapAlone

\* A calm step is a Schedule step of the promise when nobody is outdated, and a
\* Convert step when somebody is.
LEMMA CalmRefines ==
  ASSUME IInv, IInv', Calm
  PROVE  Promise!Next
<1>1. Outdated' \subseteq Outdated
  BY DEF Calm, Outdated, IInv, StaleInv
<1>2. Running \subseteq Actors /\ Running' \subseteq Actors
  BY DEF Running
<1>3. Running \cap Outdated = {}
  BY DEF Running, Outdated, IInv, StaleInv
<1>4. ASSUME Outdated # {} PROVE Running = {} /\ Running' = {}
  BY <1>4 DEF Calm, Outdated, Running, IInv, StaleInv
<1>5. (opc' = "none" /\ ~fence') => code' = vsn'
  BY DEF IInv, LoadInv
<1> QED
  BY <1>1, <1>2, <1>3, <1>4, <1>5
  DEF Promise!Next, Promise!Schedule, Promise!Convert, Outdated, Calm

\* The hot upgrade of the running system implements the promise made to the code
\* it upgrades: one version at a time, on converted state, under nobody's feet.
THEOREM Refinement == Spec => ImplementsPromise
<1>1. Init => Promise!Init
  BY DEF Init, Promise!Init, Running
<1>2. ASSUME IInv, IInv', [Next]_vars
      PROVE  Promise!Next \/ UNCHANGED Promise!pvars
  <2>1. (opc' = "none" /\ ~fence') => code' = vsn'
    BY <1>2 DEF IInv, LoadInv
  <2>2. CASE Calm
    BY <1>2, <2>2, CalmRefines
  <2>3. CASE OwnerPublish
    BY <1>2, <2>1, <2>3
    DEF OwnerPublish, actorVars, IInv, LoadInv, Promise!Next, Promise!Publish, Running,
        Promise!Schedule, Promise!pvars
  <2>4. CASE CodeServer
    <3>1. /\ code = vsn /\ vsn' = vsn /\ Running = {} /\ Running' = {}
          /\ (opc' = "none" /\ ~fence') = (opc = "none" /\ ~fence)
      BY <1>2, <2>4, CodeServerAlone DEF Running
    <3>2. CASE code' = code + 1
      BY <2>1, <3>1, <3>2 DEF Promise!Next, Promise!Swap
    <3>3. CASE UNCHANGED <<code, stale>>
      BY <2>4, <3>1, <3>3 DEF CodeServer, Promise!pvars
    <3> QED
      BY <2>4, <3>2, <3>3 DEF CodeServer
  <2> QED
    BY <1>2, <2>2, <2>3, <2>4, StepKinds
<1> QED
  BY <1>1, <1>2, Invariance, PTL DEF Spec, ImplementsPromise, Promise!Spec
=============================================================================
