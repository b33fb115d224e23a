--------------------- MODULE SessionExecutionOwnerProofs ---------------------
(***************************************************************************)
(* Type correctness of SessionExecutionOwner, and that a Session has at    *)
(* most one executor, which owns its row, for any number of Sessions,      *)
(* processes, hosts and generations.                                       *)
(***************************************************************************)
EXTENDS SessionExecutionOwner, TLAPS

USE DEF row, data, runtime, memory, fiber

-----------------------------------------------------------------------------
(* Types of the helpers that the actions share. *)

\* A move of a fiber keeps the types of its locals.
LEMMA GoToType ==
  ASSUME FiberType, NEW h \in Host, NEW s \in Session, NEW place \in Place,
         GoTo(h, s, place)
  PROVE  FiberType'
BY DEF FiberType, GoTo

\* The end of a fiber resets its locals.
LEMMA FinishType ==
  ASSUME FiberType, NEW h \in Host, NEW s \in Session, Finish(h, s)
  PROVE  FiberType'
BY BoundAssumption DEF FiberType, Finish, Place, Gen, OwnerOrNone

\* A job that starts has a place and a goal.
LEMMA StartType ==
  ASSUME FiberType, NEW h \in Host, NEW s \in Session, NEW j \in Job,
         NEW place \in Place, NEW n \in Gen, Start(h, s, j, place, n)
  PROVE  FiberType'
BY DEF FiberType, Start

\* A busy answer moves or ends the fiber.
LEMMA BusyType ==
  ASSUME FiberType, NEW h \in Host, NEW s \in Session, Busy(h, s)
  PROVE  FiberType'
BY GoToType, FinishType DEF Busy, Place

\* Retaining a process touches its runtime_owner row only.
LEMMA RetainType ==
  ASSUME RuntimeType, NEW p \in Process, Retain(p)
  PROVE  RuntimeType'
BY DEF RuntimeType, Retain

\* Clearing a row keeps its generation.
LEMMA ClearRowType ==
  ASSUME RowType, NEW s \in Session, ClearRow(s)
  PROVE  RowType'
BY DEF RowType, ClearRow, OwnerOrNone

\* Releasing clears the row or leaves it alone.
LEMMA ReleaseRowType ==
  ASSUME RowType, NEW h \in Host, NEW s \in Session, ReleaseRow(h, s)
  PROVE  RowType'
BY ClearRowType DEF ReleaseRow, RowType

\* A claim that is handed out has a token and a retention of its type.
LEMMA ClaimedType ==
  ASSUME FiberType, MemoryType, NEW h \in Host, NEW s \in Session,
         NEW o \in OwnerOrNone, NEW n \in Gen, Claimed(h, s, o, n)
  PROVE  FiberType' /\ MemoryType'
<1> ProcOf[h] \in Process
  BY HostAssumption
<1>1. FiberType'
  BY DEF FiberType, Claimed, Place, Mending, OwnerOrNone
<1>2. MemoryType'
  BY DEF MemoryType, Claimed, KeepRecoveryRetention
<1> QED BY <1>1, <1>2

\* Every place an action names is one.
LEMMA PlaceMembers ==
  {"idle", "claim", "judge", "settle", "clear", "admit", "acquire", "readmit",
   "reacquire", "commit", "run", "drained", "mend", "unwind", "prove", "cas",
   "hazard", "scan", "seal", "complete"} \subseteq Place
BY DEF Place, Admitting, Executing, Claiming, Mending

-----------------------------------------------------------------------------
(* Every step keeps the types. *)

\* Every variable starts in its type.
LEMMA TypeInit == Init => TypeOK
BY BoundAssumption DEF Init, TypeOK, RowType, DataType, RuntimeType, MemoryType, FiberType, Gen, OwnerOrNone, Place

\* Starting, crashing, beating and collecting keep the types.
LEMMA TypeProcessStep ==
  ASSUME TypeOK, NEW p \in Process, ProcessStep(p)
  PROVE  TypeOK'
<1> USE DEF TypeOK
<1>1. CASE StartProcess(p)
  BY <1>1 DEF StartProcess,
     RowType, DataType, RuntimeType, MemoryType, FiberType
<1>2. CASE Crash(p)
  BY <1>2, BoundAssumption DEF Crash, Gen, OwnerOrNone, Place,
     RowType, DataType, RuntimeType, MemoryType, FiberType
<1>3. CASE Beat(p)
  BY <1>3 DEF Beat,
     RowType, DataType, RuntimeType, MemoryType, FiberType
<1>4. CASE GoStale(p)
  BY <1>4 DEF GoStale,
     RowType, DataType, RuntimeType, MemoryType, FiberType
<1>5. ASSUME NEW dead \in Process, Collect(p, dead) PROVE TypeOK'
  BY <1>5 DEF Collect, RowType, DataType, RuntimeType, MemoryType, FiberType
<1>6. ASSUME NEW s \in Session, ReconcileAtStartup(p, s) PROVE TypeOK'
  BY <1>6, ClearRowType DEF ReconcileAtStartup, DataType, RuntimeType, MemoryType, FiberType
<1> QED BY <1>1, <1>2, <1>3, <1>4, <1>5, <1>6 DEF ProcessStep

\* Admission, execution and release keep the types.
LEMMA TypeExecutionStep ==
  ASSUME TypeOK, NEW h \in Host, NEW s \in Session, ExecutionStep(h, s)
  PROVE  TypeOK'
<1> ProcOf[h] \in Process
  BY HostAssumption
<1> USE DEF TypeOK
<1>1. CASE StartDrain(h, s)
  BY <1>1, BoundAssumption DEF StartDrain, MayStart, Start, Job, Place, Admitting, Gen,
     RowType, DataType, RuntimeType, MemoryType, FiberType
<1>2. CASE Check(h, s)
  BY <1>2, GoToType, BusyType, RetainType, PlaceMembers
  DEF Check, RowType, DataType, RuntimeType, MemoryType, FiberType
<1>3. CASE Acquire(h, s)
  <2>1. FiberType'
    <3>1. CASE Busy(h, s)
      BY <3>1, BusyType
    <3>2. CASE Finish(h, s)
      BY <3>2, FinishType
    <3>3. CASE /\ gen[s] < MaxGen
               /\ at' = [at EXCEPT ![h][s] = "commit"]
               /\ tok' = [tok EXCEPT ![h][s] = NextGeneration(s)]
               /\ UNCHANGED <<job, src, prev, goal, found>>
      BY <3>3, BoundAssumption, PlaceMembers DEF FiberType, RowType, NextGeneration, Gen
    <3> QED BY <1>3, <3>1, <3>2, <3>3 DEF Acquire
  <2>2. RowType'
    <3>1. CASE UNCHANGED row
      BY <3>1 DEF RowType
    <3>2. CASE gen[s] < MaxGen /\ gen' = [gen EXCEPT ![s] = NextGeneration(s)]
      <4>1. NextGeneration(s) \in Gen
        BY <3>2, BoundAssumption DEF RowType, NextGeneration, Gen
      <4> QED BY <1>3, <3>2, <4>1 DEF Acquire, RowType, OwnerOrNone
    <3> QED BY <1>3, <3>1, <3>2 DEF Acquire
  <2> QED BY <1>3, <2>1, <2>2 DEF Acquire, DataType, RuntimeType, MemoryType
<1>4. CASE Admit(h, s)
  <2>1. FiberType'
    BY <1>4, GoToType, PlaceMembers DEF Admit
  <2>2. MemoryType'
    BY <1>4 DEF Admit, MemoryType, Registered, FiberType
  <2> QED BY <1>4, <2>1, <2>2 DEF Admit, Registered, RowType, DataType, RuntimeType
<1>5. CASE AdmitInterrupted(h, s)
  BY <1>5, FinishType
  DEF AdmitInterrupted, MemoryType, Registered, FiberType, RowType, DataType, RuntimeType
<1>6. CASE RunnerWrites(h, s)
  <2>1. tok[h][s] \in Gen /\ 0 \in Gen
    BY BoundAssumption DEF FiberType, Gen
  <2>2. DataType'
    BY <1>6, <2>1 DEF RunnerWrites, DataType
  <2> QED BY <1>6, <2>2 DEF RunnerWrites, RowType, RuntimeType, MemoryType, FiberType
<1>7. CASE RunnerExits(h, s)
  BY <1>7, GoToType, PlaceMembers
  DEF RunnerExits, RowType, DataType, RuntimeType, MemoryType
<1>8. CASE ReleaseIfDrained(h, s)
  <2>1. RowType'
    BY <1>8, ReleaseRowType DEF ReleaseIfDrained, RowType
  <2>2. FiberType'
    BY <1>8, GoToType, PlaceMembers DEF ReleaseIfDrained
  <2> QED BY <1>8, <2>1, <2>2 DEF ReleaseIfDrained, DataType, RuntimeType, MemoryType
<1>9. CASE Release(h, s)
  BY <1>9, GoToType, ReleaseRowType, PlaceMembers
  DEF Release, DataType, RuntimeType, MemoryType
<1>10. CASE ClearActivation(h, s)
  BY <1>10, FinishType, BoundAssumption
  DEF ClearActivation, MemoryType, Gen, RowType, DataType, RuntimeType
<1>11. CASE Interrupt(h, s)
  BY <1>11, GoToType, FinishType, PlaceMembers
  DEF Interrupt, RowType, DataType, RuntimeType, MemoryType, FiberType
<1>12. CASE MendTools(h, s)
  <2>1. FiberType'
    BY <1>12, GoToType, PlaceMembers DEF MendTools
  <2>2. DataType'
    BY <1>12 DEF MendTools, DataType
  <2> QED BY <1>12, <2>1, <2>2 DEF MendTools, RowType, RuntimeType, MemoryType
<1>13. CASE Retire(h, s)
  BY <1>13, FinishType, BoundAssumption
  DEF Retire, MemoryType, Gen, RowType, DataType, RuntimeType
<1> QED BY <1>1, <1>2, <1>3, <1>4, <1>5, <1>6, <1>7, <1>8, <1>9, <1>10, <1>11, <1>12, <1>13 DEF ExecutionStep

\* Recovery, containment and stop keep the types.
LEMMA TypeRecoveryStep ==
  ASSUME TypeOK, NEW h \in Host, NEW s \in Session, RecoveryStep(h, s)
  PROVE  TypeOK'
<1> ProcOf[h] \in Process
  BY HostAssumption
<1> USE DEF TypeOK
<1>1. CASE StartSweep(h, s)
  BY <1>1, BoundAssumption
  DEF StartSweep, FiberType, MayStart, Start, Place, Job, Gen, RowType, DataType, RuntimeType, MemoryType
<1>2. CASE StartStop(h, s)
  <2>1. FiberType'
    <3>1. gen[s] \in Gen /\ {"stop", "repair"} \subseteq Job
      BY DEF RowType, Job
    <3>2. CASE Start(h, s, "stop", "claim", gen[s])
      BY <3>1, <3>2, StartType, PlaceMembers
    <3>3. CASE Start(h, s, "repair", "admit", gen[s])
      BY <3>1, <3>3, StartType, PlaceMembers
    <3> QED BY <1>2, <3>2, <3>3 DEF StartStop
  <2>2. RowType'
    BY <1>2 DEF StartStop, RowType
  <2> QED BY <1>2, <2>1, <2>2 DEF StartStop, DataType, RuntimeType, MemoryType
<1>3. CASE ClaimRead(h, s)
  <2>1. RuntimeType'
    BY <1>3, RetainType DEF ClaimRead
  <2>2. FiberType' /\ MemoryType'
    <3>1. CASE Finish(h, s) /\ UNCHANGED memory
      BY <3>1, FinishType DEF MemoryType
    <3>2. CASE Claimed(h, s, owner[s], gen[s])
      BY <3>2, ClaimedType DEF RowType
    <3>3. CASE /\ at' = [at EXCEPT ![h][s] = "prove"]
               /\ tok' = [tok EXCEPT ![h][s] = gen[s]]
               /\ src' = [src EXCEPT ![h][s] = owner[s]]
               /\ prev' = [prev EXCEPT ![h][s] = recOwner[s]]
               /\ UNCHANGED <<job, goal, found, memory>>
      BY <3>3, PlaceMembers DEF FiberType, MemoryType, RowType
    <3> QED BY <1>3, <3>1, <3>2, <3>3 DEF ClaimRead
  <2> QED BY <1>3, <2>1, <2>2 DEF ClaimRead, RowType, DataType
<1>4. CASE ClaimProve(h, s)
  BY <1>4, GoToType, FinishType, PlaceMembers
  DEF ClaimProve, RowType, DataType, RuntimeType, MemoryType
<1>5. CASE ClaimCas(h, s)
  <2>1. RowType'
    BY <1>5 DEF ClaimCas, RowType, OwnerOrNone
  <2>2. FiberType' /\ MemoryType'
    <3>1. CASE Finish(h, s) /\ UNCHANGED memory
      BY <3>1, FinishType DEF MemoryType
    <3>2. CASE Claimed(h, s, owner[s], gen[s])
      BY <3>2, ClaimedType DEF RowType
    <3>3. CASE Claimed(h, s, src[h][s], tok[h][s])
      BY <3>3, ClaimedType DEF FiberType
    <3> QED BY <1>5, <3>1, <3>2, <3>3 DEF ClaimCas
  <2> QED BY <1>5, <2>1, <2>2 DEF ClaimCas, RuntimeType, DataType
<1>6. CASE AbandonClaim(h, s)
  BY <1>6, FinishType
  DEF AbandonClaim, RowType, MemoryType, DropRecoveryRetention, OwnerOrNone, DataType, RuntimeType
<1>7. CASE EnterContainment(h, s)
  BY <1>7, GoToType, FinishType, PlaceMembers
  DEF EnterContainment, RowType, DataType, RuntimeType, MemoryType
<1>8. CASE SettleTools(h, s)
  <2>1. FiberType'
    BY <1>8, GoToType, PlaceMembers DEF SettleTools
  <2>2. DataType'
    BY <1>8 DEF SettleTools, DataType
  <2> QED BY <1>8, <2>1, <2>2 DEF SettleTools, RowType, RuntimeType, MemoryType
<1>9. CASE HazardCheck(h, s)
  BY <1>9, GoToType, FinishType, PlaceMembers
  DEF HazardCheck, RowType, DataType, RuntimeType, MemoryType
<1>10. CASE SealScan(h, s)
  BY <1>10, BoundAssumption
  DEF SealScan, FiberType, DataType, Place, Mending, Gen, RowType, RuntimeType, MemoryType
<1>11. CASE RecoveryGivesUp(h, s)
  BY <1>11, FinishType
  DEF RecoveryGivesUp, RowType, DataType, RuntimeType, MemoryType
<1>12. CASE SealPublish(h, s)
  BY <1>12, BoundAssumption
  DEF SealPublish, FiberType, DataType, Place, Mending, Gen, RowType, RuntimeType, MemoryType
<1>13. CASE Complete(h, s)
  <2>1. RowType'
    BY <1>13, ClearRowType DEF Complete, RowType
  <2>2. FiberType'
    <3>1. CASE Finish(h, s)
      BY <3>1, FinishType
    <3>2. CASE /\ at' = [at EXCEPT ![h][s] = "readmit"]
               /\ tok' = [tok EXCEPT ![h][s] = 0]
               /\ src' = [src EXCEPT ![h][s] = None]
               /\ UNCHANGED <<job, prev, goal, found>>
      BY <3>2, PlaceMembers, BoundAssumption DEF FiberType, Gen, OwnerOrNone
    <3> QED BY <1>13, <3>1, <3>2 DEF Complete
  <2>3. MemoryType'
    BY <1>13 DEF Complete, DropRecoveryRetention, MemoryType
  <2> QED BY <1>13, <2>1, <2>2, <2>3 DEF Complete, RuntimeType, DataType
<1> QED BY <1>1, <1>2, <1>3, <1>4, <1>5, <1>6, <1>7, <1>8, <1>9, <1>10, <1>11, <1>12, <1>13 DEF RecoveryStep

\* Type correctness: no step of any process, host or environment leaves the
\* types of the rows, of the process memory and of the fibers.
THEOREM TypeCorrect == Spec => []TypeOK
<1>1. Init => TypeOK
  BY TypeInit
<1>2. TypeOK /\ [Next]_vars => TypeOK'
  <2> SUFFICES ASSUME TypeOK, [Next]_vars PROVE TypeOK'
    OBVIOUS
  <2>1. ASSUME NEW p \in Process, ProcessStep(p) PROVE TypeOK'
    BY <2>1, TypeProcessStep
  <2>2. ASSUME NEW h \in Host, NEW s \in Session, ExecutionStep(h, s) PROVE TypeOK'
    BY <2>2, TypeExecutionStep
  <2>3. ASSUME NEW h \in Host, NEW s \in Session, RecoveryStep(h, s) PROVE TypeOK'
    BY <2>3, TypeRecoveryStep
  <2>4. ASSUME NEW s \in Session, Environment(s) PROVE TypeOK'
    BY <2>4 DEF TypeOK, RowType, DataType, RuntimeType, MemoryType, FiberType, Environment, UserAdmit, PublishGuard, ReleaseGuard
  <2>5. CASE UNCHANGED vars
    BY <2>5 DEF TypeOK, RowType, DataType, RuntimeType, MemoryType, FiberType, vars
  <2> QED BY <2>1, <2>2, <2>3, <2>4, <2>5 DEF Next
<1> QED BY <1>1, <1>2, PTL DEF Spec

-----------------------------------------------------------------------------
(* At most one executor. *)

\* Only the fiber of h for s moves.
OthersStay(h, s) ==
  \A k \in Host, z \in Session : k # h \/ z # s =>
    /\ at'[k][z] = at[k][z] /\ tok'[k][z] = tok[k][z]
    /\ src'[k][z] = src[k][z] /\ prev'[k][z] = prev[k][z]

Authority == <<gen, owner, recOwner, life, activation>>

\* Places where a fiber neither owns a generation nor relies on a row it read.
PlainPlace == Place \ (Executing \cup {"commit", "clear"} \cup Claiming)

\* Moving a fiber moves no other one and keeps its locals.
LEMMA GoToOthers ==
  ASSUME TypeOK, NEW h \in Host, NEW s \in Session, NEW place, GoTo(h, s, place)
  PROVE  OthersStay(h, s) /\ at'[h][s] = place /\ tok'[h][s] = tok[h][s]
           /\ src'[h][s] = src[h][s] /\ prev'[h][s] = prev[h][s]
BY DEF TypeOK, FiberType, GoTo, OthersStay

\* Ending a fiber moves no other one.
LEMMA FinishOthers ==
  ASSUME TypeOK, NEW h \in Host, NEW s \in Session, Finish(h, s)
  PROVE  OthersStay(h, s) /\ at'[h][s] = "idle"
BY DEF TypeOK, FiberType, Finish, OthersStay

\* A fiber that moves to a plain place disturbs nothing.
LEMMA PlainMove ==
  ASSUME TypeOK, IInv, NEW h \in Host, NEW s \in Session, OthersStay(h, s),
         UNCHANGED Authority, at'[h][s] \in PlainPlace,
         at'[h][s] = "idle" \/ life[ProcOf[h]] = "live"
  PROVE  IInv'
<1> USE DEF OthersStay, Authority, PlainPlace, Holds, Runs, RowIs, Executing, Claiming
<1>1. FibersAreAlive'
  BY DEF IInv, FibersAreAlive
<1>2. HolderOwnsRow'
  BY DEF IInv, HolderOwnsRow
<1>3. HolderIsAlone'
  BY DEF IInv, HolderIsAlone
<1>4. RunnerIsRegistered'
  BY DEF IInv, RunnerIsRegistered
<1>5. ClearedTokenIsPast'
  BY DEF IInv, ClearedTokenIsPast
<1>6. SeenRowIsPast'
  BY DEF IInv, SeenRowIsPast
<1>7. ClaimEvidence'
  BY DEF IInv, ClaimEvidence
<1> QED BY <1>1, <1>2, <1>3, <1>4, <1>5, <1>6, <1>7 DEF IInv

\* An executor that goes on under its token disturbs nothing.
LEMMA HolderMove ==
  ASSUME TypeOK, IInv, NEW h \in Host, NEW s \in Session, OthersStay(h, s),
         UNCHANGED Authority, at[h][s] \in Executing, at'[h][s] \in Executing,
         tok'[h][s] = tok[h][s]
  PROVE  IInv'
<1> USE DEF OthersStay, Authority, Holds, Runs, RowIs, Executing, Claiming
<1>1. FibersAreAlive'
  BY DEF IInv, FibersAreAlive
<1>2. HolderOwnsRow'
  BY DEF IInv, HolderOwnsRow
<1>3. HolderIsAlone'
  BY DEF IInv, HolderIsAlone
<1>4. RunnerIsRegistered'
  BY DEF IInv, RunnerIsRegistered
<1>5. ClearedTokenIsPast'
  BY DEF IInv, ClearedTokenIsPast
<1>6. SeenRowIsPast'
  BY DEF IInv, SeenRowIsPast
<1>7. ClaimEvidence'
  BY DEF IInv, ClaimEvidence
<1> QED BY <1>1, <1>2, <1>3, <1>4, <1>5, <1>6, <1>7 DEF IInv

\* A row is freed by its only holder, or when nobody holds it.
LEMMA RowFreed ==
  ASSUME TypeOK, IInv, NEW h \in Host, NEW s \in Session, OthersStay(h, s),
         UNCHANGED <<gen, life, activation>>,
         owner' = [owner EXCEPT ![s] = None],
         recOwner' = [recOwner EXCEPT ![s] = None],
         \A k \in Host : Holds(k, s) => k = h,
         at'[h][s] = "clear" => Holds(h, s) /\ tok'[h][s] = tok[h][s],
         at'[h][s] \in PlainPlace \cup {"clear"},
         at'[h][s] = "idle" \/ life[ProcOf[h]] = "live"
  PROVE  IInv'
<1> USE DEF OthersStay, PlainPlace, Holds, Runs, RowIs, Executing, Claiming
<1> owner'[s] = None /\ recOwner'[s] = None
  BY DEF TypeOK, RowType
<1> \A z \in Session : z # s => owner'[z] = owner[z] /\ recOwner'[z] = recOwner[z]
  BY DEF TypeOK, RowType
<1>1. FibersAreAlive'
  BY DEF IInv, FibersAreAlive
<1>2. HolderOwnsRow'
  BY DEF IInv, HolderOwnsRow
<1>3. HolderIsAlone'
  BY DEF IInv, HolderIsAlone
<1>4. RunnerIsRegistered'
  BY DEF IInv, RunnerIsRegistered
<1>5. ClearedTokenIsPast'
  BY DEF IInv, ClearedTokenIsPast, HolderOwnsRow
<1>6. SeenRowIsPast'
  BY DEF IInv, SeenRowIsPast
<1>7. ClaimEvidence'
  BY DEF IInv, ClaimEvidence
<1> QED BY <1>1, <1>2, <1>3, <1>4, <1>5, <1>6, <1>7 DEF IInv

\* A process that dies holds nothing any more.
LEMMA CrashKeeps ==
  ASSUME TypeOK, IInv, NEW p \in Process, Crash(p)
  PROVE  IInv'
<1> USE DEF Holds, Runs, RowIs, Executing, Claiming
<1>0. /\ \A k \in Host, z \in Session :
           IF ProcOf[k] = p THEN at'[k][z] = "idle"
           ELSE /\ at'[k][z] = at[k][z] /\ tok'[k][z] = tok[k][z]
                /\ src'[k][z] = src[k][z] /\ prev'[k][z] = prev[k][z]
      /\ \A o \in Process : o # p => life'[o] = life[o] /\ activation'[o] = activation[o]
      /\ UNCHANGED <<gen, owner, recOwner>>
  BY DEF Crash, TypeOK, FiberType, MemoryType
<1>9. \A k \in Host : ProcOf[k] \in Process
  BY HostAssumption
<1>1. FibersAreAlive'
  BY <1>0, <1>9 DEF IInv, FibersAreAlive
<1>2. HolderOwnsRow'
  BY <1>0, <1>9 DEF IInv, HolderOwnsRow
<1>3. HolderIsAlone'
  BY <1>0, <1>9 DEF IInv, HolderIsAlone
<1>4. RunnerIsRegistered'
  BY <1>0, <1>9 DEF IInv, RunnerIsRegistered
<1>5. ClearedTokenIsPast'
  BY <1>0, <1>9 DEF IInv, ClearedTokenIsPast
<1>6. SeenRowIsPast'
  BY <1>0, <1>9 DEF IInv, SeenRowIsPast
<1>7. ClaimEvidence'
  BY <1>0, <1>9 DEF IInv, ClaimEvidence
<1> QED BY <1>1, <1>2, <1>3, <1>4, <1>5, <1>6, <1>7 DEF IInv

\* The startup sweep clears a row only when its owner is dead.
LEMMA ReconcileKeeps ==
  ASSUME TypeOK, IInv, NEW p \in Process, NEW s \in Session, ReconcileAtStartup(p, s)
  PROVE  IInv'
<1> USE DEF Holds, Runs, RowIs, Executing, Claiming
<1>0. \A k \in Host : ~Holds(k, s)
  BY DEF ReconcileAtStartup, DeadAndStale, DeathProofs, IInv, HolderOwnsRow, FibersAreAlive
<1>8. UNCHANGED <<gen, life, activation, at, tok, src, prev>>
  BY DEF ReconcileAtStartup, ClearRow
<1>9. /\ owner'[s] = None /\ recOwner'[s] = None
      /\ \A z \in Session : z # s => owner'[z] = owner[z] /\ recOwner'[z] = recOwner[z]
  BY DEF ReconcileAtStartup, ClearRow, TypeOK, RowType
<1>1. FibersAreAlive'
  BY <1>0, <1>8, <1>9 DEF IInv, FibersAreAlive
<1>2. HolderOwnsRow'
  BY <1>0, <1>8, <1>9 DEF IInv, HolderOwnsRow
<1>3. HolderIsAlone'
  BY <1>0, <1>8, <1>9 DEF IInv, HolderIsAlone
<1>4. RunnerIsRegistered'
  BY <1>0, <1>8, <1>9 DEF IInv, RunnerIsRegistered
<1>5. ClearedTokenIsPast'
  BY <1>0, <1>8, <1>9 DEF IInv, ClearedTokenIsPast
<1>6. SeenRowIsPast'
  BY <1>0, <1>8, <1>9 DEF IInv, SeenRowIsPast
<1>7. ClaimEvidence'
  BY <1>0, <1>8, <1>9 DEF IInv, ClaimEvidence
<1> QED BY <1>1, <1>2, <1>3, <1>4, <1>5, <1>6, <1>7 DEF IInv

\* A claim: the evidence says that nobody holds the generation.
LEMMA ClaimLaid ==
  ASSUME TypeOK, IInv, NEW h \in Host, NEW s \in Session, OthersStay(h, s),
         UNCHANGED <<gen, owner, life, activation>>,
         NEW who \in OwnerOrNone, recOwner' = [recOwner EXCEPT ![s] = who],
         \A k \in Host : ~Holds(k, s),
         at'[h][s] \in PlainPlace,
         at'[h][s] = "idle" \/ life[ProcOf[h]] = "live"
  PROVE  IInv'
<1> USE DEF OthersStay, PlainPlace, Holds, Runs, RowIs, Executing, Claiming
<1>0. \A z \in Session : z # s => recOwner'[z] = recOwner[z]
  BY DEF TypeOK, RowType
<1>1. FibersAreAlive'
  BY <1>0 DEF IInv, FibersAreAlive
<1>2. HolderOwnsRow'
  BY <1>0 DEF IInv, HolderOwnsRow
<1>3. HolderIsAlone'
  BY <1>0 DEF IInv, HolderIsAlone
<1>4. RunnerIsRegistered'
  BY <1>0 DEF IInv, RunnerIsRegistered
<1>5. ClearedTokenIsPast'
  BY <1>0 DEF IInv, ClearedTokenIsPast
<1>6. SeenRowIsPast'
  BY <1>0 DEF IInv, SeenRowIsPast
<1>7. ClaimEvidence'
  <2> SUFFICES ASSUME NEW g \in Host, NEW k \in Host, NEW z \in Session,
                      at'[g][z] = "cas", prev'[g][z] = None, Holds(k, z)'
               PROVE  tok'[k][z] # tok'[g][z]
    BY DEF ClaimEvidence
  <2>1. (k # h \/ z # s) /\ (g # h \/ z # s)
    OBVIOUS
  <2>2. at[g][z] = "cas" /\ prev[g][z] = None /\ Holds(k, z)
    BY <2>1
  <2> QED BY <2>1, <2>2 DEF IInv, ClaimEvidence
<1> QED BY <1>1, <1>2, <1>3, <1>4, <1>5, <1>6, <1>7 DEF IInv

\* A fiber registers its own token, or ends and takes no other registration along.
Registers(h, s, n) ==
  /\ activation' = [activation EXCEPT ![ProcOf[h]][s] = n]
  /\ \A k \in Host : k # h /\ Runs(k, s) /\ ProcOf[k] = ProcOf[h]
                        => n = activation[ProcOf[h]][s]

EndsOrRunsOn(h, s, n) ==
  \/ at'[h][s] = "idle"
  \/ /\ Holds(h, s) /\ at'[h][s] \in Executing
     /\ tok'[h][s] = tok[h][s] /\ n = tok[h][s]

LEMMA ActivationMove ==
  ASSUME TypeOK, IInv, NEW h \in Host, NEW s \in Session, OthersStay(h, s),
         UNCHANGED <<gen, owner, recOwner, life>>,
         NEW n \in Gen, Registers(h, s, n), EndsOrRunsOn(h, s, n)
  PROVE  IInv'
<1> USE DEF OthersStay, Holds, Runs, RowIs, Executing, Claiming, Registers, EndsOrRunsOn
<1>0. /\ activation'[ProcOf[h]][s] = n
      /\ \A p \in Process, z \in Session : p # ProcOf[h] \/ z # s
           => activation'[p][z] = activation[p][z]
  BY HostAssumption DEF TypeOK, MemoryType
<1>9. \A k \in Host : ProcOf[k] \in Process
  BY HostAssumption
<1>1. FibersAreAlive'
  BY <1>0, <1>9 DEF IInv, FibersAreAlive
<1>2. HolderOwnsRow'
  BY <1>0, <1>9 DEF IInv, HolderOwnsRow
<1>3. HolderIsAlone'
  BY <1>0, <1>9 DEF IInv, HolderIsAlone
<1>4. RunnerIsRegistered'
  BY <1>0, <1>9 DEF IInv, RunnerIsRegistered
<1>5. ClearedTokenIsPast'
  BY <1>0, <1>9 DEF IInv, ClearedTokenIsPast
<1>6. SeenRowIsPast'
  BY <1>0, <1>9 DEF IInv, SeenRowIsPast
<1>7. ClaimEvidence'
  BY <1>0, <1>9 DEF IInv, ClaimEvidence
<1> QED BY <1>1, <1>2, <1>3, <1>4, <1>5, <1>6, <1>7 DEF IInv

\* While a claim stands or nobody owns the row, nobody holds the Session.
LEMMA NoHolder ==
  ASSUME TypeOK, IInv, NEW s \in Session, recOwner[s] # None \/ owner[s] = None
  PROVE  \A k \in Host : ~Holds(k, s)
BY HostAssumption, NoneAssumption DEF IInv, HolderOwnsRow, RowIs

\* Nothing the invariant speaks of changes.
LEMMA NothingMoves ==
  ASSUME IInv, UNCHANGED <<gen, owner, recOwner, life, activation, at, tok, src, prev>>
  PROVE  IInv'
BY DEF IInv, FibersAreAlive, HolderOwnsRow, HolderIsAlone, RunnerIsRegistered,
       ClearedTokenIsPast, SeenRowIsPast, ClaimEvidence, Holds, Runs, RowIs

\* The admission transaction takes a generation nobody has seen.
LEMMA GenerationTaken ==
  ASSUME TypeOK, IInv, NEW h \in Host, NEW s \in Session,
         OthersStay(h, s), UNCHANGED <<life, activation>>,
         at[h][s] \in {"acquire", "reacquire"}, owner[s] = None,
         gen' = [gen EXCEPT ![s] = gen[s] + 1],
         owner' = [owner EXCEPT ![s] = ProcOf[h]],
         recOwner' = [recOwner EXCEPT ![s] = None],
         at'[h][s] = "commit", tok'[h][s] = gen[s] + 1
  PROVE  IInv'
<1> USE DEF OthersStay, Holds, Runs, RowIs, Executing, Claiming
<1>0. /\ gen'[s] = gen[s] + 1 /\ owner'[s] = ProcOf[h] /\ recOwner'[s] = None
      /\ \A z \in Session : z # s =>
           gen'[z] = gen[z] /\ owner'[z] = owner[z] /\ recOwner'[z] = recOwner[z]
  BY DEF TypeOK, RowType
<1>9. \A k \in Host : ~Holds(k, s)
  BY NoHolder
<1>8. /\ gen[s] \in Nat
      /\ \A k \in Host : tok[k][s] \in Nat
  BY BoundAssumption DEF TypeOK, RowType, FiberType, Gen
<1>1. FibersAreAlive'
  BY <1>0, <1>8, <1>9 DEF IInv, FibersAreAlive
<1>2. HolderOwnsRow'
  BY <1>0, <1>8, <1>9 DEF IInv, HolderOwnsRow
<1>3. HolderIsAlone'
  BY <1>0, <1>8, <1>9 DEF IInv, HolderIsAlone
<1>4. RunnerIsRegistered'
  BY <1>0, <1>8, <1>9 DEF IInv, RunnerIsRegistered
<1>5. ClearedTokenIsPast'
  BY <1>0, <1>8, <1>9 DEF IInv, ClearedTokenIsPast
<1>6. SeenRowIsPast'
  BY <1>0, <1>8, <1>9 DEF IInv, SeenRowIsPast
<1>7. ClaimEvidence'
  <2> SUFFICES ASSUME NEW g \in Host, NEW k \in Host, NEW z \in Session,
                      at'[g][z] = "cas", prev'[g][z] = None, Holds(k, z)'
               PROVE  tok'[k][z] # tok'[g][z]
    BY DEF ClaimEvidence
  <2>1. g # h \/ z # s
    OBVIOUS
  <2>2. at[g][z] = "cas" /\ prev[g][z] = None /\ tok'[g][z] = tok[g][z]
    BY <2>1
  <2>3. CASE k = h /\ z = s
    <3>1. tok[g][s] <= gen[s]
      BY <2>2, <2>3 DEF IInv, SeenRowIsPast
    <3> QED BY <2>2, <2>3, <3>1, <1>8
  <2>4. CASE k # h \/ z # s
    BY <2>2, <2>4 DEF IInv, ClaimEvidence
  <2> QED BY <2>3, <2>4
<1> QED BY <1>1, <1>2, <1>3, <1>4, <1>5, <1>6, <1>7 DEF IInv

-----------------------------------------------------------------------------
(* Every step keeps the invariant. *)

\* What an executor knows of its row, and that it is the only one.
LEMMA HolderFacts ==
  ASSUME TypeOK, IInv, NEW h \in Host, NEW s \in Session, Holds(h, s)
  PROVE  /\ Owned(h, s) /\ recOwner[s] = None /\ tok[h][s] # 0
         /\ life[ProcOf[h]] = "live"
         /\ \A k \in Host : Holds(k, s) => k = h
BY DEF IInv, HolderOwnsRow, HolderIsAlone, FibersAreAlive, Holds, Owned, RowIs, Executing

\* An executor that ends its fiber takes its registration with it, or leaves
\* that of another one alone.
LEMMA RetireKeeps ==
  ASSUME TypeOK, IInv, NEW h \in Host, NEW s \in Session, Finish(h, s),
         at[h][s] \in Executing \cup {"clear"},
         activation' = [activation EXCEPT ![ProcOf[h]][s] =
                          IF @ = tok[h][s] THEN 0 ELSE @],
         UNCHANGED <<row, life>>
  PROVE  IInv'
<1> DEFINE p == ProcOf[h]
<1>0. PICK n \in Gen : n = IF activation[p][s] = tok[h][s] THEN 0 ELSE activation[p][s]
  BY HostAssumption, BoundAssumption DEF TypeOK, MemoryType, Gen
<1>1. OthersStay(h, s) /\ at'[h][s] = "idle"
  BY FinishOthers
<1>2. activation' = [activation EXCEPT ![ProcOf[h]][s] = n]
  BY <1>0
<1>3. ASSUME NEW k \in Host, k # h, Runs(k, s), ProcOf[k] = ProcOf[h]
      PROVE  n = activation[ProcOf[h]][s]
  <2>1. Holds(k, s)
    BY <1>3 DEF Holds, Runs
  <2>2. at[h][s] = "clear"
    BY <1>3, <2>1 DEF IInv, HolderIsAlone, Holds
  <2>3. activation[p][s] = gen[s] /\ owner[s] # None /\ tok[k][s] = gen[s]
    BY <1>3, <2>1, HostAssumption, NoneAssumption
    DEF IInv, RunnerIsRegistered, HolderOwnsRow, RowIs
  <2>4. tok[h][s] < gen[s]
    BY <2>2, <2>3 DEF IInv, ClearedTokenIsPast
  <2>5. gen[s] \in Nat /\ tok[h][s] \in Nat
    BY BoundAssumption DEF TypeOK, RowType, FiberType, Gen
  <2> QED BY <1>0, <2>3, <2>4, <2>5
<1>4. UNCHANGED <<gen, owner, recOwner, life>>
  OBVIOUS
<1>5. Registers(h, s, n)
  BY <1>2, <1>3 DEF Registers
<1>6. EndsOrRunsOn(h, s, n)
  BY <1>1 DEF EndsOrRunsOn
<1> QED BY <1>1, <1>4, <1>5, <1>6, ActivationMove

\* A release by the executor: the row is its own.
LEMMA ReleaseKeeps ==
  ASSUME TypeOK, IInv, NEW h \in Host, NEW s \in Session,
         at[h][s] \in Executing, GoTo(h, s, "clear"), ReleaseRow(h, s),
         UNCHANGED memory
  PROVE  IInv'
<1>1. Holds(h, s)
  BY DEF Holds
<1>2. ClearRow(s) /\ life[ProcOf[h]] = "live"
  BY <1>1, HolderFacts DEF ReleaseRow
<1>3. /\ OthersStay(h, s) /\ at'[h][s] = "clear" /\ tok'[h][s] = tok[h][s]
  BY GoToOthers
<1>4. \A k \in Host : Holds(k, s) => k = h
  BY <1>1, HolderFacts
<1> QED BY <1>1, <1>2, <1>3, <1>4, RowFreed DEF ClearRow

\* A busy answer owns nothing.
LEMMA BusyKeeps ==
  ASSUME TypeOK, IInv, NEW h \in Host, NEW s \in Session, Busy(h, s),
         at[h][s] # "idle", UNCHANGED Authority
  PROVE  IInv'
<1>1. life[ProcOf[h]] = "live"
  BY DEF IInv, FibersAreAlive
<1>2. CASE GoTo(h, s, "claim")
  BY <1>1, <1>2, GoToOthers, PlainMove, PlaceMembers
  DEF PlainPlace, Executing, Claiming
<1>3. CASE Finish(h, s)
  BY <1>3, FinishOthers, PlainMove, PlaceMembers DEF PlainPlace, Executing, Claiming
<1> QED BY <1>2, <1>3 DEF Busy

\* A fiber that owns nothing and relies on nothing afterwards.
LEMMA PlainGoTo ==
  ASSUME TypeOK, IInv, NEW h \in Host, NEW s \in Session,
         NEW place \in PlainPlace, GoTo(h, s, place), at[h][s] # "idle",
         UNCHANGED Authority
  PROVE  IInv'
<1>1. life[ProcOf[h]] = "live"
  BY DEF IInv, FibersAreAlive
<1> QED BY <1>1, GoToOthers, PlainMove

\* A fiber that ends without touching the row.
LEMMA PlainFinish ==
  ASSUME TypeOK, IInv, NEW h \in Host, NEW s \in Session, Finish(h, s),
         UNCHANGED Authority
  PROVE  IInv'
BY FinishOthers, PlainMove, PlaceMembers DEF PlainPlace, Executing, Claiming

\* A job starts at a place where it owns nothing.
LEMMA PlainStart ==
  ASSUME TypeOK, IInv, NEW h \in Host, NEW s \in Session, NEW j, NEW n,
         NEW place \in PlainPlace, Start(h, s, j, place, n),
         life[ProcOf[h]] = "live", UNCHANGED Authority
  PROVE  IInv'
<1>1. OthersStay(h, s) /\ at'[h][s] = place
  BY DEF TypeOK, FiberType, Start, OthersStay
<1> QED BY <1>1, PlainMove

\* The places the plain moves lead to.
LEMMA PlainMembers ==
  {"idle", "claim", "judge", "settle", "admit", "acquire", "readmit",
   "reacquire", "hazard", "scan", "seal", "complete"} \subseteq PlainPlace
BY PlaceMembers DEF PlainPlace, Executing, Claiming

\* A generation that is admitted is registered before anything runs under it.
LEMMA AdmitKeeps ==
  ASSUME TypeOK, IInv, NEW h \in Host, NEW s \in Session,
         Admit(h, s) \/ AdmitInterrupted(h, s)
  PROVE  IInv'
<1> USE DEF Admit, AdmitInterrupted, Registered
<1>1. Holds(h, s) /\ tok[h][s] \in Gen
  BY DEF Holds, TypeOK, FiberType
<1>2. \A k \in Host : Holds(k, s) => k = h
  BY <1>1, HolderFacts
<1>3. \A k \in Host : k # h /\ Runs(k, s) /\ ProcOf[k] = ProcOf[h]
                        => tok[h][s] = activation[ProcOf[h]][s]
  BY <1>2 DEF Runs, Holds
<1>4. CASE Admit(h, s)
  <2>1. PICK place \in Executing : GoTo(h, s, place)
    BY <1>4 DEF Executing
  <2>2. /\ OthersStay(h, s) /\ tok'[h][s] = tok[h][s]
        /\ at'[h][s] \in Executing
    BY <2>1, GoToOthers
  <2>3. Registers(h, s, tok[h][s]) /\ UNCHANGED <<gen, owner, recOwner, life>>
    BY <1>3, <1>4 DEF Registers
  <2>4. EndsOrRunsOn(h, s, tok[h][s])
    BY <1>1, <2>2 DEF EndsOrRunsOn
  <2> QED BY <1>1, <2>2, <2>3, <2>4, ActivationMove
<1>5. CASE AdmitInterrupted(h, s)
  <2>1. OthersStay(h, s) /\ at'[h][s] = "idle"
    BY <1>5, FinishOthers
  <2>2. Registers(h, s, tok[h][s]) /\ UNCHANGED <<gen, owner, recOwner, life>>
    BY <1>3, <1>5 DEF Registers
  <2>3. EndsOrRunsOn(h, s, tok[h][s])
    BY <2>1 DEF EndsOrRunsOn
  <2> QED BY <1>1, <2>1, <2>2, <2>3, ActivationMove
<1> QED BY <1>4, <1>5

\* A free Session is given its next generation, or the caller is refused.
LEMMA AcquireKeeps ==
  ASSUME TypeOK, IInv, NEW h \in Host, NEW s \in Session, Acquire(h, s)
  PROVE  IInv'
<1>1. at[h][s] \in {"acquire", "reacquire"} /\ UNCHANGED <<life, activation>>
  BY DEF Acquire
<1>2. CASE Finish(h, s) /\ UNCHANGED row
  BY <1>1, <1>2, PlainFinish DEF Authority
<1>3. CASE Busy(h, s) /\ UNCHANGED row
  BY <1>1, <1>3, BusyKeeps DEF Authority
<1>4. CASE /\ owner[s] = None
           /\ gen' = [gen EXCEPT ![s] = NextGeneration(s)]
           /\ owner' = [owner EXCEPT ![s] = ProcOf[h]]
           /\ recOwner' = [recOwner EXCEPT ![s] = None]
           /\ at' = [at EXCEPT ![h][s] = "commit"]
           /\ tok' = [tok EXCEPT ![h][s] = NextGeneration(s)]
           /\ UNCHANGED <<job, src, prev, goal, found>>
  <2>1. /\ OthersStay(h, s) /\ at'[h][s] = "commit"
        /\ tok'[h][s] = gen[s] + 1
    BY <1>4 DEF TypeOK, FiberType, OthersStay, NextGeneration
  <2> QED BY <1>1, <1>4, <2>1, GenerationTaken DEF NextGeneration
<1> QED BY <1>2, <1>3, <1>4 DEF Acquire

\* Admission, execution and release keep the invariant.
LEMMA ExecutionKeeps ==
  ASSUME TypeOK, IInv, NEW h \in Host, NEW s \in Session, ExecutionStep(h, s)
  PROVE  IInv'
<1>1. CASE StartDrain(h, s)
  BY <1>1, PlainStart, PlainMembers DEF StartDrain, MayStart, Authority
<1>2. CASE Check(h, s)
  BY <1>2, BusyKeeps, PlainGoTo, PlainMembers DEF Check, Authority
<1>3. CASE Acquire(h, s)
  BY <1>3, AcquireKeeps
<1>4. CASE Admit(h, s) \/ AdmitInterrupted(h, s)
  BY <1>4, AdmitKeeps
<1>5. CASE RunnerWrites(h, s)
  BY <1>5, NothingMoves DEF RunnerWrites
<1>6. CASE RunnerExits(h, s)
  BY <1>6, GoToOthers, HolderMove DEF RunnerExits, Executing, Authority
<1>7. CASE ReleaseIfDrained(h, s)
  <2>1. CASE GoTo(h, s, "run") /\ UNCHANGED row
    BY <1>7, <2>1, GoToOthers, HolderMove DEF ReleaseIfDrained, Executing, Authority
  <2>2. CASE GoTo(h, s, "clear") /\ ReleaseRow(h, s)
    BY <1>7, <2>2, ReleaseKeeps DEF ReleaseIfDrained, Executing
  <2> QED BY <1>7, <2>1, <2>2 DEF ReleaseIfDrained
<1>8. CASE Release(h, s)
  BY <1>8, ReleaseKeeps DEF Release, Executing
<1>9. CASE ClearActivation(h, s)
  BY <1>9, RetireKeeps DEF ClearActivation
<1>10. CASE Interrupt(h, s)
  <2>1. UNCHANGED Authority
    BY <1>10 DEF Interrupt, Authority
  <2>2. CASE UNCHANGED fiber
    BY <2>1, <2>2, NothingMoves DEF Authority
  <2>3. CASE at[h][s] \in {"run", "drained"} /\ GoTo(h, s, "unwind")
    BY <2>1, <2>3, GoToOthers, HolderMove DEF Executing
  <2>4. CASE Finish(h, s)
    BY <2>1, <2>4, PlainFinish
  <2> QED BY <1>10, <2>2, <2>3, <2>4 DEF Interrupt
<1>11. CASE MendTools(h, s)
  BY <1>11, GoToOthers, HolderMove DEF MendTools, Executing, Authority
<1>12. CASE Retire(h, s)
  BY <1>12, RetireKeeps DEF Retire
<1> QED BY <1>1, <1>2, <1>3, <1>4, <1>5, <1>6, <1>7, <1>8, <1>9, <1>10, <1>11, <1>12 DEF ExecutionStep

\* A claim that is handed out moves one fiber to a place that owns nothing.
LEMMA ClaimedMoves ==
  ASSUME TypeOK, NEW h \in Host, NEW s \in Session, NEW o, NEW n, Claimed(h, s, o, n)
  PROVE  OthersStay(h, s) /\ at'[h][s] \in PlainPlace /\ UNCHANGED <<life, activation>>
<1>1. at'[h][s] \in {"judge", "hazard"}
  BY DEF TypeOK, FiberType, Claimed
<1>2. OthersStay(h, s)
  BY DEF TypeOK, FiberType, Claimed, OthersStay
<1> QED BY <1>1, <1>2, PlainMembers DEF Claimed

\* Reading the row, or being handed a claim this process already holds.
LEMMA ClaimReadKeeps ==
  ASSUME TypeOK, IInv, NEW h \in Host, NEW s \in Session, ClaimRead(h, s)
  PROVE  IInv'
<1>1. UNCHANGED <<gen, owner, recOwner>> /\ life[ProcOf[h]] = "live"
  BY DEF ClaimRead, IInv, FibersAreAlive
<1>2. CASE Finish(h, s) /\ UNCHANGED memory
  BY <1>1, <1>2, PlainFinish DEF Authority
<1>3. CASE Claimed(h, s, owner[s], gen[s])
  <2>1. PICK o, n : Claimed(h, s, o, n)
    BY <1>3
  <2> QED BY <1>1, <2>1, ClaimedMoves, PlainMove DEF Authority
<1>4. CASE /\ at' = [at EXCEPT ![h][s] = "prove"]
           /\ tok' = [tok EXCEPT ![h][s] = gen[s]]
           /\ src' = [src EXCEPT ![h][s] = owner[s]]
           /\ prev' = [prev EXCEPT ![h][s] = recOwner[s]]
           /\ UNCHANGED <<job, goal, found, memory>>
  <2>1. /\ OthersStay(h, s) /\ at'[h][s] = "prove"
        /\ tok'[h][s] = gen[s] /\ src'[h][s] = owner[s]
    BY <1>4 DEF TypeOK, FiberType, OthersStay
  <2>2. gen[s] \in Nat /\ UNCHANGED <<life, activation>>
    BY <1>4, BoundAssumption DEF TypeOK, RowType, Gen
  <2> USE <1>1, <2>1, <2>2 DEF OthersStay, Holds, Runs, RowIs, Executing, Claiming
  <2>3. FibersAreAlive'
    BY DEF IInv, FibersAreAlive
  <2>4. HolderOwnsRow'
    BY DEF IInv, HolderOwnsRow
  <2>5. HolderIsAlone'
    BY DEF IInv, HolderIsAlone
  <2>6. RunnerIsRegistered'
    BY DEF IInv, RunnerIsRegistered
  <2>7. ClearedTokenIsPast'
    BY DEF IInv, ClearedTokenIsPast
  <2>8. SeenRowIsPast'
    BY DEF IInv, SeenRowIsPast
  <2>9. ClaimEvidence'
    BY DEF IInv, ClaimEvidence
  <2> QED BY <2>3, <2>4, <2>5, <2>6, <2>7, <2>8, <2>9 DEF IInv
<1> QED BY <1>2, <1>3, <1>4 DEF ClaimRead

\* What was proved of the executor is that nobody holds the generation read:
\* a dead process has no fibers, and a live one knows what it executes.
LEMMA EvidenceExcludesHolders ==
  ASSUME TypeOK, IInv, NEW h \in Host, NEW s \in Session,
         at[h][s] = "prove", prev[h][s] = None,
         \/ LocalExecutionGone(h, s)
         \/ MayJudge(h, s) /\ "dead" \in DeathProofs(Suspect(h, s)),
         NEW k \in Host, Holds(k, s)
  PROVE  tok[k][s] # tok[h][s]
<1> SUFFICES ASSUME tok[k][s] = tok[h][s] PROVE FALSE
  OBVIOUS
<1>1. owner[s] = ProcOf[k] /\ gen[s] = tok[k][s] /\ tok[k][s] # 0
  BY DEF IInv, HolderOwnsRow, RowIs
<1>2. ProcOf[k] = src[h][s]
  BY <1>1, HostAssumption, NoneAssumption DEF IInv, SeenRowIsPast, Claiming
<1>3. life[ProcOf[k]] = "live"
  BY DEF IInv, FibersAreAlive, Holds, Executing
<1>4. CASE LocalExecutionGone(h, s)
  <2>1. ProcOf[k] = ProcOf[h]
    BY <1>2, <1>4 DEF LocalExecutionGone
  <2>2. CASE Runs(k, s)
    BY <1>1, <1>4, <2>1, <2>2
    DEF IInv, RunnerIsRegistered, LocalExecutionGone, ActiveHere
  <2>3. CASE at[k][s] = "commit"
    BY <1>4, <2>1, <2>3 DEF LocalExecutionGone, Acquiring, Admitting
  <2> QED BY <2>2, <2>3 DEF Holds, Runs
<1>5. CASE "dead" \in DeathProofs(Suspect(h, s))
  BY <1>2, <1>3, <1>5 DEF Suspect, DeathProofs
<1> QED BY <1>4, <1>5

\* The evidence is gathered before the claim and still holds when it is laid.
LEMMA ClaimProveKeeps ==
  ASSUME TypeOK, IInv, NEW h \in Host, NEW s \in Session, ClaimProve(h, s)
  PROVE  IInv'
<1>1. UNCHANGED Authority /\ at[h][s] = "prove"
  BY DEF ClaimProve, Authority
<1>2. CASE Finish(h, s)
  BY <1>1, <1>2, PlainFinish
<1>3. CASE /\ \/ LocalExecutionGone(h, s)
              \/ MayJudge(h, s) /\ "dead" \in DeathProofs(Suspect(h, s))
           /\ GoTo(h, s, "cas")
  <2>1. /\ OthersStay(h, s) /\ at'[h][s] = "cas" /\ tok'[h][s] = tok[h][s]
        /\ src'[h][s] = src[h][s] /\ prev'[h][s] = prev[h][s]
    BY <1>3, GoToOthers
  <2>2. prev[h][s] = None => \A k \in Host : Holds(k, s) => tok[k][s] # tok[h][s]
    BY <1>1, <1>3, EvidenceExcludesHolders
  <2> USE <1>1, <2>1 DEF Authority, OthersStay, Holds, Runs, RowIs, Executing, Claiming
  <2>3. FibersAreAlive'
    BY DEF IInv, FibersAreAlive
  <2>4. HolderOwnsRow'
    BY DEF IInv, HolderOwnsRow
  <2>5. HolderIsAlone'
    BY DEF IInv, HolderIsAlone
  <2>6. RunnerIsRegistered'
    BY DEF IInv, RunnerIsRegistered
  <2>7. ClearedTokenIsPast'
    BY DEF IInv, ClearedTokenIsPast
  <2>8. SeenRowIsPast'
    BY DEF IInv, SeenRowIsPast
  <2>9. ClaimEvidence'
    BY <2>2 DEF IInv, ClaimEvidence
  <2> QED BY <2>3, <2>4, <2>5, <2>6, <2>7, <2>8, <2>9 DEF IInv
<1> QED BY <1>2, <1>3 DEF ClaimProve

\* The compare-and-swap succeeds only against a generation nobody holds.
LEMMA ClaimCasKeeps ==
  ASSUME TypeOK, IInv, NEW h \in Host, NEW s \in Session, ClaimCas(h, s)
  PROVE  IInv'
<1>1. /\ at[h][s] = "cas" /\ UNCHANGED <<gen, owner>> /\ life[ProcOf[h]] = "live"
  BY DEF ClaimCas, IInv, FibersAreAlive
<1>2. CASE /\ RowIs(s, src[h][s], tok[h][s], prev[h][s])
           /\ recOwner' = [recOwner EXCEPT ![s] = ProcOf[h]]
           /\ Claimed(h, s, src[h][s], tok[h][s])
  <2>1. PICK o, n : Claimed(h, s, o, n)
    BY <1>2
  <2>2. OthersStay(h, s) /\ at'[h][s] \in PlainPlace /\ UNCHANGED <<life, activation>>
    BY <2>1, ClaimedMoves
  <2>3. \A k \in Host : ~Holds(k, s)
    <3>1. CASE prev[h][s] # None
      BY <1>2, <3>1, NoHolder DEF RowIs
    <3>2. CASE prev[h][s] = None
      <4>1. ASSUME NEW k \in Host, Holds(k, s) PROVE FALSE
        <5>1. gen[s] = tok[k][s] /\ gen[s] = tok[h][s]
          BY <1>2, <4>1 DEF IInv, HolderOwnsRow, RowIs
        <5> QED BY <1>1, <3>2, <4>1, <5>1 DEF IInv, ClaimEvidence
      <4> QED BY <4>1
    <3> QED BY <3>1, <3>2
  <2>4. ProcOf[h] \in OwnerOrNone
    BY HostAssumption DEF OwnerOrNone
  <2> QED BY <1>1, <1>2, <2>2, <2>3, <2>4, ClaimLaid
<1>3. CASE Claimed(h, s, owner[s], gen[s]) /\ UNCHANGED recOwner
  <2>1. PICK o, n : Claimed(h, s, o, n)
    BY <1>3
  <2> QED BY <1>1, <1>3, <2>1, ClaimedMoves, PlainMove DEF Authority
<1>4. CASE Finish(h, s) /\ UNCHANGED <<recOwner, memory>>
  BY <1>1, <1>4, PlainFinish DEF Authority
<1> QED BY <1>2, <1>3, <1>4 DEF ClaimCas

\* A claim that is abandoned or completed stood against nobody.
LEMMA ClaimEndsKeeps ==
  ASSUME TypeOK, IInv, NEW h \in Host, NEW s \in Session,
         AbandonClaim(h, s) \/ Complete(h, s)
  PROVE  IInv'
<1>1. /\ UNCHANGED <<gen, life, activation>> /\ life[ProcOf[h]] = "live"
  BY DEF AbandonClaim, Complete, ClearRow, IInv, FibersAreAlive
<1>2. HoldsClaim(h, s) => \A k \in Host : ~Holds(k, s)
  BY HostAssumption, NoneAssumption, NoHolder DEF HoldsClaim, RowIs
<1>3. OthersStay(h, s) /\ at'[h][s] \in PlainPlace
  <2>1. CASE Finish(h, s)
    BY <2>1, FinishOthers, PlainMembers
  <2>2. CASE /\ at' = [at EXCEPT ![h][s] = "readmit"]
             /\ tok' = [tok EXCEPT ![h][s] = 0]
             /\ src' = [src EXCEPT ![h][s] = None]
             /\ UNCHANGED <<job, prev, goal, found>>
    BY <2>2, PlainMembers DEF TypeOK, FiberType, OthersStay
  <2> QED BY <2>1, <2>2 DEF AbandonClaim, Complete
<1>4. CASE AbandonClaim(h, s)
  <2>1. CASE HoldsClaim(h, s)
    <3>1. None \in OwnerOrNone /\ recOwner' = [recOwner EXCEPT ![s] = None]
      BY <1>4, <2>1 DEF AbandonClaim, OwnerOrNone
    <3> QED BY <1>1, <1>2, <1>3, <1>4, <2>1, <3>1, ClaimLaid DEF AbandonClaim
  <2>2. CASE ~HoldsClaim(h, s)
    <3>1. UNCHANGED recOwner
      BY <1>4, <2>2 DEF AbandonClaim, TypeOK, RowType
    <3> QED BY <1>1, <1>3, <1>4, <3>1, PlainMove DEF AbandonClaim, Authority
  <2> QED BY <2>1, <2>2
<1>5. CASE Complete(h, s)
  <2>1. CASE HoldsClaim(h, s)
    <3>1. ClearRow(s) /\ at'[h][s] # "clear"
      BY <1>3, <1>5, <2>1 DEF Complete, PlainPlace
    <3> QED BY <1>1, <1>2, <1>3, <2>1, <3>1, RowFreed DEF ClearRow
  <2>2. CASE ~HoldsClaim(h, s)
    BY <1>1, <1>3, <1>5, <2>2, PlainMove DEF Complete, Authority
  <2> QED BY <2>1, <2>2
<1> QED BY <1>4, <1>5

\* Recovery, containment and stop keep the invariant.
LEMMA RecoveryKeeps ==
  ASSUME TypeOK, IInv, NEW h \in Host, NEW s \in Session, RecoveryStep(h, s)
  PROVE  IInv'
<1>1. CASE StartSweep(h, s)
  BY <1>1, PlainStart, PlainMembers DEF StartSweep, MayStart, Authority
<1>2. CASE StartStop(h, s)
  BY <1>2, PlainStart, PlainMembers DEF StartStop, MayStart, Authority
<1>3. CASE ClaimRead(h, s)
  BY <1>3, ClaimReadKeeps
<1>4. CASE ClaimProve(h, s)
  BY <1>4, ClaimProveKeeps
<1>5. CASE ClaimCas(h, s)
  BY <1>5, ClaimCasKeeps
<1>6. CASE AbandonClaim(h, s) \/ Complete(h, s)
  BY <1>6, ClaimEndsKeeps
<1>7. CASE EnterContainment(h, s)
  BY <1>7, PlainGoTo, PlainFinish, PlainMembers DEF EnterContainment, Authority
<1>8. CASE SettleTools(h, s)
  BY <1>8, PlainGoTo, PlainMembers DEF SettleTools, Authority
<1>9. CASE HazardCheck(h, s)
  BY <1>9, PlainGoTo, PlainFinish, PlainMembers DEF HazardCheck, Authority
<1>10. CASE SealScan(h, s) \/ SealPublish(h, s)
  <2>1. life[ProcOf[h]] = "live" /\ UNCHANGED Authority
    BY <1>10 DEF SealScan, SealPublish, IInv, FibersAreAlive, Authority
  <2>2. OthersStay(h, s) /\ at'[h][s] \in PlainPlace
    BY <1>10, PlainMembers DEF SealScan, SealPublish, TypeOK, FiberType, OthersStay
  <2> QED BY <2>1, <2>2, PlainMove
<1>11. CASE RecoveryGivesUp(h, s)
  BY <1>11, PlainFinish DEF RecoveryGivesUp, Authority
<1> QED BY <1>1, <1>2, <1>3, <1>4, <1>5, <1>6, <1>7, <1>8, <1>9, <1>10, <1>11 DEF RecoveryStep

\* Starts, crashes, heartbeats and collection keep the invariant.
LEMMA ProcessKeeps ==
  ASSUME TypeOK, IInv, NEW p \in Process, ProcessStep(p)
  PROVE  IInv'
<1>1. CASE StartProcess(p)
  <2>1. /\ UNCHANGED <<gen, owner, recOwner, activation, at, tok, src, prev>>
        /\ \A o \in Process : life[o] = "live" => life'[o] = "live"
    BY <1>1 DEF StartProcess, TypeOK, MemoryType
  <2> QED BY <2>1, HostAssumption
          DEF IInv, FibersAreAlive, HolderOwnsRow, HolderIsAlone, RunnerIsRegistered,
              ClearedTokenIsPast, SeenRowIsPast, ClaimEvidence, Holds, Runs, RowIs
<1>2. CASE Crash(p)
  BY <1>2, CrashKeeps
<1>3. CASE Beat(p) \/ GoStale(p)
  BY <1>3, NothingMoves DEF Beat, GoStale
<1>4. ASSUME NEW dead \in Process, Collect(p, dead) PROVE IInv'
  BY <1>4, NothingMoves DEF Collect
<1>5. ASSUME NEW s \in Session, ReconcileAtStartup(p, s) PROVE IInv'
  BY <1>5, ReconcileKeeps
<1> QED BY <1>1, <1>2, <1>3, <1>4, <1>5 DEF ProcessStep

\* Nothing is held initially.
LEMMA InitIInv == Init => IInv
BY DEF Init, IInv, FibersAreAlive, HolderOwnsRow, HolderIsAlone, RunnerIsRegistered,
       ClearedTokenIsPast, SeenRowIsPast, ClaimEvidence, Holds, Runs, Executing, Claiming

\* The inductive invariant: who holds a generation owns its row alone, and what
\* a recovery read or proved of a row stays true until it acts on it.
THEOREM Invariance == Spec => []IInv
<1>1. Init => IInv
  BY InitIInv
<1>2. TypeOK /\ IInv /\ [Next]_vars => IInv'
  <2> SUFFICES ASSUME TypeOK, IInv, [Next]_vars PROVE IInv'
    OBVIOUS
  <2>1. ASSUME NEW p \in Process, ProcessStep(p) PROVE IInv'
    BY <2>1, ProcessKeeps
  <2>2. ASSUME NEW h \in Host, NEW s \in Session, ExecutionStep(h, s) PROVE IInv'
    BY <2>2, ExecutionKeeps
  <2>3. ASSUME NEW h \in Host, NEW s \in Session, RecoveryStep(h, s) PROVE IInv'
    BY <2>3, RecoveryKeeps
  <2>4. ASSUME NEW s \in Session, Environment(s) PROVE IInv'
    BY <2>4, NothingMoves DEF Environment, UserAdmit, PublishGuard, ReleaseGuard
  <2>5. CASE UNCHANGED vars
    BY <2>5, NothingMoves DEF vars
  <2> QED BY <2>1, <2>2, <2>3, <2>4, <2>5 DEF Next
<1> QED BY <1>1, <1>2, TypeCorrect, PTL DEF Spec

\* Mutual exclusion across processes: however many hosts and processes race for
\* a Session, crash, stall and recover one another, one of them executes it.
THEOREM Exclusive == Spec => []SingleExecutor
<1>1. IInv => SingleExecutor
  BY DEF IInv, HolderIsAlone, SingleExecutor, Holds, Runs
<1> QED BY <1>1, Invariance, PTL

\* Executors own their rows: nobody executes under a generation that was
\* released, recovered or taken by another process.
THEOREM Ownership == Spec => []ExecutorOwnsRow
<1>1. IInv => ExecutorOwnsRow
  BY DEF IInv, FibersAreAlive, HolderOwnsRow, RunnerIsRegistered, ExecutorOwnsRow,
         Holds, Runs, Executing
<1> QED BY <1>1, Invariance, PTL

\* Maintenance and ownership exclude each other in the database.
GuardKeepsFree == \A s \in Session : guarded[s] => owner[s] = None

\* The only step that gives a Session an owner looks for a guard in the same
\* transaction, and a guard is published in one that looks for the owner.
LEMMA GuardStep ==
  ASSUME TypeOK, GuardKeepsFree, [Next]_vars
  PROVE  GuardKeepsFree'
<1> SUFFICES ASSUME NEW z \in Session, guarded'[z] PROVE owner'[z] = None
  BY DEF GuardKeepsFree
<1> USE DEF TypeOK, RowType, DataType, GuardKeepsFree
<1>1. ASSUME NEW p \in Process, ProcessStep(p) PROVE owner'[z] = None
  BY <1>1 DEF ProcessStep, StartProcess, Crash, Beat, GoStale, Collect,
              ReconcileAtStartup, ClearRow
<1>2. ASSUME NEW h \in Host, NEW s \in Session, ExecutionStep(h, s)
      PROVE  owner'[z] = None
  <2>1. CASE Acquire(h, s)
    BY <2>1 DEF Acquire, Maintained
  <2>2. CASE ReleaseIfDrained(h, s) \/ Release(h, s)
    BY <2>2 DEF ReleaseIfDrained, Release, ReleaseRow, ClearRow
  <2>3. CASE RunnerWrites(h, s)
    BY <2>3 DEF RunnerWrites
  <2>4. CASE StartDrain(h, s) \/ Admit(h, s) \/ AdmitInterrupted(h, s) \/ Check(h, s)
    BY <2>4 DEF StartDrain, Admit, AdmitInterrupted, Registered, Check
  <2>5. CASE \/ RunnerExits(h, s) \/ ClearActivation(h, s) \/ Interrupt(h, s)
             \/ MendTools(h, s) \/ Retire(h, s)
    BY <2>5 DEF RunnerExits, ClearActivation, Interrupt, MendTools, Retire
  <2> QED BY <1>2, <2>1, <2>2, <2>3, <2>4, <2>5 DEF ExecutionStep
<1>3. ASSUME NEW h \in Host, NEW s \in Session, RecoveryStep(h, s)
      PROVE  owner'[z] = None
  <2>1. CASE Complete(h, s)
    BY <2>1 DEF Complete, ClearRow
  <2>2. CASE StartSweep(h, s) \/ StartStop(h, s) \/ ClaimRead(h, s) \/ ClaimProve(h, s)
    BY <2>2 DEF StartSweep, StartStop, ClaimRead, ClaimProve
  <2>3. CASE \/ ClaimCas(h, s) \/ AbandonClaim(h, s) \/ EnterContainment(h, s)
             \/ SettleTools(h, s)
    BY <2>3 DEF ClaimCas, AbandonClaim, EnterContainment, SettleTools
  <2>4. CASE \/ HazardCheck(h, s) \/ SealScan(h, s) \/ RecoveryGivesUp(h, s)
             \/ SealPublish(h, s)
    BY <2>4 DEF HazardCheck, SealScan, RecoveryGivesUp, SealPublish
  <2> QED BY <1>3, <2>1, <2>2, <2>3, <2>4 DEF RecoveryStep
<1>4. ASSUME NEW s \in Session, Environment(s) PROVE owner'[z] = None
  BY <1>4 DEF Environment, UserAdmit, PublishGuard, ReleaseGuard
<1>5. CASE UNCHANGED vars
  BY <1>5 DEF vars
<1> QED BY <1>1, <1>2, <1>3, <1>4, <1>5 DEF Next

\* Directory maintenance: nothing executes a Session whose directory is under
\* a guard that is not released.
THEOREM GuardedIsQuiet == Spec => []GuardExcludesExecution
<1>1. Init => GuardKeepsFree
  BY DEF Init, GuardKeepsFree
<1>2. TypeOK /\ GuardKeepsFree /\ [Next]_vars => GuardKeepsFree'
  BY GuardStep
<1>3. IInv /\ GuardKeepsFree => GuardExcludesExecution
  BY HostAssumption, NoneAssumption
  DEF IInv, HolderOwnsRow, RowIs, GuardKeepsFree, GuardExcludesExecution, Holds, Runs
<1> QED BY <1>1, <1>2, <1>3, TypeCorrect, Invariance, PTL DEF Spec
=============================================================================
