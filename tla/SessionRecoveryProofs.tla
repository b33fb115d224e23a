----------------------- MODULE SessionRecoveryProofs -----------------------
(***************************************************************************)
(* What recovery relies on and leaves behind, for any number of Sessions,  *)
(* processes, hosts and generations: the rows of processes that a Session  *)
(* refers to stay, interrupt requests stay with their generation, a claim  *)
(* is taken over from the dead only, and a row is given up for somebody    *)
(* else only when the effects of its generation are settled.  Where a      *)
(* process serves the operator's Stop with one host or none, its           *)
(* recoveries also keep their claims and their heartbeats.                 *)
(***************************************************************************)
EXTENDS SessionExecutionOwnerProofs

USE DEF row, data, runtime, memory, fiber

-----------------------------------------------------------------------------
(* Interrupt requests. *)

\* A request is recorded on a row that has an owner, and cleared with it.
LEMMA MarkerStep ==
  ASSUME TypeOK, MarkerScope, [Next]_vars
  PROVE  MarkerScope'
<1> SUFFICES ASSUME NEW z \in Session, interrupted'[z] PROVE owner'[z] # None
  BY DEF MarkerScope
<1> USE NoneAssumption, HostAssumption DEF TypeOK, RowType, MarkerScope
<1>1. ASSUME NEW p \in Process, ProcessStep(p) PROVE owner'[z] # None
  BY <1>1 DEF ProcessStep, StartProcess, Crash, Beat, GoStale, Collect,
              ReconcileAtStartup, ClearRow
<1>2. ASSUME NEW h \in Host, NEW s \in Session, ExecutionStep(h, s)
      PROVE  owner'[z] # None
  <2>1. CASE Acquire(h, s)
    BY <2>1 DEF Acquire
  <2>2. CASE ReleaseIfDrained(h, s) \/ Release(h, s)
    BY <2>2 DEF ReleaseIfDrained, Release, ReleaseRow, ClearRow
  <2>3. CASE Interrupt(h, s)
    BY <2>3 DEF Interrupt
  <2>4. CASE StartDrain(h, s) \/ Admit(h, s) \/ AdmitInterrupted(h, s) \/ Check(h, s)
    BY <2>4 DEF StartDrain, Admit, AdmitInterrupted, Registered, Check
  <2>5. CASE \/ RunnerWrites(h, s) \/ RunnerExits(h, s) \/ ClearActivation(h, s)
             \/ MendTools(h, s) \/ Retire(h, s)
    BY <2>5 DEF RunnerWrites, RunnerExits, ClearActivation, MendTools, Retire
  <2> QED BY <1>2, <2>1, <2>2, <2>3, <2>4, <2>5 DEF ExecutionStep
<1>3. ASSUME NEW h \in Host, NEW s \in Session, RecoveryStep(h, s)
      PROVE  owner'[z] # None
  <2>1. CASE Complete(h, s)
    BY <2>1 DEF Complete, ClearRow
  <2>2. CASE StartSweep(h, s) \/ StartStop(h, s) \/ ClaimRead(h, s) \/ ClaimProve(h, s)
    BY <2>2 DEF StartSweep, StartStop, ClaimRead, ClaimProve
  <2>3. CASE \/ ClaimCas(h, s) \/ AbandonClaim(h, s) \/ EnterContainment(h, s)
             \/ SettleTools(h, s)
    BY <2>3 DEF ClaimCas, AbandonClaim, EnterContainment, SettleTools
  <2>4. CASE \/ HazardCheck(h, s) \/ SealScan(h, s) \/ RecoveryGivesUp(h, s)
             \/ SealPublish(h, s)
    BY <2>4 DEF HazardCheck, SealScan, RecoveryGivesUp, SealPublish
  <2> QED BY <1>3, <2>1, <2>2, <2>3, <2>4 DEF RecoveryStep
<1>4. ASSUME NEW s \in Session, Environment(s) PROVE owner'[z] # None
  BY <1>4 DEF Environment, UserAdmit, PublishGuard, ReleaseGuard
<1>5. CASE UNCHANGED vars
  BY <1>5 DEF vars
<1> QED BY <1>1, <1>2, <1>3, <1>4, <1>5 DEF Next

\* No interrupt request outlives its generation: whoever releases a row clears
\* it, so the next drain never starts with the request of another.
THEOREM RequestsAreScoped == Spec => []MarkerScope
<1>1. Init => MarkerScope
  BY DEF Init, MarkerScope
<1>2. TypeOK /\ MarkerScope /\ [Next]_vars => MarkerScope'
  BY MarkerStep
<1> QED BY <1>1, <1>2, TypeCorrect, PTL DEF Spec

-----------------------------------------------------------------------------
(* Rows that are referred to. *)

\* Whatever a process retains, it is alive and has a runtime_owner row for.
RetainerIsThere ==
  \A p \in Process : runHeld[p] # {} \/ recHeld[p] # {} => ownerRow[p] /\ life[p] = "live"

\* Only a process that has run has a row.
RowsAreUsed == \A p \in Process : ownerRow[p] => life[p] # "new"

Unwritten == {"acquire", "reacquire"} \cup Claiming

\* A fiber that may write its process into a row has retained it, and the row
\* that a claim read had an owner.
WriterIsThere ==
  \A h \in Host, s \in Session :
    /\ at[h][s] \in Unwritten => ownerRow[ProcOf[h]]
    /\ at[h][s] \in Claiming => src[h][s] # None

Referenced == RetainerIsThere /\ RowsAreUsed /\ WriterIsThere /\ RowReferencesExist

\* A claim over another claim rests on the death of its recovery owner.
TakeoverEvidence ==
  \A h \in Host, s \in Session :
    at[h][s] = "cas" /\ prev[h][s] # None => life[prev[h][s]] = "dead"

\* The row of session z stays as it was, is cleared, or loses its claim.
RowShrinks(z) ==
  \/ owner'[z] = owner[z] /\ recOwner'[z] \in {recOwner[z], None}
  \/ owner'[z] = None /\ recOwner'[z] = None

\* A fiber that is not about to write, or waits to write what it did before.
HarmlessMove(h, s) ==
  \/ at'[h][s] \notin Unwritten
  \/ at'[h][s] = at[h][s] /\ src'[h][s] = src[h][s] /\ prev'[h][s] = prev[h][s]

\* Steps that only give up: claims, rows, retentions.
LEMMA GivingUpKeeps ==
  ASSUME TypeOK, Referenced, TakeoverEvidence, NEW h \in Host, NEW s \in Session,
         OthersStay(h, s), HarmlessMove(h, s), \A z \in Session : RowShrinks(z),
         ownerRow' = ownerRow, life' = life,
         \A p \in Process : runHeld'[p] \subseteq runHeld[p] /\ recHeld'[p] \subseteq recHeld[p]
  PROVE  Referenced' /\ TakeoverEvidence'
<1> USE DEF Referenced
<1>1. RetainerIsThere'
  BY DEF RetainerIsThere
<1>2. RowsAreUsed'
  BY DEF RowsAreUsed
<1>3. WriterIsThere'
  BY DEF WriterIsThere, OthersStay, HarmlessMove, Unwritten, Claiming
<1>4. RowReferencesExist'
  BY DEF RowReferencesExist, RowShrinks
<1>5. TakeoverEvidence'
  BY DEF TakeoverEvidence, OthersStay, HarmlessMove, Unwritten, Claiming
<1> QED BY <1>1, <1>2, <1>3, <1>4, <1>5

\* The first retention writes the row, later ones find it.
LEMMA RetainWrites ==
  ASSUME TypeOK, Referenced, NEW p \in Process, Retain(p)
  PROVE  /\ ownerRow'[p]
         /\ \A o \in Process : o # p => ownerRow'[o] = ownerRow[o]
BY DEF Referenced, RetainerIsThere, Retain, TypeOK, RuntimeType

\* The row of an owner that is gone is not collected while a Session refers to it.
LEMMA CollectKeeps ==
  ASSUME TypeOK, IInv, Referenced, TakeoverEvidence,
         NEW p \in Process, NEW dead \in Process, Collect(p, dead)
  PROVE  Referenced' /\ TakeoverEvidence'
<1> USE DEF Referenced
<1>1. /\ life[dead] # "live" /\ \A s \in Session : owner[s] # dead /\ recOwner[s] # dead
      /\ ownerRow' = [ownerRow EXCEPT ![dead] = FALSE]
      /\ UNCHANGED <<row, memory, fiber>>
  BY DEF Collect, DeathProofs, Unreferenced
<1>2. RetainerIsThere' /\ RowsAreUsed'
  BY <1>1 DEF RetainerIsThere, RowsAreUsed, TypeOK, RuntimeType
<1>3. WriterIsThere'
  <2>1. \A h \in Host, s \in Session : at[h][s] \in Unwritten => ProcOf[h] # dead
    BY <1>1 DEF IInv, FibersAreAlive, Unwritten, Claiming
  <2>2. \A h \in Host : ProcOf[h] \in Process
    BY HostAssumption
  <2> QED BY <1>1, <2>1, <2>2 DEF WriterIsThere, TypeOK, RuntimeType, Claiming, Unwritten
<1>4. RowReferencesExist'
  BY <1>1 DEF RowReferencesExist, TypeOK, RuntimeType, RowType, OwnerOrNone
<1>5. TakeoverEvidence'
  BY <1>1 DEF TakeoverEvidence
<1> QED BY <1>2, <1>3, <1>4, <1>5

\* Processes start, die, beat, stall, collect and reconcile.
LEMMA ReferencedProcessStep ==
  ASSUME TypeOK, IInv, Referenced, TakeoverEvidence, NEW p \in Process, ProcessStep(p)
  PROVE  Referenced' /\ TakeoverEvidence'
<1> USE DEF Referenced
<1>1. CASE StartProcess(p)
  <2>1. /\ life[p] = "new" /\ life' = [life EXCEPT ![p] = "live"]
        /\ UNCHANGED <<row, ownerRow, runHeld, recHeld, fiber>>
    BY <1>1 DEF StartProcess
  <2>2. \A o \in Process : /\ life[o] # "new" => life'[o] = life[o]
                           /\ life'[o] = "new" => life[o] = "new"
    BY <2>1 DEF TypeOK, MemoryType
  <2>3. RetainerIsThere' /\ RowsAreUsed' /\ WriterIsThere' /\ RowReferencesExist'
    BY <2>1, <2>2 DEF RetainerIsThere, RowsAreUsed, WriterIsThere, RowReferencesExist
  <2>4. TakeoverEvidence'
    BY <2>1, <2>2 DEF TakeoverEvidence, TypeOK, FiberType, OwnerOrNone
  <2> QED BY <2>3, <2>4
<1>2. CASE Crash(p)
  <2>1. /\ \A k \in Host, z \in Session :
             IF ProcOf[k] = p THEN at'[k][z] = "idle"
             ELSE at'[k][z] = at[k][z] /\ src'[k][z] = src[k][z] /\ prev'[k][z] = prev[k][z]
        /\ life'[p] = "dead" /\ runHeld'[p] = {} /\ recHeld'[p] = {}
        /\ \A o \in Process : o # p => /\ life'[o] = life[o] /\ runHeld'[o] = runHeld[o]
                                       /\ recHeld'[o] = recHeld[o]
        /\ UNCHANGED <<row, ownerRow>>
    BY <1>2 DEF Crash, TypeOK, FiberType, MemoryType
  <2>2. RetainerIsThere' /\ RowsAreUsed' /\ RowReferencesExist'
    BY <2>1 DEF RetainerIsThere, RowsAreUsed, RowReferencesExist
  <2>3. WriterIsThere'
    BY <2>1 DEF WriterIsThere, Unwritten, Claiming
  <2>4. TakeoverEvidence'
    <3> SUFFICES ASSUME NEW h \in Host, NEW s \in Session, at'[h][s] = "cas", prev'[h][s] # None
                 PROVE  life'[prev'[h][s]] = "dead"
      BY DEF TakeoverEvidence
    <3>1. prev'[h][s] = prev[h][s] /\ life[prev[h][s]] = "dead" /\ prev[h][s] \in Process
      BY <2>1 DEF TakeoverEvidence, TypeOK, FiberType, OwnerOrNone
    <3> QED BY <2>1, <3>1
  <2> QED BY <2>2, <2>3, <2>4
<1>3. CASE Beat(p) \/ GoStale(p)
  BY <1>3 DEF Beat, GoStale, RetainerIsThere, RowsAreUsed, WriterIsThere, RowReferencesExist,
              TakeoverEvidence
<1>4. ASSUME NEW dead \in Process, Collect(p, dead) PROVE Referenced' /\ TakeoverEvidence'
  BY <1>4, CollectKeeps
<1>5. ASSUME NEW s \in Session, ReconcileAtStartup(p, s) PROVE Referenced' /\ TakeoverEvidence'
  <2>1. \A z \in Session : RowShrinks(z)
    BY <1>5 DEF ReconcileAtStartup, ClearRow, RowShrinks, TypeOK, RowType
  <2>2. UNCHANGED <<runtime, memory, fiber>>
    BY <1>5 DEF ReconcileAtStartup
  <2>3. RowReferencesExist'
    BY <2>1, <2>2 DEF RowReferencesExist, RowShrinks
  <2> QED BY <2>2, <2>3 DEF RetainerIsThere, RowsAreUsed, WriterIsThere, TakeoverEvidence
<1> QED BY <1>1, <1>2, <1>3, <1>4, <1>5 DEF ProcessStep

\* A busy answer ends the fiber, or sends it to recovery.
LEMMA BusyOthers ==
  ASSUME TypeOK, NEW h \in Host, NEW s \in Session, Busy(h, s)
  PROVE  OthersStay(h, s) /\ at'[h][s] \in {"idle", "claim"}
BY GoToOthers, FinishOthers DEF Busy

\* A job that starts.
LEMMA StartOthers ==
  ASSUME TypeOK, NEW h \in Host, NEW s \in Session, NEW j, NEW place, NEW n,
         Start(h, s, j, place, n)
  PROVE  OthersStay(h, s) /\ at'[h][s] = place
BY DEF TypeOK, FiberType, Start, OthersStay

\* Fibers stay where they are.
LEMMA StillOthers ==
  ASSUME UNCHANGED fiber, NEW h \in Host, NEW s \in Session
  PROVE  OthersStay(h, s) /\ HarmlessMove(h, s)
BY DEF OthersStay, HarmlessMove

\* A release clears the row or leaves it.
LEMMA ReleaseShrinks ==
  ASSUME TypeOK, NEW s \in Session, ClearRow(s) \/ UNCHANGED row
  PROVE  \A z \in Session : RowShrinks(z)
BY DEF ClearRow, RowShrinks, TypeOK, RowType

\* A fiber that retains its process before it may write its row.
LEMMA RetainedMove ==
  ASSUME TypeOK, IInv, Referenced, TakeoverEvidence, NEW h \in Host, NEW s \in Session,
         Retain(ProcOf[h]), OthersStay(h, s), UNCHANGED <<row, memory>>, at[h][s] # "idle",
         at'[h][s] \in Claiming => at'[h][s] = "prove" /\ src'[h][s] # None
  PROVE  Referenced' /\ TakeoverEvidence'
<1>1. life[ProcOf[h]] = "live" /\ ProcOf[h] \in Process
  BY HostAssumption DEF IInv, FibersAreAlive
<1>2. ownerRow'[ProcOf[h]]
  BY <1>1, RetainWrites
<1>3. \A o \in Process : ownerRow'[o] = ownerRow[o] \/ o = ProcOf[h]
  BY <1>1, RetainWrites
<1>4. RetainerIsThere' /\ RowsAreUsed'
  BY <1>1, <1>2, <1>3 DEF Referenced, RetainerIsThere, RowsAreUsed
<1>5. WriterIsThere'
  BY <1>2, <1>3, HostAssumption DEF Referenced, WriterIsThere, OthersStay, Claiming
<1>6. RowReferencesExist'
  BY <1>2, <1>3 DEF Referenced, RowReferencesExist, TypeOK, RowType, OwnerOrNone
<1>7. TakeoverEvidence'
  BY DEF TakeoverEvidence, OthersStay, Claiming
<1> QED BY <1>4, <1>5, <1>6, <1>7 DEF Referenced

\* Admission, execution and release keep the references.
LEMMA ReferencedExecutionStep ==
  ASSUME TypeOK, IInv, Referenced, TakeoverEvidence,
         NEW h \in Host, NEW s \in Session, ExecutionStep(h, s)
  PROVE  Referenced' /\ TakeoverEvidence'
<1> ProcOf[h] \in Process
  BY HostAssumption
<1>0. UNCHANGED row => \A z \in Session : RowShrinks(z)
  BY DEF RowShrinks
<1>1. CASE StartDrain(h, s) \/ RunnerExits(h, s) \/ MendTools(h, s)
  <2>1. OthersStay(h, s) /\ HarmlessMove(h, s)
    BY <1>1, StartOthers, GoToOthers
    DEF StartDrain, RunnerExits, MendTools, HarmlessMove, Unwritten, Claiming
  <2>2. UNCHANGED <<row, runtime, memory>>
    BY <1>1 DEF StartDrain, RunnerExits, MendTools
  <2> QED BY <1>0, <2>1, <2>2, GivingUpKeeps
<1>2. CASE Check(h, s)
  <2>1. CASE Busy(h, s) /\ UNCHANGED runtime
    <3>1. OthersStay(h, s) /\ HarmlessMove(h, s)
      BY <2>1, BusyOthers DEF HarmlessMove, Unwritten, Claiming
    <3> QED BY <1>0, <1>2, <2>1, <3>1, GivingUpKeeps DEF Check
  <2>2. CASE /\ GoTo(h, s, IF at[h][s] = "admit" THEN "acquire" ELSE "reacquire")
             /\ Retain(ProcOf[h])
    <3>1. OthersStay(h, s) /\ at'[h][s] \in {"acquire", "reacquire"}
      BY <2>2, GoToOthers
    <3>2. UNCHANGED <<row, memory>> /\ at[h][s] # "idle"
      BY <1>2 DEF Check
    <3> QED BY <2>2, <3>1, <3>2, RetainedMove DEF Claiming
  <2> QED BY <1>2, <2>1, <2>2 DEF Check
<1>3. CASE Acquire(h, s)
  <2>0. UNCHANGED <<data, runtime, memory>> /\ at[h][s] \in {"acquire", "reacquire"}
    BY <1>3 DEF Acquire
  <2>1. CASE (Finish(h, s) \/ Busy(h, s)) /\ UNCHANGED row
    <3>1. OthersStay(h, s) /\ HarmlessMove(h, s)
      BY <2>1, BusyOthers, FinishOthers DEF HarmlessMove, Unwritten, Claiming
    <3> QED BY <1>0, <2>0, <2>1, <3>1, GivingUpKeeps
  <2>2. CASE /\ owner' = [owner EXCEPT ![s] = ProcOf[h]]
             /\ recOwner' = [recOwner EXCEPT ![s] = None]
             /\ at' = [at EXCEPT ![h][s] = "commit"]
             /\ UNCHANGED <<src, prev>>
    <3>1. ownerRow[ProcOf[h]]
      BY <2>0 DEF Referenced, WriterIsThere, Unwritten
    <3>2. RowReferencesExist'
      BY <2>0, <2>2, <3>1 DEF Referenced, RowReferencesExist, TypeOK, RowType
    <3>3. RetainerIsThere' /\ RowsAreUsed'
      BY <2>0 DEF Referenced, RetainerIsThere, RowsAreUsed
    <3>4. WriterIsThere' /\ TakeoverEvidence'
      BY <2>0, <2>2 DEF Referenced, WriterIsThere, TakeoverEvidence, TypeOK, FiberType,
         Unwritten, Claiming
    <3> QED BY <3>2, <3>3, <3>4 DEF Referenced
  <2> QED BY <1>3, <2>1, <2>2 DEF Acquire
<1>4. CASE Admit(h, s) \/ AdmitInterrupted(h, s)
  <2>1. Registered(h, s)
    BY <1>4 DEF Admit, AdmitInterrupted
  <2>2. ownerRow[ProcOf[h]] /\ life[ProcOf[h]] = "live"
    <3>1. Holds(h, s)
      BY <2>1 DEF Registered, Holds
    <3>2. owner[s] = ProcOf[h] /\ life[ProcOf[h]] = "live"
      BY <3>1, HolderFacts DEF Owned
    <3> QED BY <3>2, NoneAssumption DEF Referenced, RowReferencesExist
  <2>3. OthersStay(h, s) /\ at'[h][s] \in {"run", "mend", "unwind", "idle"}
    BY <1>4, GoToOthers, FinishOthers DEF Admit, AdmitInterrupted
  <2>4. /\ UNCHANGED <<row, runtime, life, recHeld>>
        /\ \A o \in Process : o # ProcOf[h] => runHeld'[o] = runHeld[o]
    BY <2>1 DEF Registered, TypeOK, MemoryType
  <2>5. RetainerIsThere' /\ RowsAreUsed' /\ RowReferencesExist'
    BY <2>2, <2>4 DEF Referenced, RetainerIsThere, RowsAreUsed, RowReferencesExist
  <2>6. WriterIsThere' /\ TakeoverEvidence'
    BY <2>3, <2>4 DEF Referenced, WriterIsThere, TakeoverEvidence, OthersStay, Unwritten, Claiming
  <2> QED BY <2>5, <2>6 DEF Referenced
<1>5. CASE RunnerWrites(h, s)
  BY <1>0, <1>5, StillOthers, GivingUpKeeps DEF RunnerWrites
<1>6. CASE ReleaseIfDrained(h, s) \/ Release(h, s)
  <2>1. OthersStay(h, s) /\ HarmlessMove(h, s)
    BY <1>6, GoToOthers DEF ReleaseIfDrained, Release, HarmlessMove, Unwritten, Claiming
  <2>2. \A z \in Session : RowShrinks(z)
    BY <1>6, ReleaseShrinks DEF ReleaseIfDrained, Release, ReleaseRow
  <2> QED BY <1>6, <2>1, <2>2, GivingUpKeeps DEF ReleaseIfDrained, Release
<1>7. CASE ClearActivation(h, s) \/ Retire(h, s)
  <2>1. OthersStay(h, s) /\ HarmlessMove(h, s)
    BY <1>7, FinishOthers DEF ClearActivation, Retire, HarmlessMove, Unwritten, Claiming
  <2>2. \A p \in Process : runHeld'[p] \subseteq runHeld[p] /\ recHeld'[p] \subseteq recHeld[p]
    BY <1>7 DEF ClearActivation, Retire, TypeOK, MemoryType
  <2> QED BY <1>0, <1>7, <2>1, <2>2, GivingUpKeeps DEF ClearActivation, Retire
<1>8. CASE Interrupt(h, s)
  <2>1. OthersStay(h, s) /\ HarmlessMove(h, s)
    <3>1. CASE UNCHANGED fiber
      BY <3>1, StillOthers
    <3>2. CASE GoTo(h, s, "unwind") \/ Finish(h, s)
      BY <3>2, GoToOthers, FinishOthers DEF HarmlessMove, Unwritten, Claiming
    <3> QED BY <1>8, <3>1, <3>2 DEF Interrupt
  <2>2. \A z \in Session : RowShrinks(z)
    BY <1>8 DEF Interrupt, RowShrinks
  <2> QED BY <1>8, <2>1, <2>2, GivingUpKeeps DEF Interrupt
<1> QED BY <1>1, <1>2, <1>3, <1>4, <1>5, <1>6, <1>7, <1>8 DEF ExecutionStep

\* A claim that is handed out is retained by a process that is there.
LEMMA ClaimedKeeps ==
  ASSUME TypeOK, IInv, Referenced, TakeoverEvidence,
         NEW h \in Host, NEW s \in Session, NEW o, NEW n, Claimed(h, s, o, n),
         \A p \in Process : ownerRow[p] => ownerRow'[p],
         ownerRow'[ProcOf[h]], \A p \in Process : ownerRow'[p] => ownerRow[p] \/ p = ProcOf[h],
         at[h][s] # "idle", owner' = owner, owner[s] # None,
         recOwner' = recOwner \/ recOwner' = [recOwner EXCEPT ![s] = ProcOf[h]]
  PROVE  Referenced' /\ TakeoverEvidence'
<1> ProcOf[h] \in Process
  BY HostAssumption
<1>1. life' = life /\ life[ProcOf[h]] = "live"
  BY DEF Claimed, IInv, FibersAreAlive
<1>2. /\ runHeld' = runHeld
      /\ \A p \in Process : p # ProcOf[h] => recHeld'[p] = recHeld[p]
  BY DEF Claimed, KeepRecoveryRetention, TypeOK, MemoryType
<1>3. OthersStay(h, s) /\ at'[h][s] \in {"judge", "hazard"}
  BY DEF Claimed, OthersStay, TypeOK, FiberType
<1>4. RetainerIsThere' /\ RowsAreUsed'
  BY <1>1, <1>2 DEF Referenced, RetainerIsThere, RowsAreUsed
<1>5. WriterIsThere' /\ TakeoverEvidence'
  BY <1>1, <1>3, HostAssumption
  DEF Referenced, WriterIsThere, TakeoverEvidence, OthersStay, Unwritten, Claiming
<1>6. RowReferencesExist'
  BY DEF Referenced, RowReferencesExist, TypeOK, RowType, OwnerOrNone
<1> QED BY <1>4, <1>5, <1>6 DEF Referenced

\* What tryClaimRecovery reads, and what it proves of it.
LEMMA ReferencedClaim ==
  ASSUME TypeOK, IInv, Referenced, TakeoverEvidence, NEW h \in Host, NEW s \in Session,
         ClaimRead(h, s) \/ ClaimProve(h, s) \/ ClaimCas(h, s)
  PROVE  Referenced' /\ TakeoverEvidence'
<1> ProcOf[h] \in Process
  BY HostAssumption
<1>0. UNCHANGED row => \A z \in Session : RowShrinks(z)
  BY DEF RowShrinks
<1>1. CASE ClaimRead(h, s)
  <2>0. at[h][s] = "claim" /\ Retain(ProcOf[h]) /\ UNCHANGED row
    BY <1>1 DEF ClaimRead
  <2>1. CASE Finish(h, s) /\ UNCHANGED memory
    BY <2>0, <2>1, FinishOthers, RetainedMove DEF Claiming
  <2>2. CASE owner[s] # None /\ Claimed(h, s, owner[s], gen[s])
    <3>1. \A o \in Process : ownerRow'[o] = ownerRow[o] \/ o = ProcOf[h]
      BY <2>0, RetainWrites
    <3>2. ownerRow'[ProcOf[h]]
      BY <2>0, RetainWrites
    <3> QED BY <2>0, <2>2, <3>1, <3>2, ClaimedKeeps
  <2>3. CASE /\ owner[s] # None
             /\ at' = [at EXCEPT ![h][s] = "prove"]
             /\ tok' = [tok EXCEPT ![h][s] = gen[s]]
             /\ src' = [src EXCEPT ![h][s] = owner[s]]
             /\ prev' = [prev EXCEPT ![h][s] = recOwner[s]]
             /\ UNCHANGED memory
    <3>1. OthersStay(h, s) /\ at'[h][s] = "prove" /\ src'[h][s] = owner[s]
      BY <2>3 DEF OthersStay, TypeOK, FiberType
    <3> QED BY <2>0, <2>3, <3>1, RetainedMove
  <2> QED BY <1>1, <2>1, <2>2, <2>3 DEF ClaimRead
<1>2. CASE ClaimProve(h, s)
  <2>0. at[h][s] = "prove" /\ UNCHANGED <<row, data, runtime, memory>>
    BY <1>2 DEF ClaimProve
  <2>1. CASE Finish(h, s)
    BY <1>0, <2>0, <2>1, FinishOthers, GivingUpKeeps DEF HarmlessMove, Unwritten, Claiming
  <2>2. CASE /\ GoTo(h, s, "cas")
             /\ \/ LocalExecutionGone(h, s)
                \/ MayJudge(h, s) /\ "dead" \in DeathProofs(Suspect(h, s))
    <3>1. OthersStay(h, s) /\ at'[h][s] = "cas" /\ src'[h][s] = src[h][s] /\ prev'[h][s] = prev[h][s]
      BY <2>2, GoToOthers
    <3>2. prev[h][s] # None => life[prev[h][s]] = "dead"
      <4> SUFFICES ASSUME prev[h][s] # None PROVE life[prev[h][s]] = "dead"
        OBVIOUS
      <4>1. ownerRow[prev[h][s]] /\ "dead" \in DeathProofs(prev[h][s])
        BY <2>2 DEF LocalExecutionGone, MayJudge, Suspect
      <4>2. prev[h][s] \in Process
        BY DEF TypeOK, FiberType, OwnerOrNone
      <4>3. life[prev[h][s]] # "live"
        BY <4>1 DEF DeathProofs
      <4>4. life[prev[h][s]] # "new"
        BY <4>1, <4>2 DEF Referenced, RowsAreUsed
      <4> QED BY <4>2, <4>3, <4>4 DEF TypeOK, MemoryType
    <3>3. TakeoverEvidence'
      BY <2>0, <3>1, <3>2 DEF TakeoverEvidence, OthersStay
    <3>4. WriterIsThere'
      BY <2>0, <3>1 DEF Referenced, WriterIsThere, OthersStay, Unwritten, Claiming
    <3> QED BY <2>0, <3>3, <3>4 DEF Referenced, RetainerIsThere, RowsAreUsed, RowReferencesExist
  <2> QED BY <1>2, <2>1, <2>2 DEF ClaimProve
<1>3. CASE ClaimCas(h, s)
  <2>0. at[h][s] = "cas" /\ UNCHANGED <<owner, runtime>>
    BY <1>3 DEF ClaimCas
  <2>1. ownerRow[ProcOf[h]] /\ src[h][s] # None
    BY <2>0 DEF Referenced, WriterIsThere, Unwritten, Claiming
  <2>2. CASE /\ RowIs(s, src[h][s], tok[h][s], prev[h][s])
             /\ recOwner' = [recOwner EXCEPT ![s] = ProcOf[h]]
             /\ Claimed(h, s, src[h][s], tok[h][s])
    BY <2>0, <2>1, <2>2, ClaimedKeeps DEF RowIs
  <2>3. CASE owner[s] # None /\ Claimed(h, s, owner[s], gen[s]) /\ UNCHANGED recOwner
    BY <2>0, <2>1, <2>3, ClaimedKeeps
  <2>4. CASE Finish(h, s) /\ UNCHANGED <<recOwner, memory>>
    <3>1. \A z \in Session : RowShrinks(z)
      BY <2>0, <2>4 DEF RowShrinks
    <3> QED BY <2>0, <2>4, <3>1, FinishOthers, GivingUpKeeps DEF HarmlessMove, Unwritten, Claiming
  <2> QED BY <1>3, <2>2, <2>3, <2>4 DEF ClaimCas
<1> QED BY <1>1, <1>2, <1>3

\* Every other step of a recovery or a Stop only gives up.
LEMMA ReferencedRecoveryStep ==
  ASSUME TypeOK, IInv, Referenced, TakeoverEvidence,
         NEW h \in Host, NEW s \in Session, RecoveryStep(h, s)
  PROVE  Referenced' /\ TakeoverEvidence'
<1> ProcOf[h] \in Process
  BY HostAssumption
<1>0. UNCHANGED <<owner, recOwner>> => \A z \in Session : RowShrinks(z)
  BY DEF RowShrinks
<1>1. CASE StartSweep(h, s) \/ StartStop(h, s)
  <2>1. OthersStay(h, s) /\ HarmlessMove(h, s)
    BY <1>1, StartOthers DEF StartSweep, StartStop, HarmlessMove, Unwritten, Claiming
  <2> QED BY <1>0, <1>1, <2>1, GivingUpKeeps DEF StartSweep, StartStop
<1>2. CASE ClaimRead(h, s) \/ ClaimProve(h, s) \/ ClaimCas(h, s)
  BY <1>2, ReferencedClaim
<1>3. CASE AbandonClaim(h, s)
  <2>1. OthersStay(h, s) /\ HarmlessMove(h, s)
    BY <1>3, FinishOthers DEF AbandonClaim, HarmlessMove, Unwritten, Claiming
  <2>2. \A z \in Session : RowShrinks(z)
    BY <1>3 DEF AbandonClaim, RowShrinks, TypeOK, RowType
  <2>3. \A p \in Process : recHeld'[p] \subseteq recHeld[p]
    BY <1>3 DEF AbandonClaim, DropRecoveryRetention, TypeOK, MemoryType
  <2> QED BY <1>3, <2>1, <2>2, <2>3, GivingUpKeeps DEF AbandonClaim
<1>4. CASE EnterContainment(h, s) \/ SettleTools(h, s) \/ HazardCheck(h, s) \/ RecoveryGivesUp(h, s)
  <2>1. OthersStay(h, s) /\ HarmlessMove(h, s)
    BY <1>4, GoToOthers, FinishOthers
    DEF EnterContainment, SettleTools, HazardCheck, RecoveryGivesUp, HarmlessMove, Unwritten, Claiming
  <2> QED BY <1>0, <1>4, <2>1, GivingUpKeeps
      DEF EnterContainment, SettleTools, HazardCheck, RecoveryGivesUp
<1>5. CASE SealScan(h, s) \/ SealPublish(h, s)
  <2>1. OthersStay(h, s) /\ at'[h][s] \in {"seal", "complete"}
    BY <1>5 DEF SealScan, SealPublish, OthersStay, TypeOK, FiberType
  <2>2. HarmlessMove(h, s)
    BY <2>1 DEF HarmlessMove, Unwritten, Claiming
  <2> QED BY <1>0, <1>5, <2>1, <2>2, GivingUpKeeps DEF SealScan, SealPublish
<1>6. CASE Complete(h, s)
  <2>1. OthersStay(h, s) /\ at'[h][s] \in {"readmit", "idle"}
    <3>1. CASE Finish(h, s)
      BY <3>1, FinishOthers
    <3>2. CASE /\ at' = [at EXCEPT ![h][s] = "readmit"]
               /\ tok' = [tok EXCEPT ![h][s] = 0]
               /\ src' = [src EXCEPT ![h][s] = None]
               /\ UNCHANGED prev
      BY <3>2 DEF OthersStay, TypeOK, FiberType
    <3> QED BY <1>6, <3>1, <3>2 DEF Complete
  <2>2. HarmlessMove(h, s)
    BY <2>1 DEF HarmlessMove, Unwritten, Claiming
  <2>3. \A z \in Session : RowShrinks(z)
    BY <1>6, ReleaseShrinks DEF Complete
  <2>4. \A p \in Process : recHeld'[p] \subseteq recHeld[p]
    BY <1>6 DEF Complete, DropRecoveryRetention, TypeOK, MemoryType
  <2> QED BY <1>6, <2>1, <2>2, <2>3, <2>4, GivingUpKeeps DEF Complete
<1> QED BY <1>1, <1>2, <1>3, <1>4, <1>5, <1>6 DEF RecoveryStep

\* References and evidence survive every step.
LEMMA ReferencedStep ==
  TypeOK /\ IInv /\ Referenced /\ TakeoverEvidence /\ [Next]_vars => Referenced' /\ TakeoverEvidence'
<1> SUFFICES ASSUME TypeOK, IInv, Referenced, TakeoverEvidence, [Next]_vars
             PROVE  Referenced' /\ TakeoverEvidence'
  OBVIOUS
<1>1. ASSUME UNCHANGED <<owner, recOwner, ownerRow, memory, fiber>>
      PROVE  Referenced' /\ TakeoverEvidence'
  BY <1>1 DEF Referenced, RetainerIsThere, RowsAreUsed, WriterIsThere, RowReferencesExist,
     TakeoverEvidence
<1>2. ASSUME NEW s \in Session, Environment(s) PROVE Referenced' /\ TakeoverEvidence'
  BY <1>1, <1>2 DEF Environment, UserAdmit, PublishGuard, ReleaseGuard
<1>3. CASE UNCHANGED vars
  BY <1>1, <1>3 DEF vars
<1> QED BY <1>2, <1>3, ReferencedProcessStep, ReferencedExecutionStep, ReferencedRecoveryStep DEF Next

\* They hold throughout.
LEMMA ReferencedAlways == Spec => [](Referenced /\ TakeoverEvidence)
<1>1. Init => Referenced /\ TakeoverEvidence
  BY DEF Init, Referenced, RetainerIsThere, RowsAreUsed, WriterIsThere, RowReferencesExist,
     TakeoverEvidence, Unwritten, Claiming
<1> QED BY <1>1, ReferencedStep, TypeCorrect, Invariance, PTL DEF Spec

\* The foreign keys of the owner row hold: the collection of dead owner rows
\* never takes one that a row names, whoever claims and recovers meanwhile.
THEOREM RowsStay == Spec => []RowReferencesExist
BY ReferencedAlways, PTL DEF Referenced

\* An execution step writes a row only by a claim on an idle row or a release, and
\* only the row of its own Session.
LEMMA ExecutorWritesRow ==
  ASSUME TypeOK, NEW h \in Host, NEW s \in Session, ExecutionStep(h, s), NEW z \in Session,
         ~(owner'[z] = owner[z] /\ gen'[z] = gen[z] /\ recOwner'[z] = recOwner[z])
  PROVE  (Acquire(h, s) \/ ReleaseIfDrained(h, s) \/ Release(h, s)) /\ z = s
<1>1. CASE Acquire(h, s)
  BY <1>1 DEF Acquire, TypeOK, RowType
<1>2. CASE ReleaseIfDrained(h, s) \/ Release(h, s)
  BY <1>2 DEF ReleaseIfDrained, Release, ReleaseRow, ClearRow, TypeOK, RowType
<1>3. CASE ~Acquire(h, s) /\ ~ReleaseIfDrained(h, s) /\ ~Release(h, s)
  <2>1. \/ StartDrain(h, s) \/ Admit(h, s) \/ AdmitInterrupted(h, s) \/ Check(h, s)
        \/ RunnerWrites(h, s) \/ RunnerExits(h, s) \/ ClearActivation(h, s)
        \/ Interrupt(h, s) \/ MendTools(h, s) \/ Retire(h, s)
    BY <1>3 DEF ExecutionStep
  <2>2. UNCHANGED <<gen, owner, recOwner>>
    <3>1. CASE StartDrain(h, s)
      BY <3>1 DEF StartDrain
    <3>4. CASE Check(h, s)
      BY <3>4 DEF Check
    <3>5. CASE Admit(h, s) \/ AdmitInterrupted(h, s)
      BY <3>5 DEF Admit, AdmitInterrupted, Registered
    <3>2. CASE RunnerWrites(h, s) \/ RunnerExits(h, s) \/ ClearActivation(h, s)
      BY <3>2 DEF RunnerWrites, RunnerExits, ClearActivation
    <3>3. CASE Interrupt(h, s) \/ MendTools(h, s) \/ Retire(h, s)
      BY <3>3 DEF Interrupt, MendTools, Retire
    <3> QED BY <2>1, <3>1, <3>2, <3>3, <3>4, <3>5
  <2> QED BY <2>2
<1> QED BY <1>1, <1>2, <1>3

\* A recovery writes a row only when it claims it, gives it up or frees it, and only
\* the row of its own Session.
LEMMA RecoveryWritesRow ==
  ASSUME TypeOK, NEW h \in Host, NEW s \in Session, RecoveryStep(h, s), NEW z \in Session,
         ~(owner'[z] = owner[z] /\ gen'[z] = gen[z] /\ recOwner'[z] = recOwner[z])
  PROVE  (ClaimCas(h, s) \/ AbandonClaim(h, s) \/ Complete(h, s)) /\ z = s
<1>1. CASE ClaimCas(h, s)
  BY <1>1 DEF ClaimCas, TypeOK, RowType
<1>2. CASE AbandonClaim(h, s) \/ Complete(h, s)
  BY <1>2 DEF AbandonClaim, Complete, ClearRow, TypeOK, RowType
<1>3. CASE ~ClaimCas(h, s) /\ ~AbandonClaim(h, s) /\ ~Complete(h, s)
  <2>1. \/ StartSweep(h, s) \/ StartStop(h, s) \/ ClaimRead(h, s) \/ ClaimProve(h, s)
        \/ EnterContainment(h, s) \/ SettleTools(h, s) \/ HazardCheck(h, s)
        \/ SealScan(h, s) \/ RecoveryGivesUp(h, s) \/ SealPublish(h, s)
    BY <1>3 DEF RecoveryStep
  <2>2. UNCHANGED <<gen, owner, recOwner>>
    BY <2>1 DEF StartSweep, StartStop, ClaimRead, ClaimProve, EnterContainment, SettleTools,
       HazardCheck, SealScan, RecoveryGivesUp, SealPublish
  <2> QED BY <2>2
<1> QED BY <1>1, <1>2, <1>3

\* A claim changes hands only over a recovery owner that is dead.
THEOREM TakeoverIsOverTheDead == Spec => RecoveryTakeover
<1>1. TypeOK /\ TakeoverEvidence /\ [Next]_vars
      => [\A s \in Session :
            recOwner[s] # None /\ recOwner'[s] # None /\ recOwner'[s] # recOwner[s]
              => life[recOwner[s]] = "dead"]_vars
  <2> SUFFICES ASSUME TypeOK, TakeoverEvidence, [Next]_vars, NEW z \in Session,
                      recOwner[z] # None, recOwner'[z] # None, recOwner'[z] # recOwner[z]
               PROVE  life[recOwner[z]] = "dead"
    OBVIOUS
  <2>0. recOwner' # recOwner
    OBVIOUS
  <2>1. ASSUME NEW p \in Process, ProcessStep(p) PROVE FALSE
    BY <2>0, <2>1 DEF ProcessStep, StartProcess, Crash, Beat, GoStale, Collect,
                ReconcileAtStartup, ClearRow, TypeOK, RowType
  <2>2. ASSUME NEW h \in Host, NEW s \in Session, ExecutionStep(h, s) PROVE FALSE
    <3>1. Acquire(h, s) \/ ReleaseIfDrained(h, s) \/ Release(h, s)
      BY <2>2, ExecutorWritesRow
    <3>2. recOwner'[z] \in {recOwner[z], None}
      BY <3>1 DEF Acquire, ReleaseIfDrained, Release, ReleaseRow, ClearRow, TypeOK, RowType
    <3> QED BY <3>2
  <2>3. ASSUME NEW h \in Host, NEW s \in Session, RecoveryStep(h, s)
        PROVE  ClaimCas(h, s) /\ z = s
    <3>1. (ClaimCas(h, s) \/ AbandonClaim(h, s) \/ Complete(h, s)) /\ z = s
      BY <2>3, RecoveryWritesRow
    <3>2. ~AbandonClaim(h, s) /\ ~Complete(h, s)
      BY <3>1 DEF AbandonClaim, Complete, ClearRow, TypeOK, RowType
    <3> QED BY <3>1, <3>2
  <2>4. ASSUME NEW s \in Session, Environment(s) PROVE FALSE
    BY <2>0, <2>4 DEF Environment, UserAdmit, PublishGuard, ReleaseGuard
  <2>5. PICK h \in Host : ClaimCas(h, z)
    BY <2>0, <2>1, <2>2, <2>3, <2>4 DEF Next, vars
  <2>6. at[h][z] = "cas" /\ prev[h][z] = recOwner[z]
    BY <2>0, <2>5 DEF ClaimCas, RowIs
  <2> QED BY <2>6 DEF TakeoverEvidence
<1> QED BY <1>1, ReferencedAlways, TypeCorrect, PTL DEF Spec, RecoveryTakeover

-----------------------------------------------------------------------------
(* Effects of a generation that is given up. *)

\* h works under a claim that it was handed out.
Recovers(h, s) == at[h][s] \in Mending \cup {"judge", "settle"}

\* The generation that was handed out for recovery is held by nobody.
NobodyHolds(h, s) ==
  /\ tok[h][s] <= gen[s]
  /\ tok[h][s] = gen[s] => \A k \in Host : ~Holds(k, s)

\* What a recovery has seen or settled of its generation stays that way.
StaysSettled(h, s) ==
  owner[s] # None /\ tok[h][s] = gen[s] =>
    /\ at[h][s] \in {"scan", "seal", "complete"} => ~openTool[s]
    /\ at[h][s] = "seal" /\ openStep[s] = gen[s] => found[h][s] = gen[s]
    /\ at[h][s] = "complete" => openStep[s] # gen[s]

RecoveryIsAlone ==
  \A h \in Host, s \in Session : Recovers(h, s) => NobodyHolds(h, s) /\ StaysSettled(h, s)

OwnedHasGeneration == \A s \in Session : owner[s] # None => gen[s] # 0
BlankHasNoStep == \A s \in Session : blank[s] => openStep[s] = 0

Effects == RecoveryIsAlone /\ OwnedHasGeneration /\ BlankHasNoStep

\* The local a seal adds to those of OthersStay.
FoundStays(h, s) ==
  \A k \in Host, z \in Session : k # h \/ z # s => found'[k][z] = found[k][z]

\* Steps that take no generation and only settle: the fiber that moves shows
\* what it knows where it arrives, the others know what they knew.
LEMMA SettlingKeeps ==
  ASSUME TypeOK, Effects, NEW h \in Host, NEW s \in Session,
         OthersStay(h, s), FoundStays(h, s),
         UNCHANGED <<gen, blank>>,
         \A z \in Session : owner'[z] \in {owner[z], None},
         \A z \in Session : openTool'[z] => openTool[z],
         \A z \in Session : openStep'[z] \in {openStep[z], 0},
         \A k \in Host, z \in Session : Holds(k, z)' => Holds(k, z),
         Recovers(h, s)' => NobodyHolds(h, s)' /\ StaysSettled(h, s)'
  PROVE  Effects'
<1> USE DEF Effects
<1>1. RecoveryIsAlone'
  <2> SUFFICES ASSUME NEW k \in Host, NEW z \in Session, Recovers(k, z)', k # h \/ z # s
               PROVE  NobodyHolds(k, z)' /\ StaysSettled(k, z)'
    BY DEF RecoveryIsAlone
  <2>1. at'[k][z] = at[k][z] /\ tok'[k][z] = tok[k][z] /\ found'[k][z] = found[k][z]
    BY DEF OthersStay, FoundStays
  <2>2. NobodyHolds(k, z) /\ StaysSettled(k, z)
    BY <2>1 DEF RecoveryIsAlone, Recovers
  <2>3. NobodyHolds(k, z)'
    BY <2>1, <2>2 DEF NobodyHolds
  <2>4. owner'[z] # None => owner[z] # None /\ gen[z] # 0
    BY DEF OwnedHasGeneration
  <2>5. StaysSettled(k, z)'
    BY <2>1, <2>2, <2>4 DEF StaysSettled
  <2> QED BY <2>3, <2>5
<1>2. OwnedHasGeneration'
  BY DEF OwnedHasGeneration
<1>3. BlankHasNoStep'
  BY DEF BlankHasNoStep
<1> QED BY <1>1, <1>2, <1>3

\* The same for a fiber that leaves the data alone and recovers nothing afterwards.
LEMMA IdleKeeps ==
  ASSUME TypeOK, Effects, NEW h \in Host, NEW s \in Session,
         OthersStay(h, s), FoundStays(h, s), UNCHANGED <<gen, blank, openStep>>,
         openTool' = openTool \/ \E left \in {FALSE, openTool[s]} : openTool' = [openTool EXCEPT ![s] = left],
         \A z \in Session : owner'[z] \in {owner[z], None},
         at'[h][s] \notin Mending \cup {"judge", "settle"},
         at'[h][s] \in Executing \cup {"commit"} => Holds(h, s)
  PROVE  Effects'
<1>1. \A z \in Session : openTool'[z] => openTool[z]
  BY DEF TypeOK, DataType
<1>2. \A k \in Host, z \in Session : Holds(k, z)' => Holds(k, z)
  BY DEF OthersStay, Holds
<1>3. ~Recovers(h, s)'
  BY DEF Recovers
<1> QED BY <1>1, <1>2, <1>3, SettlingKeeps

\* No fiber and no effect changes.
LEMMA StillKeeps ==
  ASSUME Effects, UNCHANGED <<gen, blank, openStep, openTool, at, tok, found>>,
         \A z \in Session : owner'[z] \in {owner[z], None}
  PROVE  Effects'
BY DEF Effects, RecoveryIsAlone, OwnedHasGeneration, BlankHasNoStep, Recovers, NobodyHolds,
       StaysSettled, Holds

\* Moves of a fiber keep the steps that others found.
LEMMA FoundOthers ==
  ASSUME TypeOK, NEW h \in Host, NEW s \in Session, NEW place, NEW j, NEW n,
         GoTo(h, s, place) \/ Finish(h, s) \/ Start(h, s, j, place, n)
  PROVE  FoundStays(h, s)
BY DEF FoundStays, GoTo, Finish, Start, TypeOK, FiberType

\* A fiber that goes on, seen by the others and by itself.
LEMMA GoToFound ==
  ASSUME TypeOK, NEW h \in Host, NEW s \in Session, NEW place, GoTo(h, s, place)
  PROVE  OthersStay(h, s) /\ FoundStays(h, s) /\ at'[h][s] = place /\ tok'[h][s] = tok[h][s]
<1>1. FoundStays(h, s)
  BY DEF GoTo, FoundStays
<1> QED BY <1>1, GoToOthers

\* A busy answer, too.
LEMMA BusyFound ==
  ASSUME TypeOK, NEW h \in Host, NEW s \in Session, Busy(h, s)
  PROVE  FoundStays(h, s)
BY DEF FoundStays, Busy, GoTo, Finish, TypeOK, FiberType

\* A row is cleared or stays.
LEMMA ClearsOwner ==
  ASSUME TypeOK, NEW s \in Session, ClearRow(s) \/ UNCHANGED row
  PROVE  UNCHANGED gen /\ \A z \in Session : owner'[z] \in {owner[z], None}
BY DEF ClearRow, TypeOK, RowType

\* Processes and the environment leave the effects alone.
LEMMA EffectsProcessStep ==
  ASSUME TypeOK, Effects, NEW p \in Process, ProcessStep(p)
  PROVE  Effects'
<1>1. CASE Crash(p)
  <2>1. /\ \A k \in Host, z \in Session :
             \/ at'[k][z] = "idle"
             \/ at'[k][z] = at[k][z] /\ tok'[k][z] = tok[k][z] /\ found'[k][z] = found[k][z]
        /\ UNCHANGED <<row, data>>
    BY <1>1 DEF Crash, TypeOK, FiberType
  <2>2. \A k \in Host, z \in Session : Holds(k, z)' => Holds(k, z)
    BY <2>1 DEF Holds, Executing
  <2>3. RecoveryIsAlone'
    <3> SUFFICES ASSUME NEW k \in Host, NEW z \in Session, Recovers(k, z)'
                 PROVE  NobodyHolds(k, z)' /\ StaysSettled(k, z)'
      BY DEF RecoveryIsAlone
    <3>1. at'[k][z] = at[k][z] /\ tok'[k][z] = tok[k][z] /\ found'[k][z] = found[k][z]
      BY <2>1 DEF Recovers, Mending
    <3>2. NobodyHolds(k, z) /\ StaysSettled(k, z)
      BY <3>1 DEF Effects, RecoveryIsAlone, Recovers
    <3> QED BY <2>1, <2>2, <3>1, <3>2 DEF NobodyHolds, StaysSettled
  <2> QED BY <2>1, <2>3 DEF Effects, OwnedHasGeneration, BlankHasNoStep
<1>2. ASSUME NEW s \in Session, ReconcileAtStartup(p, s) PROVE Effects'
  BY <1>2, ClearsOwner, StillKeeps DEF ReconcileAtStartup
<1>3. CASE StartProcess(p) \/ Beat(p) \/ GoStale(p) \/ \E dead \in Process : Collect(p, dead)
  BY <1>3, StillKeeps DEF StartProcess, Beat, GoStale, Collect
<1> QED BY <1>1, <1>2, <1>3 DEF ProcessStep

\* What the runner writes belongs to the generation it holds, which nobody recovers.
LEMMA RunnerWritesKeeps ==
  ASSUME TypeOK, IInv, Effects, NEW h \in Host, NEW s \in Session, RunnerWrites(h, s)
  PROVE  Effects'
<1>1. /\ UNCHANGED <<row, fiber>> /\ at[h][s] = "run"
      /\ \A z \in Session : z # s => /\ openTool'[z] = openTool[z] /\ openStep'[z] = openStep[z]
                                     /\ blank'[z] = blank[z]
  BY DEF RunnerWrites, TypeOK, DataType
<1>2. Holds(h, s) /\ tok[h][s] = gen[s]
  BY <1>1, HolderFacts DEF Holds, Executing, Owned
<1>3. \A k \in Host : Recovers(k, s) => tok[k][s] # gen[s]
  BY <1>2 DEF Effects, RecoveryIsAlone, NobodyHolds
<1>4. RecoveryIsAlone'
  <2> SUFFICES ASSUME NEW k \in Host, NEW z \in Session, Recovers(k, z)'
               PROVE  NobodyHolds(k, z)' /\ StaysSettled(k, z)'
    BY DEF RecoveryIsAlone
  <2>1. NobodyHolds(k, z) /\ StaysSettled(k, z) /\ Recovers(k, z)
    BY <1>1 DEF Effects, RecoveryIsAlone, Recovers
  <2>2. NobodyHolds(k, z)'
    BY <1>1, <2>1 DEF NobodyHolds, Holds
  <2>3. StaysSettled(k, z)'
    BY <1>1, <1>3, <2>1 DEF StaysSettled
  <2> QED BY <2>2, <2>3
<1>5. BlankHasNoStep'
  BY <1>1 DEF Effects, BlankHasNoStep, RunnerWrites, TypeOK, DataType
<1> QED BY <1>1, <1>4, <1>5 DEF Effects, OwnedHasGeneration

\* Admission, execution and release.
LEMMA EffectsExecutionStep ==
  ASSUME TypeOK, IInv, Effects, NEW h \in Host, NEW s \in Session, ExecutionStep(h, s)
  PROVE  Effects'
<1> USE DEF Mending, Executing
<1>1. CASE StartDrain(h, s)
  BY <1>1, StartOthers, FoundOthers, IdleKeeps DEF StartDrain
<1>2. CASE Check(h, s)
  <2>1. CASE Busy(h, s)
    <3>1. OthersStay(h, s) /\ FoundStays(h, s) /\ at'[h][s] \in {"idle", "claim"}
      BY <2>1, BusyOthers, BusyFound
    <3> QED BY <1>2, <3>1, IdleKeeps DEF Check
  <2>2. CASE GoTo(h, s, IF at[h][s] = "admit" THEN "acquire" ELSE "reacquire")
    <3>1. OthersStay(h, s) /\ at'[h][s] \in {"acquire", "reacquire"}
      BY <2>2, GoToOthers
    <3>2. FoundStays(h, s)
      BY <2>2, FoundOthers
    <3> QED BY <1>2, <3>1, <3>2, IdleKeeps DEF Check
  <2> QED BY <1>2, <2>1, <2>2 DEF Check
<1>3. CASE Acquire(h, s)
  <2>1. CASE (Finish(h, s) \/ Busy(h, s)) /\ UNCHANGED row
    <3>1. OthersStay(h, s) /\ FoundStays(h, s) /\ at'[h][s] \in {"idle", "claim"}
      BY <2>1, BusyOthers, BusyFound, FinishOthers, FoundOthers
    <3> QED BY <1>3, <2>1, <3>1, IdleKeeps DEF Acquire
  <2>2. CASE /\ owner[s] = None
             /\ gen' = [gen EXCEPT ![s] = NextGeneration(s)]
             /\ owner' = [owner EXCEPT ![s] = ProcOf[h]]
             /\ at' = [at EXCEPT ![h][s] = "commit"]
             /\ tok' = [tok EXCEPT ![h][s] = NextGeneration(s)]
             /\ UNCHANGED <<found, data>>
    <3>1. /\ gen[s] \in Nat /\ gen'[s] = gen[s] + 1
          /\ \A z \in Session : z # s => gen'[z] = gen[z] /\ owner'[z] = owner[z]
      BY <2>2, BoundAssumption DEF TypeOK, RowType, Gen, NextGeneration
    <3>2. /\ at'[h][s] = "commit"
          /\ \A k \in Host, z \in Session : k # h \/ z # s =>
               at'[k][z] = at[k][z] /\ tok'[k][z] = tok[k][z]
      BY <2>2 DEF TypeOK, FiberType
    <3>3. RecoveryIsAlone'
      <4> SUFFICES ASSUME NEW k \in Host, NEW z \in Session, Recovers(k, z)'
                   PROVE  NobodyHolds(k, z)' /\ StaysSettled(k, z)'
        BY DEF RecoveryIsAlone
      <4>1. at'[k][z] = at[k][z] /\ tok'[k][z] = tok[k][z] /\ (k # h \/ z # s)
        BY <3>2 DEF Recovers
      <4>2. NobodyHolds(k, z) /\ StaysSettled(k, z) /\ tok[k][z] \in Nat
        BY <4>1, BoundAssumption DEF Effects, RecoveryIsAlone, Recovers, TypeOK, FiberType, Gen
      <4>3. CASE z = s
        <5>1. tok'[k][z] <= gen'[z] /\ tok'[k][z] # gen'[z]
          BY <3>1, <4>1, <4>2, <4>3 DEF NobodyHolds
        <5>2. NobodyHolds(k, z)'
          BY <5>1 DEF NobodyHolds
        <5>3. StaysSettled(k, z)'
          BY <5>1 DEF StaysSettled
        <5> QED BY <5>2, <5>3
      <4>4. CASE z # s
        <5>1. \A g \in Host : Holds(g, z)' => Holds(g, z)
          BY <3>2, <4>4 DEF Holds
        <5> QED BY <2>2, <3>1, <4>1, <4>2, <4>4, <5>1 DEF NobodyHolds, StaysSettled
      <4> QED BY <4>3, <4>4
    <3>4. OwnedHasGeneration'
      BY <3>1 DEF Effects, OwnedHasGeneration
    <3> QED BY <2>2, <3>3, <3>4 DEF Effects, BlankHasNoStep
  <2> QED BY <1>3, <2>1, <2>2 DEF Acquire
<1>4. CASE Admit(h, s) \/ AdmitInterrupted(h, s)
  <2>1. OthersStay(h, s) /\ FoundStays(h, s) /\ at'[h][s] \in {"run", "mend", "unwind", "idle"}
    BY <1>4, GoToOthers, FinishOthers, FoundOthers DEF Admit, AdmitInterrupted
  <2>2. Holds(h, s) /\ UNCHANGED <<row, data>>
    BY <1>4 DEF Admit, AdmitInterrupted, Registered, Holds
  <2> QED BY <2>1, <2>2, IdleKeeps
<1>5. CASE RunnerWrites(h, s)
  BY <1>5, RunnerWritesKeeps
<1>6. CASE RunnerExits(h, s) \/ MendTools(h, s)
  <2>0. Holds(h, s) /\ \E place \in {"drained", "unwind"} : GoTo(h, s, place)
    BY <1>6 DEF RunnerExits, MendTools, Holds
  <2>1. OthersStay(h, s) /\ FoundStays(h, s) /\ at'[h][s] \in {"drained", "unwind"}
    BY <2>0, GoToFound
  <2> QED BY <1>6, <2>0, <2>1, IdleKeeps DEF RunnerExits, MendTools
<1>7. CASE ReleaseIfDrained(h, s) \/ Release(h, s)
  <2>0. Holds(h, s) /\ \E place \in {"run", "clear"} : GoTo(h, s, place)
    BY <1>7 DEF ReleaseIfDrained, Release, Holds
  <2>1. OthersStay(h, s) /\ FoundStays(h, s) /\ at'[h][s] \in {"run", "clear"}
    BY <2>0, GoToFound
  <2>2. UNCHANGED gen /\ \A z \in Session : owner'[z] \in {owner[z], None}
    BY <1>7, ClearsOwner DEF ReleaseIfDrained, Release, ReleaseRow
  <2> QED BY <1>7, <2>0, <2>1, <2>2, IdleKeeps DEF ReleaseIfDrained, Release
<1>8. CASE ClearActivation(h, s) \/ Retire(h, s)
  BY <1>8, FinishOthers, FoundOthers, IdleKeeps DEF ClearActivation, Retire
<1>9. CASE Interrupt(h, s)
  <2>1. CASE UNCHANGED fiber
    BY <1>9, <2>1, StillKeeps DEF Interrupt
  <2>2. CASE at[h][s] \in {"run", "drained"} /\ GoTo(h, s, "unwind")
    <3>1. OthersStay(h, s) /\ FoundStays(h, s) /\ at'[h][s] = "unwind"
      BY <2>2, GoToFound
    <3>2. Holds(h, s)
      BY <2>2 DEF Holds
    <3>3. UNCHANGED <<gen, owner, data>>
      BY <1>9 DEF Interrupt
    <3> QED BY <3>1, <3>2, <3>3, IdleKeeps
  <2>3. CASE Finish(h, s)
    BY <1>9, <2>3, FinishOthers, FoundOthers, IdleKeeps DEF Interrupt
  <2> QED BY <1>9, <2>1, <2>2, <2>3 DEF Interrupt
<1> QED BY <1>1, <1>2, <1>3, <1>4, <1>5, <1>6, <1>7, <1>8, <1>9 DEF ExecutionStep


\* Nobody holds the generation that a claim is handed out on.
LEMMA ClaimIsPast ==
  ASSUME TypeOK, IInv, NEW h \in Host, NEW s \in Session,
         \/ recOwner[s] # None
         \/ at[h][s] = "cas" /\ RowIs(s, src[h][s], tok[h][s], prev[h][s])
  PROVE  \A k \in Host : ~Holds(k, s)
<1>1. CASE recOwner[s] # None
  BY <1>1, NoHolder
<1>2. CASE recOwner[s] = None /\ at[h][s] = "cas" /\ RowIs(s, src[h][s], tok[h][s], prev[h][s])
  <2> SUFFICES ASSUME NEW k \in Host, Holds(k, s) PROVE FALSE
    OBVIOUS
  <2>1. gen[s] = tok[k][s] /\ gen[s] = tok[h][s] /\ prev[h][s] = None
    BY <1>2 DEF IInv, HolderOwnsRow, RowIs
  <2> QED BY <1>2, <2>1 DEF IInv, ClaimEvidence
<1> QED BY <1>1, <1>2

\* A claim that is handed out on the current generation.
LEMMA HandedOutKeeps ==
  ASSUME TypeOK, Effects, NEW h \in Host, NEW s \in Session, NEW o,
         Claimed(h, s, o, gen[s]), \A k \in Host : ~Holds(k, s),
         UNCHANGED <<gen, owner, data>>
  PROVE  Effects'
<1>1. /\ at'[h][s] \in {"judge", "hazard"} /\ tok'[h][s] = gen[s]
      /\ OthersStay(h, s) /\ FoundStays(h, s)
  BY DEF Claimed, OthersStay, FoundStays, TypeOK, FiberType
<1>2. \A k \in Host, z \in Session : Holds(k, z)' => Holds(k, z)
  BY <1>1 DEF OthersStay, Holds, Executing
<1>3. NobodyHolds(h, s)'
  BY <1>1, <1>2, BoundAssumption DEF NobodyHolds, TypeOK, RowType, Gen
<1>4. StaysSettled(h, s)'
  BY <1>1 DEF StaysSettled
<1> QED BY <1>1, <1>2, <1>3, <1>4, SettlingKeeps

\* Jobs that start and claims that are read, proved and laid.
LEMMA EffectsClaim ==
  ASSUME TypeOK, IInv, Effects, NEW h \in Host, NEW s \in Session,
         \/ StartSweep(h, s) \/ StartStop(h, s)
         \/ ClaimRead(h, s) \/ ClaimProve(h, s) \/ ClaimCas(h, s)
  PROVE  Effects'
<1> USE DEF Mending, Executing
<1>1. CASE StartSweep(h, s) \/ StartStop(h, s)
  <2>1. \E j \in Job, place \in {"claim", "admit"}, n \in Gen : Start(h, s, j, place, n)
    BY <1>1, BoundAssumption DEF StartSweep, StartStop, Job, TypeOK, RowType, Gen
  <2>2. OthersStay(h, s) /\ FoundStays(h, s) /\ at'[h][s] \in {"claim", "admit"}
    BY <2>1, StartOthers, FoundOthers
  <2> QED BY <1>1, <2>2, IdleKeeps DEF StartSweep, StartStop
<1>2. CASE ClaimRead(h, s)
  <2>0. UNCHANGED <<row, data>> /\ ProcOf[h] # None
    BY <1>2, HostAssumption, NoneAssumption DEF ClaimRead
  <2>1. CASE Finish(h, s)
    BY <2>0, <2>1, FinishOthers, FoundOthers, IdleKeeps
  <2>2. CASE recOwner[s] = ProcOf[h] /\ Claimed(h, s, owner[s], gen[s])
    BY <2>0, <2>2, NoHolder, HandedOutKeeps
  <2>3. CASE /\ at' = [at EXCEPT ![h][s] = "prove"]
             /\ tok' = [tok EXCEPT ![h][s] = gen[s]]
             /\ src' = [src EXCEPT ![h][s] = owner[s]]
             /\ prev' = [prev EXCEPT ![h][s] = recOwner[s]]
             /\ UNCHANGED found
    <3>1. OthersStay(h, s) /\ FoundStays(h, s) /\ at'[h][s] = "prove"
      BY <2>3 DEF OthersStay, FoundStays, TypeOK, FiberType
    <3> QED BY <2>0, <3>1, IdleKeeps
  <2> QED BY <1>2, <2>1, <2>2, <2>3 DEF ClaimRead
<1>3. CASE ClaimProve(h, s)
  <2>1. CASE GoTo(h, s, "cas")
    BY <1>3, <2>1, GoToOthers, FoundOthers, IdleKeeps DEF ClaimProve
  <2>2. CASE Finish(h, s)
    BY <1>3, <2>2, FinishOthers, FoundOthers, IdleKeeps DEF ClaimProve
  <2> QED BY <1>3, <2>1, <2>2 DEF ClaimProve
<1>4. CASE ClaimCas(h, s)
  <2>0. UNCHANGED <<gen, owner, data>> /\ at[h][s] = "cas" /\ ProcOf[h] # None
    BY <1>4, HostAssumption, NoneAssumption DEF ClaimCas
  <2>1. CASE RowIs(s, src[h][s], tok[h][s], prev[h][s]) /\ Claimed(h, s, src[h][s], tok[h][s])
    <3>1. tok[h][s] = gen[s]
      BY <2>1 DEF RowIs
    <3> QED BY <2>0, <2>1, <3>1, ClaimIsPast, HandedOutKeeps
  <2>2. CASE recOwner[s] = ProcOf[h] /\ Claimed(h, s, owner[s], gen[s])
    BY <2>0, <2>2, NoHolder, HandedOutKeeps
  <2>3. CASE Finish(h, s)
    BY <2>0, <2>3, FinishOthers, FoundOthers, IdleKeeps
  <2> QED BY <1>4, <2>1, <2>2, <2>3 DEF ClaimCas
<1> QED BY <1>1, <1>2, <1>3, <1>4

\* A recovery that goes on from place to place of its own generation.
LEMMA GoesOnKeeps ==
  ASSUME TypeOK, Effects, NEW h \in Host, NEW s \in Session, Recovers(h, s),
         OthersStay(h, s), FoundStays(h, s), UNCHANGED <<gen, owner, blank>>,
         tok'[h][s] = tok[h][s], Recovers(h, s)', ~Holds(h, s)',
         \A z \in Session : openTool'[z] => openTool[z],
         \A z \in Session : openStep'[z] \in {openStep[z], 0},
         StaysSettled(h, s)'
  PROVE  Effects'
<1>1. \A k \in Host, z \in Session : Holds(k, z)' => Holds(k, z)
  BY DEF OthersStay, Holds
<1>2. NobodyHolds(h, s)'
  BY <1>1 DEF Effects, RecoveryIsAlone, NobodyHolds
<1> QED BY <1>1, <1>2, SettlingKeeps

\* Every other step of a recovery or a Stop.
LEMMA EffectsRecoveryStep ==
  ASSUME TypeOK, IInv, Effects, NEW h \in Host, NEW s \in Session, RecoveryStep(h, s)
  PROVE  Effects'
<1> USE DEF Mending, Executing
<1>1. CASE \/ StartSweep(h, s) \/ StartStop(h, s)
           \/ ClaimRead(h, s) \/ ClaimProve(h, s) \/ ClaimCas(h, s)
  BY <1>1, EffectsClaim
<1>2. CASE AbandonClaim(h, s) \/ RecoveryGivesUp(h, s)
  BY <1>2, FinishOthers, FoundOthers, IdleKeeps DEF AbandonClaim, RecoveryGivesUp
<1>3. CASE EnterContainment(h, s)
  <2>1. CASE GoTo(h, s, "settle")
    <3>1. /\ OthersStay(h, s) /\ FoundStays(h, s)
          /\ at'[h][s] = "settle" /\ tok'[h][s] = tok[h][s]
      BY <2>1, GoToFound
    <3>2. Recovers(h, s) /\ Recovers(h, s)' /\ ~Holds(h, s)' /\ StaysSettled(h, s)'
      BY <1>3, <3>1 DEF EnterContainment, Recovers, Holds, StaysSettled
    <3> QED BY <1>3, <3>1, <3>2, GoesOnKeeps DEF EnterContainment
  <2>2. CASE Finish(h, s)
    BY <1>3, <2>2, FinishOthers, FoundOthers, IdleKeeps DEF EnterContainment
  <2> QED BY <1>3, <2>1, <2>2 DEF EnterContainment
<1>4. CASE SettleTools(h, s)
  <2>1. /\ OthersStay(h, s) /\ FoundStays(h, s)
        /\ at'[h][s] = "hazard" /\ tok'[h][s] = tok[h][s]
    BY <1>4, GoToFound DEF SettleTools
  <2>2. Recovers(h, s) /\ Recovers(h, s)' /\ ~Holds(h, s)' /\ StaysSettled(h, s)'
    BY <1>4, <2>1 DEF SettleTools, Recovers, Holds, StaysSettled
  <2>3. \A z \in Session : openTool'[z] => openTool[z]
    BY <1>4 DEF SettleTools, TypeOK, DataType
  <2> QED BY <1>4, <2>1, <2>2, <2>3, GoesOnKeeps DEF SettleTools
<1>5. CASE HazardCheck(h, s)
  <2>1. CASE GoTo(h, s, "scan") /\ ~openTool[s]
    <3>1. /\ OthersStay(h, s) /\ FoundStays(h, s)
          /\ at'[h][s] = "scan" /\ tok'[h][s] = tok[h][s]
      BY <2>1, GoToFound
    <3>2. UNCHANGED <<row, data>> /\ at[h][s] = "hazard"
      BY <1>5 DEF HazardCheck
    <3>3. Recovers(h, s) /\ Recovers(h, s)' /\ ~Holds(h, s)' /\ StaysSettled(h, s)'
      BY <2>1, <3>1, <3>2 DEF Recovers, Holds, StaysSettled
    <3> QED BY <3>1, <3>2, <3>3, GoesOnKeeps
  <2>2. CASE Finish(h, s)
    BY <1>5, <2>2, FinishOthers, FoundOthers, IdleKeeps DEF HazardCheck
  <2> QED BY <1>5, <2>1, <2>2 DEF HazardCheck
<1>6. CASE SealScan(h, s)
  <2>1. /\ OthersStay(h, s) /\ FoundStays(h, s) /\ UNCHANGED <<row, data>>
        /\ at[h][s] = "scan" /\ at'[h][s] = "seal" /\ tok'[h][s] = tok[h][s]
        /\ found'[h][s] = IF openStep[s] >= tok[h][s] THEN openStep[s] ELSE 0
    BY <1>6 DEF SealScan, OthersStay, FoundStays, TypeOK, FiberType
  <2>2. Recovers(h, s) /\ Recovers(h, s)' /\ ~Holds(h, s)'
    BY <2>1 DEF Recovers, Holds
  <2>3. StaysSettled(h, s)
    BY <2>2 DEF Effects, RecoveryIsAlone
  <2>4. gen[s] \in Nat /\ tok[h][s] \in Nat
    BY BoundAssumption DEF TypeOK, RowType, FiberType, Gen
  <2>5. StaysSettled(h, s)'
    BY <2>1, <2>3, <2>4 DEF StaysSettled
  <2> QED BY <2>1, <2>2, <2>5, GoesOnKeeps
<1>7. CASE SealPublish(h, s)
  <2>1. /\ OthersStay(h, s) /\ FoundStays(h, s)
        /\ UNCHANGED <<row, blank, openTool>>
        /\ at[h][s] = "seal" /\ at'[h][s] = "complete" /\ tok'[h][s] = tok[h][s]
        /\ openStep'[s] = IF openStep[s] = found[h][s] THEN 0 ELSE openStep[s]
        /\ \A z \in Session : openStep'[z] \in {openStep[z], 0}
    BY <1>7 DEF SealPublish, OthersStay, FoundStays, TypeOK, FiberType, DataType
  <2>2. Recovers(h, s) /\ Recovers(h, s)' /\ ~Holds(h, s)'
    BY <2>1 DEF Recovers, Holds
  <2>3. StaysSettled(h, s)
    BY <2>2 DEF Effects, RecoveryIsAlone
  <2>4. owner[s] # None => gen[s] # 0
    BY DEF Effects, OwnedHasGeneration
  <2>5. StaysSettled(h, s)'
    BY <2>1, <2>3, <2>4 DEF StaysSettled
  <2> QED BY <2>1, <2>2, <2>5, GoesOnKeeps
<1>8. CASE Complete(h, s)
  <2>1. UNCHANGED <<gen, data>> /\ \A z \in Session : owner'[z] \in {owner[z], None}
    BY <1>8, ClearsOwner DEF Complete
  <2>2. OthersStay(h, s) /\ FoundStays(h, s) /\ at'[h][s] \in {"readmit", "idle"}
    <3>1. CASE Finish(h, s)
      BY <3>1, FinishOthers, FoundOthers
    <3>2. CASE /\ at' = [at EXCEPT ![h][s] = "readmit"]
               /\ tok' = [tok EXCEPT ![h][s] = 0]
               /\ src' = [src EXCEPT ![h][s] = None]
               /\ UNCHANGED <<prev, found>>
      BY <3>2 DEF OthersStay, FoundStays, TypeOK, FiberType
    <3> QED BY <1>8, <3>1, <3>2 DEF Complete
  <2> QED BY <2>1, <2>2, IdleKeeps
<1> QED BY <1>1, <1>2, <1>3, <1>4, <1>5, <1>6, <1>7, <1>8 DEF RecoveryStep

\* Every step keeps what recoveries know of the effects.
LEMMA EffectsStep ==
  TypeOK /\ IInv /\ Effects /\ [Next]_vars => Effects'
<1> SUFFICES ASSUME TypeOK, IInv, Effects, [Next]_vars PROVE Effects'
  OBVIOUS
<1>1. ASSUME NEW s \in Session, Environment(s) PROVE Effects'
  BY <1>1, StillKeeps DEF Environment, UserAdmit, PublishGuard, ReleaseGuard
<1>2. CASE UNCHANGED vars
  BY <1>2, StillKeeps DEF vars
<1> QED BY <1>1, <1>2, EffectsProcessStep, EffectsExecutionStep, EffectsRecoveryStep DEF Next

\* They know it throughout.
LEMMA EffectsAlways == Spec => []Effects
<1>1. Init => Effects
  BY DEF Init, Effects, RecoveryIsAlone, OwnedHasGeneration, BlankHasNoStep, Recovers, Mending
<1> QED BY <1>1, EffectsStep, TypeCorrect, Invariance, PTL DEF Spec

\* Only a completed recovery, an executor or the startup sweep frees a row.
LEMMA WhoFrees ==
  ASSUME TypeOK, Next, NEW z \in Session, owner[z] # None, owner'[z] = None
  PROVE  \/ \E p \in Process : ReconcileAtStartup(p, z)
         \/ \E h \in Host : ReleaseIfDrained(h, z) \/ Release(h, z) \/ Complete(h, z)
<1>0. owner' # owner
  OBVIOUS
<1>1. ASSUME NEW p \in Process, ProcessStep(p)
      PROVE  \E s \in Session : ReconcileAtStartup(p, s) /\ z = s
  BY <1>0, <1>1 DEF ProcessStep, StartProcess, Crash, Beat, GoStale, Collect,
     ReconcileAtStartup, ClearRow, TypeOK, RowType
<1>2. ASSUME NEW h \in Host, NEW s \in Session, ExecutionStep(h, s)
      PROVE  (ReleaseIfDrained(h, s) \/ Release(h, s)) /\ z = s
  <2>1. CASE Acquire(h, s)
    BY <1>0, <2>1, HostAssumption, NoneAssumption DEF Acquire, TypeOK, RowType
  <2>2. CASE ReleaseIfDrained(h, s) \/ Release(h, s)
    BY <1>0, <2>2 DEF ReleaseIfDrained, Release, ReleaseRow, ClearRow, TypeOK, RowType
  <2>3. CASE ~Acquire(h, s) /\ ~ReleaseIfDrained(h, s) /\ ~Release(h, s)
    BY <1>0, <1>2, <2>3 DEF ExecutionStep, StartDrain, Admit, AdmitInterrupted, Registered,
       Check, RunnerWrites, RunnerExits, ClearActivation, Interrupt, MendTools, Retire
  <2> QED BY <2>1, <2>2, <2>3
<1>3. ASSUME NEW h \in Host, NEW s \in Session, RecoveryStep(h, s)
      PROVE  Complete(h, s) /\ z = s
  BY <1>0, <1>3 DEF RecoveryStep, StartSweep, StartStop, ClaimRead, ClaimProve, ClaimCas,
     AbandonClaim, EnterContainment, SettleTools, HazardCheck, SealScan, RecoveryGivesUp,
     SealPublish, Complete, ClearRow, TypeOK, RowType
<1>4. ASSUME NEW s \in Session, Environment(s) PROVE FALSE
  BY <1>0, <1>4 DEF Environment, UserAdmit, PublishGuard, ReleaseGuard
<1> QED BY <1>1, <1>2, <1>3, <1>4 DEF Next

\* Whoever frees the row of somebody else leaves no unsettled tool call and no
\* unfinished step of the generation behind.
THEOREM EffectsAreFenced == Spec => FencedEffects
<1>1. TypeOK /\ Effects /\ [Next]_vars
      => [\A s \in Session :
            owner[s] # None /\ owner'[s] = None /\ ~(\E h \in Host : Runs(h, s))
              => ~openTool[s] /\ openStep[s] # gen[s]]_vars
  <2> SUFFICES ASSUME TypeOK, Effects, [Next]_vars, NEW z \in Session,
                      owner[z] # None, owner'[z] = None, ~(\E h \in Host : Runs(h, z))
               PROVE  ~openTool[z] /\ openStep[z] # gen[z]
    OBVIOUS
  <2>0. Next
    BY DEF vars
  <2>1. ASSUME NEW p \in Process, ReconcileAtStartup(p, z)
        PROVE  ~openTool[z] /\ openStep[z] # gen[z]
    BY <2>1 DEF ReconcileAtStartup, Effects, OwnedHasGeneration, BlankHasNoStep
  <2>2. ASSUME NEW h \in Host, ReleaseIfDrained(h, z) \/ Release(h, z) PROVE FALSE
    BY <2>2 DEF ReleaseIfDrained, Release, Runs, Executing
  <2>3. ASSUME NEW h \in Host, Complete(h, z)
        PROVE  ~openTool[z] /\ openStep[z] # gen[z]
    <3>1. at[h][z] = "complete" /\ HoldsClaim(h, z)
      BY <2>3 DEF Complete
    <3>2. tok[h][z] = gen[z] /\ Recovers(h, z)
      BY <3>1 DEF HoldsClaim, RowIs, Recovers, Mending
    <3>3. StaysSettled(h, z)
      BY <3>2 DEF Effects, RecoveryIsAlone
    <3> QED BY <3>1, <3>2, <3>3 DEF StaysSettled
  <2> QED BY <2>0, <2>1, <2>2, <2>3, WhoFrees
<1> QED BY <1>1, EffectsAlways, TypeCorrect, PTL DEF Spec, FencedEffects

-----------------------------------------------------------------------------
(* Recoveries that no Stop of their own process disturbs.  A Stop is handed  *)
(* the claim of a running recovery of its own process outside the recovery   *)
(* lock, and what it abandons or completes the other one still works under:  *)
(* the facts below are about processes that serve Stops with one host or     *)
(* none.  Stops, drains and sweeps of other processes are free to interfere. *)

StopsApart ==
  \A h, k \in Host :
    ProcOf[h] = ProcOf[k] /\ "stop" \in Duty[h] /\ Duty[k] # {} => h = k

\* A recovery that was handed its claim and has not given it up.
Working == Mending \cup {"judge", "settle"}

\* What each job may be doing, and that its host has it for a duty.
JobsAreOrdinary ==
  \A h \in Host, s \in Session :
    /\ at[h][s] # "idle" => job[h][s] # "none"
    /\ job[h][s] \in {"drain", "sweep"} =>
         job[h][s] \in Duty[h] /\ at[h][s] \notin {"judge", "settle", "mend"}
    /\ job[h][s] = "stop" =>
         "stop" \in Duty[h] /\ at[h][s] \in Claiming \cup Working \cup {"claim"}
    /\ job[h][s] = "repair" =>
         "stop" \in Duty[h] /\ at[h][s] \in Admitting \cup {"mend", "unwind", "clear"}

\* Recoveries of a process run one after the other.
OneRecovery ==
  \A h, k \in Host, s \in Session :
    ProcOf[h] = ProcOf[k] /\ HoldsRecoveryLock(h, s) /\ HoldsRecoveryLock(k, s) => h = k

\* The claim a recovery works under stands until it gives it up itself.
ClaimIsKept ==
  \A h \in Host, s \in Session :
    at[h][s] \in Working => HoldsClaim(h, s) /\ src[h][s] # None

\* RetentionCovers, for the recoveries of Stops as well.
RetentionStands ==
  \A h \in Host, s \in Session :
    /\ Runs(h, s) => <<s, tok[h][s]>> \in runHeld[ProcOf[h]]
    /\ at[h][s] \in Working => <<s, tok[h][s]>> \in recHeld[ProcOf[h]]

Undisturbed == JobsAreOrdinary /\ OneRecovery /\ ClaimIsKept /\ RetentionStands

\* What a fiber of k for z knows stays.
FiberStays(k, z) ==
  /\ at'[k][z] = at[k][z] /\ job'[k][z] = job[k][z]
  /\ tok'[k][z] = tok[k][z] /\ src'[k][z] = src[k][z] /\ prev'[k][z] = prev[k][z]

\* A step of one fiber moves no other one.
LEMMA OneFiberMoves ==
  ASSUME TypeOK, NEW h \in Host, NEW s \in Session, ExecutionStep(h, s) \/ RecoveryStep(h, s),
         NEW k \in Host, NEW z \in Session, k # h \/ z # s
  PROVE  FiberStays(k, z)
<1> USE DEF TypeOK, FiberType, FiberStays
<1>1. ASSUME Finish(h, s) \/ UNCHANGED fiber PROVE FiberStays(k, z)
  BY <1>1 DEF Finish
<1>2. ASSUME NEW place, GoTo(h, s, place) PROVE FiberStays(k, z)
  BY <1>2 DEF GoTo
<1>3. ASSUME NEW o, NEW n, Claimed(h, s, o, n) PROVE FiberStays(k, z)
  BY <1>3 DEF Claimed
<1>4. CASE StartDrain(h, s) \/ StartSweep(h, s) \/ StartStop(h, s)
  BY <1>4 DEF StartDrain, StartSweep, StartStop, Start
<1>5. CASE \/ Admit(h, s) \/ AdmitInterrupted(h, s) \/ Check(h, s) \/ RunnerWrites(h, s)
           \/ RunnerExits(h, s) \/ ReleaseIfDrained(h, s) \/ Release(h, s)
           \/ ClearActivation(h, s) \/ Interrupt(h, s) \/ MendTools(h, s) \/ Retire(h, s)
  BY <1>1, <1>2, <1>5
  DEF Admit, AdmitInterrupted, Check, Busy, RunnerWrites, RunnerExits, ReleaseIfDrained,
      Release, ClearActivation, Interrupt, MendTools, Retire
<1>6. CASE Acquire(h, s)
  <2>1. CASE Finish(h, s) \/ Busy(h, s)
    BY <1>1, <1>2, <2>1 DEF Busy
  <2>2. CASE /\ at' = [at EXCEPT ![h][s] = "commit"]
             /\ tok' = [tok EXCEPT ![h][s] = NextGeneration(s)]
             /\ UNCHANGED <<job, src, prev>>
    BY <2>2
  <2> QED BY <1>6, <2>1, <2>2 DEF Acquire
<1>7. CASE ClaimRead(h, s) \/ ClaimProve(h, s) \/ ClaimCas(h, s)
  <2>1. CASE \/ Finish(h, s) \/ GoTo(h, s, "cas")
             \/ \E o \in OwnerOrNone, n \in Gen : Claimed(h, s, o, n)
    BY <1>1, <1>2, <1>3, <2>1
  <2>2. CASE /\ at' = [at EXCEPT ![h][s] = "prove"]
             /\ tok' = [tok EXCEPT ![h][s] = gen[s]]
             /\ src' = [src EXCEPT ![h][s] = owner[s]]
             /\ prev' = [prev EXCEPT ![h][s] = recOwner[s]]
             /\ UNCHANGED job
    BY <2>2
  <2> QED BY <1>7, <2>1, <2>2 DEF ClaimRead, ClaimProve, ClaimCas, RowType
<1>8. CASE \/ AbandonClaim(h, s) \/ EnterContainment(h, s) \/ SettleTools(h, s)
           \/ HazardCheck(h, s) \/ RecoveryGivesUp(h, s)
  BY <1>1, <1>2, <1>8
  DEF AbandonClaim, EnterContainment, SettleTools, HazardCheck, RecoveryGivesUp
<1>9. CASE SealScan(h, s) \/ SealPublish(h, s)
  BY <1>9 DEF SealScan, SealPublish
<1>10. CASE Complete(h, s)
  BY <1>1, <1>10 DEF Complete
<1> QED BY <1>4, <1>5, <1>6, <1>7, <1>8, <1>9, <1>10 DEF ExecutionStep, RecoveryStep

\* So a fiber stays, dies with its process, or makes a step of its own.
LEMMA OwnStep ==
  ASSUME TypeOK, [Next]_vars, NEW k \in Host, NEW z \in Session
  PROVE  \/ FiberStays(k, z)
         \/ at'[k][z] = "idle" /\ job'[k][z] = "none"
         \/ ExecutionStep(k, z) \/ RecoveryStep(k, z)
<1>1. ASSUME NEW p \in Process, ProcessStep(p)
      PROVE  FiberStays(k, z) \/ (at'[k][z] = "idle" /\ job'[k][z] = "none")
  <2>1. CASE Crash(p)
    <3>1. CASE ProcOf[k] = p
      BY <2>1, <3>1 DEF Crash
    <3>2. CASE ProcOf[k] # p
      BY <2>1, <3>2 DEF Crash, FiberStays
    <3> QED BY <3>1, <3>2
  <2>2. CASE ~Crash(p)
    BY <1>1, <2>2 DEF ProcessStep, StartProcess, Beat, GoStale, Collect, ReconcileAtStartup,
       FiberStays
  <2> QED BY <2>1, <2>2
<1>2. ASSUME NEW h \in Host, NEW s \in Session, ExecutionStep(h, s) \/ RecoveryStep(h, s)
      PROVE  FiberStays(k, z) \/ ExecutionStep(k, z) \/ RecoveryStep(k, z)
  BY <1>2, OneFiberMoves
<1>3. ASSUME NEW s \in Session, Environment(s) PROVE FiberStays(k, z)
  BY <1>3 DEF Environment, UserAdmit, PublishGuard, ReleaseGuard, FiberStays
<1>4. CASE UNCHANGED vars
  BY <1>4 DEF vars, FiberStays
<1> QED BY <1>1, <1>2, <1>3, <1>4 DEF Next

\* A job keeps to its places.
LEMMA OrdinaryStep ==
  ASSUME TypeOK, JobsAreOrdinary, [Next]_vars
  PROVE  JobsAreOrdinary'
<1> DEFINE Ordinary(place, j, h) ==
             /\ place # "idle" => j # "none"
             /\ j \in {"drain", "sweep"} =>
                  j \in Duty[h] /\ place \notin {"judge", "settle", "mend"}
             /\ j = "stop" =>
                  "stop" \in Duty[h] /\ place \in Claiming \cup Working \cup {"claim"}
             /\ j = "repair" =>
                  "stop" \in Duty[h] /\ place \in Admitting \cup {"mend", "unwind", "clear"}
<1> SUFFICES ASSUME NEW k \in Host, NEW z \in Session
             PROVE  Ordinary(at'[k][z], job'[k][z], k)
  BY DEF JobsAreOrdinary
<1>0. Ordinary(at[k][z], job[k][z], k)
  BY DEF JobsAreOrdinary
<1> USE <1>0 DEF TypeOK, FiberType, Claiming, Working, Mending, Admitting
<1>1. CASE FiberStays(k, z)
  BY <1>1 DEF FiberStays
<1>2. CASE ExecutionStep(k, z)
  <2>1. CASE Acquire(k, z) \/ Check(k, z)
    BY <2>1 DEF Acquire, Check, Busy, GoTo, Finish
  <2>2. CASE StartDrain(k, z) \/ Admit(k, z) \/ AdmitInterrupted(k, z)
    BY <2>2 DEF StartDrain, Start, MayStart, Admit, AdmitInterrupted, Registered, GoTo, Finish
  <2>3. CASE \/ RunnerWrites(k, z) \/ RunnerExits(k, z) \/ ReleaseIfDrained(k, z) \/ Release(k, z)
             \/ ClearActivation(k, z) \/ Interrupt(k, z) \/ MendTools(k, z) \/ Retire(k, z)
    <3>1. CASE RunnerWrites(k, z) \/ RunnerExits(k, z) \/ MendTools(k, z)
      BY <3>1 DEF RunnerWrites, RunnerExits, MendTools, GoTo
    <3>2. CASE ReleaseIfDrained(k, z) \/ Release(k, z)
      BY <3>2 DEF ReleaseIfDrained, Release, GoTo
    <3>3. CASE ClearActivation(k, z) \/ Retire(k, z)
      BY <3>3 DEF ClearActivation, Retire, Finish
    <3>4. CASE Interrupt(k, z)
      BY <3>4 DEF Interrupt, GoTo, Finish
    <3> QED BY <2>3, <3>1, <3>2, <3>3, <3>4
  <2> QED BY <1>2, <2>1, <2>2, <2>3 DEF ExecutionStep
<1>3. CASE RecoveryStep(k, z)
  <2>1. CASE StartSweep(k, z) \/ StartStop(k, z)
    BY <2>1 DEF StartSweep, StartStop, Start, MayStart
  <2>2. CASE ClaimRead(k, z) \/ ClaimProve(k, z) \/ ClaimCas(k, z)
    <3>1. CASE ClaimRead(k, z)
      BY <3>1 DEF ClaimRead, Claimed, GoTo, Finish
    <3>2. CASE ClaimProve(k, z)
      BY <3>2 DEF ClaimProve, GoTo, Finish
    <3>3. CASE ClaimCas(k, z)
      BY <3>3 DEF ClaimCas, Claimed, GoTo, Finish
    <3> QED BY <2>2, <3>1, <3>2, <3>3
  <2>3. CASE \/ AbandonClaim(k, z) \/ EnterContainment(k, z) \/ SettleTools(k, z)
             \/ HazardCheck(k, z) \/ RecoveryGivesUp(k, z)
    <3>1. CASE AbandonClaim(k, z) \/ RecoveryGivesUp(k, z)
      BY <3>1 DEF AbandonClaim, RecoveryGivesUp, GoTo, Finish
    <3>2. CASE EnterContainment(k, z) \/ HazardCheck(k, z)
      BY <3>2 DEF EnterContainment, HazardCheck, GoTo, Finish
    <3>3. CASE SettleTools(k, z)
      BY <3>3 DEF SettleTools, GoTo, Finish
    <3> QED BY <2>3, <3>1, <3>2, <3>3
  <2>4. CASE SealScan(k, z) \/ SealPublish(k, z) \/ Complete(k, z)
    BY <2>4 DEF SealScan, SealPublish, Complete, Finish
  <2> QED BY <1>3, <2>1, <2>2, <2>3, <2>4 DEF RecoveryStep
<1> QED BY <1>1, <1>2, <1>3, OwnStep

\* Where no Stop is served the lock of a process is taken by reading a row for a
\* claim, and kept on the way from the claim to its end.
LEMMA LockTaken ==
  ASSUME TypeOK, JobsAreOrdinary, JobsAreOrdinary', [Next]_vars, NEW k \in Host, NEW z \in Session,
         "stop" \notin Duty[k], HoldsRecoveryLock(k, z)'
  PROVE  HoldsRecoveryLock(k, z) \/ ClaimRead(k, z)
<1>0. at'[k][z] \in Claiming \cup Mending
  BY DEF HoldsRecoveryLock, JobsAreOrdinary
<1>1. at[k][z] \in Claiming \cup Mending => HoldsRecoveryLock(k, z)
  BY DEF HoldsRecoveryLock, JobsAreOrdinary, Claiming, Mending, TypeOK, FiberType, Job
<1> USE DEF TypeOK, FiberType, Claiming, Mending
<1>2. CASE FiberStays(k, z)
  BY <1>0, <1>1, <1>2 DEF FiberStays
<1>3. CASE ExecutionStep(k, z)
  <2>1. CASE Acquire(k, z) \/ Check(k, z) \/ StartDrain(k, z) \/ Admit(k, z) \/ AdmitInterrupted(k, z)
    BY <1>0, <2>1 DEF Acquire, Check, Busy, StartDrain, Start, Admit, AdmitInterrupted, GoTo, Finish
  <2>2. CASE \/ RunnerWrites(k, z) \/ RunnerExits(k, z) \/ ReleaseIfDrained(k, z) \/ Release(k, z)
             \/ ClearActivation(k, z) \/ MendTools(k, z) \/ Retire(k, z)
    BY <1>0, <2>2 DEF RunnerWrites, RunnerExits, ReleaseIfDrained, Release, ClearActivation,
       MendTools, Retire, GoTo, Finish
  <2>3. CASE Interrupt(k, z)
    BY <1>0, <1>1, <2>3 DEF Interrupt, GoTo, Finish
  <2> QED BY <1>3, <2>1, <2>2, <2>3 DEF ExecutionStep
<1>4. CASE RecoveryStep(k, z)
  <2>1. CASE StartSweep(k, z) \/ StartStop(k, z)
    BY <1>0, <2>1 DEF StartSweep, StartStop, Start
  <2>2. CASE ~StartSweep(k, z) /\ ~StartStop(k, z) /\ ~ClaimRead(k, z)
    <3>1. at[k][z] \in Claiming \cup Mending \cup {"judge", "settle"}
      BY <1>4, <2>2 DEF RecoveryStep, ClaimProve, ClaimCas, AbandonClaim, EnterContainment,
         SettleTools, HazardCheck, SealScan, RecoveryGivesUp, SealPublish, Complete
    <3>2. at[k][z] \notin {"judge", "settle"}
      BY DEF JobsAreOrdinary, Job
    <3> QED BY <1>1, <3>1, <3>2
  <2> QED BY <2>1, <2>2
<1> QED BY <1>0, <1>2, <1>3, <1>4, OwnStep

\* Reading a row ends the wait for the lock.
LEMMA ReadLeavesClaim ==
  ASSUME TypeOK, NEW h \in Host, NEW s \in Session, ClaimRead(h, s)
  PROVE  at[h][s] = "claim" /\ at'[h][s] # "claim"
BY DEF ClaimRead, Finish, Claimed, TypeOK, FiberType

\* The lock is exclusive.
LEMMA OneRecoveryStep ==
  ASSUME StopsApart, TypeOK, JobsAreOrdinary, JobsAreOrdinary', OneRecovery, [Next]_vars
  PROVE  OneRecovery'
<1> SUFFICES ASSUME NEW h \in Host, NEW k \in Host, NEW s \in Session, ProcOf[h] = ProcOf[k],
                    HoldsRecoveryLock(h, s)', HoldsRecoveryLock(k, s)', h # k
             PROVE  FALSE
  BY DEF OneRecovery
<1>0. "stop" \notin Duty[h] /\ "stop" \notin Duty[k]
  <2>1. Duty[h] # {} /\ Duty[k] # {}
    BY DEF HoldsRecoveryLock, JobsAreOrdinary
  <2> QED BY <2>1 DEF StopsApart
<1>1. ASSUME NEW g \in Host, NEW f \in Host, ProcOf[g] = ProcOf[f], g # f, ClaimRead(g, s),
             "stop" \notin Duty[g]
      PROVE  ~HoldsRecoveryLock(f, s)
  <2>1. job[g][s] # "stop"
    BY <1>1 DEF JobsAreOrdinary
  <2> QED BY <1>1, <2>1 DEF ClaimRead, RecoveryLockFree
<1>2. ~(ClaimRead(h, s) /\ ClaimRead(k, s))
  <2> SUFFICES ASSUME ClaimRead(h, s), ClaimRead(k, s) PROVE FALSE
    OBVIOUS
  <2>1. FiberStays(k, s)
    BY OneFiberMoves DEF RecoveryStep
  <2> QED BY <2>1, ReadLeavesClaim DEF FiberStays
<1>3. HoldsRecoveryLock(h, s) \/ ClaimRead(h, s)
  BY <1>0, LockTaken
<1>4. HoldsRecoveryLock(k, s) \/ ClaimRead(k, s)
  BY <1>0, LockTaken
<1> QED BY <1>0, <1>1, <1>2, <1>3, <1>4 DEF OneRecovery

\* Who may change whom a row names, or its generation or claim.
LEMMA WhoWritesRow ==
  ASSUME TypeOK, [Next]_vars, NEW z \in Session,
         ~(owner'[z] = owner[z] /\ gen'[z] = gen[z] /\ recOwner'[z] = recOwner[z])
  PROVE  \/ \E p \in Process : ReconcileAtStartup(p, z)
         \/ \E h \in Host : \/ Acquire(h, z) \/ ReleaseIfDrained(h, z) \/ Release(h, z)
                            \/ ClaimCas(h, z) \/ AbandonClaim(h, z) \/ Complete(h, z)
<1>1. ASSUME NEW p \in Process, ProcessStep(p)
      PROVE  \E s \in Session : ReconcileAtStartup(p, s) /\ z = s
  BY <1>1 DEF ProcessStep, StartProcess, Crash, Beat, GoStale, Collect,
     ReconcileAtStartup, ClearRow, TypeOK, RowType
<1>2. ASSUME NEW h \in Host, NEW s \in Session, ExecutionStep(h, s)
      PROVE  (Acquire(h, s) \/ ReleaseIfDrained(h, s) \/ Release(h, s)) /\ z = s
  BY <1>2, ExecutorWritesRow
<1>3. ASSUME NEW h \in Host, NEW s \in Session, RecoveryStep(h, s)
      PROVE  (ClaimCas(h, s) \/ AbandonClaim(h, s) \/ Complete(h, s)) /\ z = s
  BY <1>3, RecoveryWritesRow
<1>4. ASSUME NEW s \in Session, Environment(s) PROVE FALSE
  BY <1>4 DEF Environment, UserAdmit, PublishGuard, ReleaseGuard
<1>5. CASE UNCHANGED vars
  BY <1>5 DEF vars
<1> QED BY <1>1, <1>2, <1>3, <1>4, <1>5 DEF Next

\* Two recoveries of a process never work on one Session.
LEMMA WorksAlone ==
  ASSUME StopsApart, TypeOK, JobsAreOrdinary, OneRecovery, NEW h \in Host, NEW k \in Host,
         NEW z \in Session, ProcOf[h] = ProcOf[k], at[h][z] \in Working, at[k][z] \in Working
  PROVE  h = k
<1> USE DEF TypeOK, FiberType, Working, Mending
<1>1. job[h][z] \in Job /\ job[k][z] \in Job
  BY DEF JobsAreOrdinary
<1>2. Duty[h] # {} /\ Duty[k] # {}
  BY <1>1 DEF JobsAreOrdinary, Job
<1>3. CASE "stop" \in Duty[h] \/ "stop" \in Duty[k]
  BY <1>2, <1>3 DEF StopsApart
<1>4. CASE "stop" \notin Duty[h] /\ "stop" \notin Duty[k]
  <2>1. job[h][z] \in {"drain", "sweep"} /\ job[k][z] \in {"drain", "sweep"}
    BY <1>1, <1>4 DEF JobsAreOrdinary, Job
  <2>2. HoldsRecoveryLock(h, z) /\ HoldsRecoveryLock(k, z)
    BY <2>1 DEF JobsAreOrdinary, HoldsRecoveryLock
  <2> QED BY <2>2 DEF OneRecovery
<1> QED BY <1>3, <1>4

\* A claim that a recovery works under is its own to give up.
LEMMA ClaimStays ==
  ASSUME StopsApart, TypeOK, IInv, TakeoverEvidence, JobsAreOrdinary, OneRecovery, [Next]_vars,
         NEW k \in Host, NEW z \in Session, at[k][z] \in Working,
         HoldsClaim(k, z), src[k][z] # None
  PROVE  \/ owner'[z] = owner[z] /\ gen'[z] = gen[z] /\ recOwner'[z] = recOwner[z]
         \/ Complete(k, z) \/ AbandonClaim(k, z)
<1> SUFFICES ASSUME ~(owner'[z] = owner[z] /\ gen'[z] = gen[z] /\ recOwner'[z] = recOwner[z])
             PROVE  Complete(k, z) \/ AbandonClaim(k, z)
  OBVIOUS
<1>0. /\ owner[z] # None /\ recOwner[z] = ProcOf[k] /\ recOwner[z] # None
      /\ life[ProcOf[k]] = "live"
  BY HostAssumption, NoneAssumption DEF HoldsClaim, RowIs, IInv, FibersAreAlive, Working, Mending
<1>1. ASSUME NEW p \in Process, ReconcileAtStartup(p, z) PROVE FALSE
  BY <1>0, <1>1 DEF ReconcileAtStartup, DeadAndStale, DeathProofs
<1>2. ASSUME NEW h \in Host, Acquire(h, z) PROVE FALSE
  BY <1>0, <1>2, HostAssumption, NoneAssumption
  DEF Acquire
<1>3. ASSUME NEW h \in Host, ReleaseIfDrained(h, z) \/ Release(h, z) PROVE FALSE
  BY <1>0, <1>3 DEF ReleaseIfDrained, Release, ReleaseRow
<1>4. ASSUME NEW h \in Host, ClaimCas(h, z) PROVE FALSE
  <2>1. at[h][z] = "cas" /\ prev[h][z] = ProcOf[k]
    BY <1>0, <1>4 DEF ClaimCas, RowIs
  <2> QED BY <1>0, <2>1 DEF TakeoverEvidence
<1>5. ASSUME NEW h \in Host, AbandonClaim(h, z) \/ Complete(h, z) PROVE h = k
  <2>1. at[h][z] \in Working /\ HoldsClaim(h, z)
    BY <1>5 DEF AbandonClaim, Complete, TypeOK, RowType, Working, Mending
  <2>2. ProcOf[h] = ProcOf[k]
    BY <1>0, <2>1 DEF HoldsClaim, RowIs
  <2> QED BY <2>1, <2>2, WorksAlone
<1> QED BY <1>1, <1>2, <1>3, <1>4, <1>5, WhoWritesRow

\* A fiber comes to recover by being handed its claim.
LEMMA HowToMend ==
  ASSUME TypeOK, JobsAreOrdinary, [Next]_vars, NEW k \in Host, NEW z \in Session,
         at'[k][z] \in Working
  PROVE  \/ at[k][z] \in Working /\ tok'[k][z] = tok[k][z] /\ src'[k][z] = src[k][z]
         \/ ClaimRead(k, z) \/ ClaimCas(k, z)
<1> USE DEF TypeOK, FiberType, Working, Mending
<1>1. CASE FiberStays(k, z)
  BY <1>1 DEF FiberStays
<1>2. CASE ExecutionStep(k, z)
  <2>1. CASE Acquire(k, z) \/ Check(k, z) \/ StartDrain(k, z) \/ Admit(k, z) \/ AdmitInterrupted(k, z)
    BY <2>1 DEF Acquire, Check, Busy, StartDrain, Start, Admit, AdmitInterrupted, GoTo, Finish
  <2>2. CASE \/ RunnerWrites(k, z) \/ RunnerExits(k, z) \/ ReleaseIfDrained(k, z) \/ Release(k, z)
             \/ ClearActivation(k, z) \/ MendTools(k, z) \/ Retire(k, z)
    BY <2>2 DEF RunnerWrites, RunnerExits, ReleaseIfDrained, Release, ClearActivation,
       MendTools, Retire, GoTo, Finish
  <2>3. CASE Interrupt(k, z)
    BY <2>3 DEF Interrupt, GoTo, Finish
  <2> QED BY <1>2, <2>1, <2>2, <2>3 DEF ExecutionStep
<1>3. CASE RecoveryStep(k, z)
  <2>1. CASE StartSweep(k, z) \/ StartStop(k, z) \/ ClaimProve(k, z)
    BY <2>1 DEF StartSweep, StartStop, Start, ClaimProve, GoTo, Finish
  <2>2. CASE \/ AbandonClaim(k, z) \/ EnterContainment(k, z) \/ SettleTools(k, z)
             \/ HazardCheck(k, z) \/ RecoveryGivesUp(k, z)
    BY <2>2 DEF JobsAreOrdinary, AbandonClaim, EnterContainment, SettleTools, HazardCheck,
       RecoveryGivesUp, GoTo, Finish
  <2>3. CASE SealScan(k, z) \/ SealPublish(k, z)
    BY <2>3 DEF SealScan, SealPublish
  <2>4. CASE Complete(k, z)
    BY <2>4 DEF Complete, Finish
  <2> QED BY <1>3, <2>1, <2>2, <2>3, <2>4 DEF RecoveryStep
<1> QED BY <1>1, <1>2, <1>3, OwnStep

\* What a claim that was handed out looks like.
LEMMA HandedOut ==
  ASSUME TypeOK, Referenced, NEW k \in Host, NEW z \in Session,
         ClaimRead(k, z) \/ ClaimCas(k, z), at'[k][z] \in Working
  PROVE  /\ HoldsClaim(k, z)' /\ src'[k][z] # None
         /\ <<z, tok'[k][z]>> \in recHeld'[ProcOf[k]]
<1> USE DEF TypeOK, FiberType, MemoryType, RowType, Working, Mending
<1> ProcOf[k] \in Process
  BY HostAssumption
<1>1. ASSUME NEW o, NEW n, Claimed(k, z, o, n)
      PROVE  /\ tok'[k][z] = n /\ src'[k][z] = o
             /\ <<z, tok'[k][z]>> \in recHeld'[ProcOf[k]]
  <2>1. tok'[k][z] = n /\ src'[k][z] = o
    BY <1>1 DEF Claimed
  <2> QED BY <1>1, <2>1 DEF Claimed, KeepRecoveryRetention
<1>2. CASE ClaimRead(k, z)
  <2>1. owner[z] # None /\ recOwner[z] = ProcOf[k] /\ Claimed(k, z, owner[z], gen[z])
    BY <1>2 DEF ClaimRead, Finish
  <2>2. UNCHANGED row
    BY <1>2 DEF ClaimRead
  <2> QED BY <1>1, <2>1, <2>2 DEF HoldsClaim, RowIs
<1>3. CASE ClaimCas(k, z)
  <2>0. at[k][z] = "cas" /\ UNCHANGED <<gen, owner>>
    BY <1>3 DEF ClaimCas
  <2>1. src[k][z] # None
    BY <2>0 DEF Referenced, WriterIsThere, Claiming
  <2>2. CASE /\ RowIs(z, src[k][z], tok[k][z], prev[k][z])
             /\ recOwner' = [recOwner EXCEPT ![z] = ProcOf[k]]
             /\ Claimed(k, z, src[k][z], tok[k][z])
    BY <1>1, <2>0, <2>1, <2>2 DEF HoldsClaim, RowIs
  <2>3. CASE /\ owner[z] # None /\ recOwner[z] = ProcOf[k]
             /\ Claimed(k, z, owner[z], gen[z]) /\ UNCHANGED recOwner
    BY <1>1, <2>0, <2>3 DEF HoldsClaim, RowIs
  <2> QED BY <1>3, <2>2, <2>3 DEF ClaimCas, Finish
<1> QED BY <1>2, <1>3

\* Claims stand while their recoveries work.
LEMMA ClaimIsKeptStep ==
  ASSUME StopsApart, TypeOK, IInv, Referenced, TakeoverEvidence, JobsAreOrdinary, OneRecovery,
         ClaimIsKept, [Next]_vars
  PROVE  ClaimIsKept'
<1> SUFFICES ASSUME NEW k \in Host, NEW z \in Session, at'[k][z] \in Working
             PROVE  HoldsClaim(k, z)' /\ src'[k][z] # None
  BY DEF ClaimIsKept
<1>1. CASE ClaimRead(k, z) \/ ClaimCas(k, z)
  BY <1>1, HandedOut
<1>2. CASE at[k][z] \in Working /\ tok'[k][z] = tok[k][z] /\ src'[k][z] = src[k][z]
  <2>1. HoldsClaim(k, z) /\ src[k][z] # None
    BY <1>2 DEF ClaimIsKept
  <2>2. ~Complete(k, z) /\ ~AbandonClaim(k, z)
    BY DEF Complete, AbandonClaim, Finish, TypeOK, FiberType, Working, Mending
  <2>3. owner'[z] = owner[z] /\ gen'[z] = gen[z] /\ recOwner'[z] = recOwner[z]
    BY <1>2, <2>1, <2>2, ClaimStays
  <2> QED BY <1>2, <2>1, <2>3 DEF HoldsClaim, RowIs
<1> QED BY <1>1, <1>2, HowToMend

\* A fiber takes a generation by acquiring it, runs under one that it registered, and
\* is about to lay a claim that it proved; otherwise it is where it was, with its token.
LEMMA WhereFibersGo ==
  ASSUME TypeOK, [Next]_vars, NEW k \in Host, NEW z \in Session
  PROVE  /\ at'[k][z] = "commit" =>
              \/ at[k][z] = "commit" /\ tok'[k][z] = tok[k][z]
              \/ Acquire(k, z)
         /\ at'[k][z] = "cas" =>
              \/ at[k][z] = "cas" /\ tok'[k][z] = tok[k][z] /\ prev'[k][z] = prev[k][z]
              \/ ClaimProve(k, z)
         /\ at'[k][z] \in Executing =>
              \/ at[k][z] \in Executing /\ tok'[k][z] = tok[k][z]
              \/ Admit(k, z)
<1> USE DEF TypeOK, FiberType, Executing
<1>1. CASE FiberStays(k, z)
  BY <1>1 DEF FiberStays
<1>2. CASE ExecutionStep(k, z)
  <2>1. CASE StartDrain(k, z)
    BY <2>1 DEF StartDrain, Start
  <2>2. CASE Check(k, z)
    BY <2>2 DEF Check, Busy, GoTo, Finish
  <2>3. CASE Admit(k, z)
    BY <2>3 DEF Admit, GoTo
  <2>4. CASE AdmitInterrupted(k, z)
    BY <2>4 DEF AdmitInterrupted, Finish
  <2>5. CASE RunnerWrites(k, z) \/ RunnerExits(k, z) \/ MendTools(k, z)
    BY <2>5 DEF RunnerWrites, RunnerExits, MendTools, GoTo
  <2>6. CASE ReleaseIfDrained(k, z) \/ Release(k, z)
    BY <2>6 DEF ReleaseIfDrained, Release, GoTo
  <2>7. CASE ClearActivation(k, z) \/ Retire(k, z)
    BY <2>7 DEF ClearActivation, Retire, Finish
  <2>8. CASE Interrupt(k, z)
    BY <2>8 DEF Interrupt, GoTo, Finish
  <2>9. CASE Acquire(k, z)
    BY <2>9 DEF Acquire, Busy, GoTo, Finish
  <2> QED BY <1>2, <2>1, <2>2, <2>3, <2>4, <2>5, <2>6, <2>7, <2>8, <2>9 DEF ExecutionStep
<1>3. CASE RecoveryStep(k, z)
  <2>1. CASE StartSweep(k, z) \/ StartStop(k, z)
    BY <2>1 DEF StartSweep, StartStop, Start
  <2>2. CASE ClaimRead(k, z)
    BY <2>2 DEF ClaimRead, Claimed, GoTo, Finish
  <2>3. CASE ClaimProve(k, z)
    BY <2>3 DEF ClaimProve, GoTo, Finish
  <2>4. CASE ClaimCas(k, z)
    BY <2>4 DEF ClaimCas, Claimed, GoTo, Finish
  <2>5. CASE AbandonClaim(k, z) \/ RecoveryGivesUp(k, z)
    BY <2>5 DEF AbandonClaim, RecoveryGivesUp, GoTo, Finish
  <2>6. CASE EnterContainment(k, z) \/ HazardCheck(k, z)
    BY <2>6 DEF EnterContainment, HazardCheck, GoTo, Finish
  <2>7. CASE SettleTools(k, z)
    BY <2>7 DEF SettleTools, GoTo
  <2>8. CASE SealScan(k, z) \/ SealPublish(k, z)
    BY <2>8 DEF SealScan, SealPublish, GoTo, Finish
  <2>9. CASE Complete(k, z)
    BY <2>9 DEF Complete, GoTo, Finish
  <2> QED BY <1>3, <2>1, <2>2, <2>3, <2>4, <2>5, <2>6, <2>7, <2>8, <2>9 DEF RecoveryStep
<1> QED BY <1>1, <1>2, <1>3, OwnStep

\* A fiber runs after it was admitted.
LEMMA HowToRun ==
  ASSUME TypeOK, [Next]_vars, NEW k \in Host, NEW z \in Session, Runs(k, z)'
  PROVE  \/ Runs(k, z) /\ tok'[k][z] = tok[k][z] /\ ~ClearActivation(k, z)
         \/ Admit(k, z)
<1>1. ~ClearActivation(k, z)
  BY DEF ClearActivation, Finish, Runs, Executing, TypeOK, FiberType
<1> QED BY <1>1, WhereFibersGo DEF Runs

\* What process p retains for generation n of z stays, or is dropped by a step.
Retains(p, z, n) ==
  /\ <<z, n>> \in runHeld[p] => <<z, n>> \in runHeld'[p]
  /\ <<z, n>> \in recHeld[p] => <<z, n>> \in recHeld'[p]

Clears(p, z, n) ==
  \E h \in Host : ProcOf[h] = p /\ ClearActivation(h, z) /\ tok[h][z] = n

Ends(p, z, n) ==
  \E h \in Host : ProcOf[h] = p /\ tok[h][z] = n /\ (AbandonClaim(h, z) \/ Complete(h, z))

\* What a process retains it gives up generation by generation, or in death.
LEMMA WhoGivesUp ==
  ASSUME TypeOK, [Next]_vars, NEW p \in Process, NEW z \in Session, NEW n
  PROVE  \/ Retains(p, z, n)
         \/ life'[p] = "dead"
         \/ Clears(p, z, n) /\ recHeld' = recHeld
         \/ Ends(p, z, n) /\ runHeld' = runHeld
<1> USE DEF MemoryType
<1>1. ASSUME NEW q \in Process, ProcessStep(q) PROVE Retains(p, z, n) \/ life'[p] = "dead"
  <2>1. CASE Crash(q)
    BY <2>1 DEF TypeOK, Crash, Retains
  <2>2. CASE ~Crash(q)
    BY <1>1, <2>2 DEF Retains, ProcessStep, StartProcess, Beat, GoStale, Collect, ReconcileAtStartup
  <2> QED BY <2>1, <2>2
<1>2. ASSUME NEW h \in Host, NEW s \in Session, ExecutionStep(h, s)
      PROVE  Retains(p, z, n) \/ (Clears(p, z, n) /\ recHeld' = recHeld)
  <2>1. CASE Admit(h, s) \/ AdmitInterrupted(h, s)
    BY <2>1 DEF TypeOK, Retains, Admit, AdmitInterrupted, Registered
  <2>2. CASE ClearActivation(h, s)
    BY <2>2 DEF TypeOK, Clears, Ends, Retains, ClearActivation
  <2>3. CASE ~Admit(h, s) /\ ~AdmitInterrupted(h, s) /\ ~ClearActivation(h, s)
    BY <1>2, <2>3 DEF Retains, ExecutionStep, StartDrain, Check, Acquire, RunnerWrites, RunnerExits,
       ReleaseIfDrained, Release, Interrupt, MendTools, Retire
  <2> QED BY <2>1, <2>2, <2>3
<1>3. ASSUME NEW h \in Host, NEW s \in Session, RecoveryStep(h, s)
      PROVE  Retains(p, z, n) \/ (Ends(p, z, n) /\ runHeld' = runHeld)
  <2>1. CASE AbandonClaim(h, s) \/ Complete(h, s)
    <3>1. CASE AbandonClaim(h, s)
      BY <3>1 DEF TypeOK, Clears, Ends, Retains, AbandonClaim, DropRecoveryRetention
    <3>2. CASE Complete(h, s)
      BY <3>2 DEF TypeOK, Clears, Ends, Retains, Complete, DropRecoveryRetention
    <3> QED BY <2>1, <3>1, <3>2
  <2>2. CASE ClaimRead(h, s) \/ ClaimCas(h, s)
    <3>1. CASE ClaimRead(h, s)
      BY <3>1 DEF TypeOK, Retains, ClaimRead, Claimed, KeepRecoveryRetention
    <3>2. CASE ClaimCas(h, s)
      BY <3>2 DEF TypeOK, Clears, Ends, Retains, ClaimCas, Claimed, KeepRecoveryRetention
    <3> QED BY <2>2, <3>1, <3>2
  <2>3. CASE \/ StartSweep(h, s) \/ StartStop(h, s) \/ ClaimProve(h, s) \/ EnterContainment(h, s)
             \/ SettleTools(h, s) \/ HazardCheck(h, s) \/ SealScan(h, s)
             \/ RecoveryGivesUp(h, s) \/ SealPublish(h, s)
    BY <2>3 DEF Retains, StartSweep, StartStop, ClaimProve, EnterContainment, SettleTools, HazardCheck,
       SealScan, RecoveryGivesUp, SealPublish
  <2> QED BY <1>3, <2>1, <2>2, <2>3 DEF RecoveryStep
<1>4. ASSUME NEW s \in Session, Environment(s) PROVE Retains(p, z, n)
  BY <1>4 DEF Retains, Environment, UserAdmit, PublishGuard, ReleaseGuard
<1>5. CASE UNCHANGED vars
  BY <1>5 DEF Retains, vars
<1> QED BY <1>1, <1>2, <1>3, <1>4, <1>5 DEF Next

\* Retentions cover what is under way.
LEMMA RetentionStep ==
  ASSUME StopsApart, TypeOK, IInv, IInv', Referenced, JobsAreOrdinary, OneRecovery,
         RetentionStands, [Next]_vars
  PROVE  RetentionStands'
<1> USE DEF TypeOK
<1>1. ASSUME NEW k \in Host, NEW z \in Session, Runs(k, z)'
      PROVE  <<z, tok'[k][z]>> \in runHeld'[ProcOf[k]]
  <2>0. ProcOf[k] \in Process /\ life'[ProcOf[k]] = "live"
    BY <1>1, HostAssumption DEF IInv, FibersAreAlive, Runs, Executing
  <2>1. CASE Admit(k, z)
    <3>1. tok' = tok
      BY <2>1 DEF Admit, GoTo
    <3> QED BY <2>0, <2>1, <3>1 DEF Admit, Registered, MemoryType
  <2>2. CASE Runs(k, z) /\ tok'[k][z] = tok[k][z] /\ ~ClearActivation(k, z)
    <3>1. <<z, tok[k][z]>> \in runHeld[ProcOf[k]]
      BY <2>2 DEF RetentionStands
    <3>2. ASSUME NEW h \in Host, ClearActivation(h, z), tok[h][z] = tok[k][z] PROVE FALSE
      <4>1. owner[z] = ProcOf[k] /\ gen[z] = tok[k][z] /\ ProcOf[k] # None
        BY <2>0, <2>2, NoneAssumption DEF IInv, HolderOwnsRow, Holds, Runs, RowIs
      <4>2. tok[h][z] < gen[z] \/ owner[z] = None
        BY <3>2 DEF ClearActivation, IInv, ClearedTokenIsPast
      <4>3. gen[z] \in Nat
        BY BoundAssumption DEF RowType, Gen
      <4> QED BY <3>2, <4>1, <4>2, <4>3
    <3> QED BY <2>0, <2>2, <3>1, <3>2, WhoGivesUp DEF Retains, Clears
  <2> QED BY <1>1, <2>1, <2>2, HowToRun
<1>2. ASSUME NEW k \in Host, NEW z \in Session, at'[k][z] \in Working
      PROVE  <<z, tok'[k][z]>> \in recHeld'[ProcOf[k]]
  <2>0. ProcOf[k] \in Process /\ life'[ProcOf[k]] = "live"
    BY <1>2, HostAssumption DEF IInv, FibersAreAlive, Working, Mending
  <2>1. CASE ClaimRead(k, z) \/ ClaimCas(k, z)
    BY <1>2, <2>1, HandedOut
  <2>2. CASE at[k][z] \in Working /\ tok'[k][z] = tok[k][z]
    <3>1. <<z, tok[k][z]>> \in recHeld[ProcOf[k]]
      BY <2>2 DEF RetentionStands
    <3>2. ASSUME NEW h \in Host, AbandonClaim(h, z) \/ Complete(h, z), ProcOf[h] = ProcOf[k]
          PROVE  FALSE
      <4>1. at[h][z] \in Working
        BY <3>2 DEF AbandonClaim, Complete, Working, Mending
      <4>2. h = k
        BY <2>2, <3>2, <4>1, WorksAlone
      <4> QED BY <1>2, <3>2, <4>2 DEF AbandonClaim, Complete, Finish, FiberType, Working, Mending
    <3> QED BY <2>0, <2>2, <3>1, <3>2, WhoGivesUp DEF Retains, Ends
  <2> QED BY <1>2, <2>1, <2>2, HowToMend
<1>3. \A k \in Host, z \in Session :
        Runs(k, z)' => <<z, tok'[k][z]>> \in runHeld'[ProcOf[k]]
  BY <1>1
<1>4. \A k \in Host, z \in Session :
        at'[k][z] \in Working => <<z, tok'[k][z]>> \in recHeld'[ProcOf[k]]
  BY <1>2
<1> QED BY <1>3, <1>4, Zenon DEF RetentionStands

\* Nothing disturbs a recovery where Stops are apart.
LEMMA UndisturbedAlways ==
  ASSUME StopsApart
  PROVE  Spec => []Undisturbed
<1>1. Init => Undisturbed
  BY DEF Init, Undisturbed, JobsAreOrdinary, OneRecovery, ClaimIsKept, RetentionStands,
     HoldsRecoveryLock, Runs, Executing, Working, Mending, Claiming
<1>2. /\ TypeOK /\ IInv /\ IInv' /\ Referenced /\ TakeoverEvidence
      /\ Undisturbed /\ [Next]_vars
      => Undisturbed'
  <2> SUFFICES ASSUME TypeOK, IInv, IInv', Referenced, TakeoverEvidence, Undisturbed, [Next]_vars
               PROVE  Undisturbed'
    OBVIOUS
  <2>1. JobsAreOrdinary'
    BY OrdinaryStep DEF Undisturbed
  <2>2. OneRecovery'
    BY <2>1, OneRecoveryStep DEF Undisturbed
  <2>3. ClaimIsKept'
    BY ClaimIsKeptStep DEF Undisturbed
  <2>4. RetentionStands'
    BY RetentionStep DEF Undisturbed
  <2> QED BY <2>1, <2>2, <2>3, <2>4 DEF Undisturbed
<1> QED BY <1>1, <1>2, ReferencedAlways, TypeCorrect, Invariance, PTL DEF Spec

\* Where a process serves Stops with one host or none, its heartbeat covers every
\* execution and every recovery until it is over: nobody takes a working process
\* for one that is gone because a second job dropped its retention.
THEOREM RetainedThroughout ==
  ASSUME StopsApart
  PROVE  Spec => []RetentionCovers
<1>1. Undisturbed => RetentionCovers
  BY DEF Undisturbed, RetentionStands, RetentionCovers, Working
<1> QED BY <1>1, UndisturbedAlways, PTL

\* And the step that a recovery found and is about to settle does not belong
\* to a running executor.
THEOREM SealsAreOfTheDead ==
  ASSUME StopsApart
  PROVE  Spec => []SealTouchesOnlyDeadGeneration
<1>1. TypeOK /\ IInv /\ Undisturbed => SealTouchesOnlyDeadGeneration
  <2> SUFFICES ASSUME TypeOK, IInv, Undisturbed, NEW h \in Host, NEW k \in Host, NEW s \in Session,
                      at[h][s] = "seal", Runs(k, s)
               PROVE  FALSE
    BY DEF SealTouchesOnlyDeadGeneration
  <2>1. recOwner[s] = ProcOf[h] /\ ProcOf[h] # None
    BY HostAssumption, NoneAssumption DEF Undisturbed, ClaimIsKept, HoldsClaim, RowIs, Working, Mending
  <2> QED BY <2>1, NoHolder DEF Holds, Runs
<1> QED BY <1>1, UndisturbedAlways, TypeCorrect, Invariance, PTL
=============================================================================
