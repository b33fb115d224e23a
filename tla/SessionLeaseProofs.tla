-------------------------- MODULE SessionLeaseProofs --------------------------
(***************************************************************************)
(* Execution ownership implements the lease of SessionLease, for any       *)
(* number of Sessions, processes, hosts and generations, with crashes,     *)
(* recoveries, interrupts and the operator's Stop: every step of the       *)
(* database, of a process or of a fiber is a step of the lease or leaves   *)
(* it as it is.                                                            *)
(***************************************************************************)
EXTENDS SessionRecoveryProofs

USE DEF row, data, runtime, memory, fiber

\* A process that does not live has no activations.
DeadAreInactive ==
  \A p \in Process, s \in Session : life[p] # "live" => activation[p][s] = 0

\* Nobody answers for a generation that is claimed.
ClaimedIsSilent == \A s \in Session : recOwner[s] # None => ~Answered(s)

\* Nor for one whose claim is about to be laid on evidence about its owner.
ProvedIsSilent ==
  \A h \in Host, s \in Session :
    at[h][s] = "cas" /\ prev[h][s] = None /\ tok[h][s] = gen[s] /\ owner[s] # None
      => ~Answered(s)

Silent == DeadAreInactive /\ ClaimedIsSilent /\ ProvedIsSilent

-----------------------------------------------------------------------------
(* Who answers for a generation.                                             *)

\* A recovery registers no execution and ends no process.
LEMMA RecoveryStaysOut ==
  ASSUME NEW h \in Host, NEW s \in Session, RecoveryStep(h, s)
  PROVE  activation' = activation /\ life' = life
<1>1. CASE StartSweep(h, s) \/ StartStop(h, s)
  BY <1>1 DEF StartSweep, StartStop
<1>2. CASE ClaimRead(h, s)
  BY <1>2 DEF ClaimRead, Claimed
<1>3. CASE ClaimProve(h, s) \/ EnterContainment(h, s) \/ SettleTools(h, s)
  BY <1>3 DEF ClaimProve, EnterContainment, SettleTools
<1>4. CASE ClaimCas(h, s)
  BY <1>4 DEF ClaimCas, Claimed
<1>5. CASE AbandonClaim(h, s) \/ Complete(h, s)
  BY <1>5 DEF AbandonClaim, Complete
<1>6. CASE HazardCheck(h, s) \/ SealScan(h, s) \/ RecoveryGivesUp(h, s) \/ SealPublish(h, s)
  BY <1>6 DEF HazardCheck, SealScan, RecoveryGivesUp, SealPublish
<1> QED BY <1>1, <1>2, <1>3, <1>4, <1>5, <1>6 DEF RecoveryStep

\* A step for one Session leaves the lease of another one alone.
LEMMA OneSessionMoves ==
  ASSUME TypeOK, NEW h \in Host, NEW s \in Session, ExecutionStep(h, s) \/ RecoveryStep(h, s),
         NEW z \in Session, z # s
  PROVE  \A p \in Process : activation'[p][z] = activation[p][z]
<1> USE DEF TypeOK, MemoryType
<1>1. CASE Admit(h, s) \/ AdmitInterrupted(h, s)
  BY <1>1 DEF Admit, AdmitInterrupted, Registered
<1>2. CASE ClearActivation(h, s) \/ Retire(h, s)
  BY <1>2 DEF ClearActivation, Retire
<1>3. CASE StartDrain(h, s) \/ Check(h, s) \/ Acquire(h, s) \/ RunnerWrites(h, s)
  BY <1>3 DEF StartDrain, Check, Acquire, RunnerWrites
<1>4. CASE \/ RunnerExits(h, s) \/ ReleaseIfDrained(h, s) \/ Release(h, s)
           \/ Interrupt(h, s) \/ MendTools(h, s)
  BY <1>4 DEF RunnerExits, ReleaseIfDrained, Release, Interrupt, MendTools
<1>5. CASE RecoveryStep(h, s)
  BY <1>5, RecoveryStaysOut
<1> QED BY <1>1, <1>2, <1>3, <1>4, <1>5 DEF ExecutionStep

\* An activation is set by the fiber that was admitted.
LEMMA HowToActivate ==
  ASSUME TypeOK, [Next]_vars, NEW p \in Process, NEW z \in Session
  PROVE  \/ activation'[p][z] \in {activation[p][z], 0}
         \/ \E h \in Host : /\ ProcOf[h] = p /\ at[h][z] = "commit"
                            /\ activation'[p][z] = tok[h][z]
<1> USE DEF TypeOK, MemoryType
<1>1. ASSUME NEW q \in Process, ProcessStep(q) PROVE activation'[p][z] \in {activation[p][z], 0}
  <2>1. CASE Crash(q)
    BY <2>1 DEF Crash
  <2>2. CASE ~Crash(q)
    BY <1>1, <2>2 DEF ProcessStep, StartProcess, Beat, GoStale, Collect, ReconcileAtStartup
  <2> QED BY <2>1, <2>2
<1>2. ASSUME NEW h \in Host, NEW s \in Session, ExecutionStep(h, s)
      PROVE  \/ activation'[p][z] \in {activation[p][z], 0}
             \/ /\ ProcOf[h] = p /\ at[h][z] = "commit"
                /\ activation'[p][z] = tok[h][z]
  <2>1. CASE Admit(h, s) \/ AdmitInterrupted(h, s)
    <3>1. Registered(h, s)
      BY <2>1 DEF Admit, AdmitInterrupted
    <3>2. CASE ProcOf[h] = p /\ s = z
      BY <3>1, <3>2 DEF Registered
    <3>3. CASE ~(ProcOf[h] = p /\ s = z)
      BY <3>1, <3>3 DEF Registered
    <3> QED BY <3>2, <3>3
  <2>2. CASE ClearActivation(h, s) \/ Retire(h, s)
    BY <2>2 DEF ClearActivation, Retire
  <2>3. CASE ~Admit(h, s) /\ ~AdmitInterrupted(h, s) /\ ~ClearActivation(h, s) /\ ~Retire(h, s)
    BY <1>2, <2>3 DEF ExecutionStep, StartDrain, Check, Acquire, RunnerWrites, RunnerExits,
       ReleaseIfDrained, Release, Interrupt, MendTools
  <2> QED BY <2>1, <2>2, <2>3
<1>3. ASSUME NEW h \in Host, NEW s \in Session, RecoveryStep(h, s) PROVE activation' = activation
  BY <1>3, RecoveryStaysOut
<1>4. ASSUME NEW s \in Session, Environment(s) PROVE activation' = activation
  BY <1>4 DEF Environment, UserAdmit, PublishGuard, ReleaseGuard
<1>5. CASE UNCHANGED vars
  BY <1>5 DEF vars
<1> QED BY <1>1, <1>2, <1>3, <1>4, <1>5 DEF Next

\* A fiber is admitted by taking a new generation.
LEMMA HowToCommit ==
  ASSUME TypeOK, [Next]_vars, NEW k \in Host, NEW z \in Session, at'[k][z] = "commit"
  PROVE  \/ at[k][z] = "commit" /\ tok'[k][z] = tok[k][z]
         \/ Acquire(k, z)
BY WhereFibersGo

\* Nobody begins to answer for a generation that is there already.
LEMMA NobodyBeginsToAnswer ==
  ASSUME TypeOK, IInv, [Next]_vars, NEW z \in Session,
         owner'[z] = owner[z], gen'[z] = gen[z], Answered(z)'
  PROVE  Answered(z)
<1>0. gen[z] \in Nat
  BY BoundAssumption DEF TypeOK, RowType, Gen
<1>1. CASE \E k \in Host : at'[k][z] = "commit" /\ owner'[z] = ProcOf[k] /\ tok'[k][z] = gen'[z]
  <2>1. PICK k \in Host : at'[k][z] = "commit" /\ owner'[z] = ProcOf[k] /\ tok'[k][z] = gen'[z]
    BY <1>1
  <2>2. ~Acquire(k, z)
    <3> SUFFICES ASSUME Acquire(k, z) PROVE FALSE
      OBVIOUS
    <3>1. gen' = [gen EXCEPT ![z] = NextGeneration(z)]
      BY <2>1 DEF Acquire, Busy, GoTo, Finish, TypeOK, FiberType
    <3> QED BY <1>0, <3>1 DEF NextGeneration, TypeOK, RowType
  <2> QED BY <2>1, <2>2, HowToCommit DEF Answered
<1>2. CASE \E p \in Process : owner'[z] = p /\ ActiveHere(p, z, gen[z])'
  <2>1. PICK p \in Process : owner[z] = p /\ gen[z] # 0 /\ activation'[p][z] = gen[z]
    BY <1>2 DEF ActiveHere
  <2>2. CASE activation'[p][z] \in {activation[p][z], 0}
    BY <2>1, <2>2 DEF Answered, ActiveHere
  <2>3. CASE \E h \in Host : /\ ProcOf[h] = p /\ at[h][z] = "commit"
                             /\ activation'[p][z] = tok[h][z]
    BY <2>1, <2>3 DEF Answered
  <2> QED BY <2>2, <2>3, HowToActivate
<1> QED BY <1>1, <1>2 DEF Answered, ActiveHere

-----------------------------------------------------------------------------
(* Silence.                                                                  *)

\* A generation keeps its owner until it is freed, and the next one is new.
LEMMA GenerationMoves ==
  ASSUME TypeOK, IInv, [Next]_vars, NEW z \in Session
  PROVE  \/ gen'[z] = gen[z] /\ owner'[z] \in {owner[z], None}
         \/ gen'[z] = gen[z] + 1 /\ recOwner'[z] = None
<1> SUFFICES ASSUME ~(owner'[z] = owner[z] /\ gen'[z] = gen[z] /\ recOwner'[z] = recOwner[z])
             PROVE  \/ gen'[z] = gen[z] /\ owner'[z] \in {owner[z], None}
                    \/ gen'[z] = gen[z] + 1 /\ recOwner'[z] = None
  OBVIOUS
<1> USE DEF TypeOK, RowType
<1>1. ASSUME NEW p \in Process, ReconcileAtStartup(p, z)
      PROVE  gen'[z] = gen[z] /\ owner'[z] = None
  BY <1>1 DEF ReconcileAtStartup, ClearRow
<1>2. ASSUME NEW h \in Host, Acquire(h, z)
      PROVE  gen'[z] = gen[z] + 1 /\ recOwner'[z] = None
  BY <1>2 DEF Acquire, NextGeneration
<1>3. ASSUME NEW h \in Host,
             \/ ReleaseIfDrained(h, z) \/ Release(h, z)
             \/ ClaimCas(h, z) \/ AbandonClaim(h, z) \/ Complete(h, z)
      PROVE  gen'[z] = gen[z] /\ owner'[z] \in {owner[z], None}
  BY <1>3 DEF ReleaseIfDrained, Release, ReleaseRow, ClearRow, ClaimCas, AbandonClaim, Complete
<1> QED BY <1>1, <1>2, <1>3, WhoWritesRow

\* A fiber is about to lay its claim after it has proved it.
LEMMA HowToClaim ==
  ASSUME TypeOK, [Next]_vars, NEW k \in Host, NEW z \in Session, at'[k][z] = "cas"
  PROVE  \/ at[k][z] = "cas" /\ tok'[k][z] = tok[k][z] /\ prev'[k][z] = prev[k][z]
         \/ ClaimProve(k, z)
BY WhereFibersGo

\* The evidence about an owner: it does not answer for what was read.
LEMMA EvidenceIsSilence ==
  ASSUME TypeOK, IInv, DeadAreInactive, NEW h \in Host, NEW s \in Session,
         at[h][s] = "prove", prev[h][s] = None, tok[h][s] = gen[s], owner[s] # None,
         \/ LocalExecutionGone(h, s)
         \/ MayJudge(h, s) /\ "dead" \in DeathProofs(Suspect(h, s))
  PROVE  ~Answered(s)
<1>1. owner[s] = src[h][s]
  BY DEF IInv, SeenRowIsPast, Claiming
<1>2. ASSUME NEW k \in Host, at[k][s] = "commit", tok[k][s] = gen[s] PROVE FALSE
  BY <1>2, EvidenceExcludesHolders DEF Holds
<1>3. ASSUME NEW p \in Process, owner[s] = p, ActiveHere(p, s, gen[s]) PROVE FALSE
  <2>1. CASE LocalExecutionGone(h, s)
    BY <1>1, <1>3, <2>1 DEF LocalExecutionGone
  <2>2. CASE "dead" \in DeathProofs(Suspect(h, s))
    <3>1. life[p] # "live"
      BY <1>1, <1>3, <2>2 DEF Suspect, DeathProofs
    <3> QED BY <1>3, <3>1 DEF DeadAreInactive, ActiveHere
  <2> QED BY <2>1, <2>2
<1> QED BY <1>2, <1>3 DEF Answered

\* Processes die once.
LEMMA LifeMoves ==
  ASSUME TypeOK, [Next]_vars, NEW p \in Process, life'[p] # "live"
  PROVE  life[p] # "live" \/ \A z \in Session : activation'[p][z] = 0
<1> USE DEF TypeOK, MemoryType
<1>1. ASSUME NEW q \in Process, ProcessStep(q)
      PROVE  life[p] # "live" \/ \A z \in Session : activation'[p][z] = 0
  <2>1. CASE Crash(q)
    BY <2>1 DEF Crash
  <2>2. CASE ~Crash(q)
    BY <1>1, <2>2 DEF ProcessStep, StartProcess, Beat, GoStale, Collect, ReconcileAtStartup
  <2> QED BY <2>1, <2>2
<1>2. ASSUME NEW h \in Host, NEW s \in Session, ExecutionStep(h, s) PROVE life' = life
  <2>1. CASE Admit(h, s) \/ AdmitInterrupted(h, s) \/ ClearActivation(h, s) \/ Retire(h, s)
    BY <2>1 DEF Admit, AdmitInterrupted, Registered, ClearActivation, Retire
  <2>2. CASE StartDrain(h, s) \/ Check(h, s) \/ Acquire(h, s) \/ RunnerWrites(h, s)
    BY <2>2 DEF StartDrain, Check, Acquire, RunnerWrites
  <2>3. CASE \/ RunnerExits(h, s) \/ ReleaseIfDrained(h, s) \/ Release(h, s)
             \/ Interrupt(h, s) \/ MendTools(h, s)
    BY <2>3 DEF RunnerExits, ReleaseIfDrained, Release, Interrupt, MendTools
  <2> QED BY <1>2, <2>1, <2>2, <2>3 DEF ExecutionStep
<1>3. ASSUME NEW h \in Host, NEW s \in Session, RecoveryStep(h, s) PROVE life' = life
  BY <1>3, RecoveryStaysOut
<1>4. ASSUME NEW s \in Session, Environment(s) PROVE life' = life
  BY <1>4 DEF Environment, UserAdmit, PublishGuard, ReleaseGuard
<1>5. CASE UNCHANGED vars
  BY <1>5 DEF vars
<1> QED BY <1>1, <1>2, <1>3, <1>4, <1>5 DEF Next

\* The dead stay inactive.
LEMMA DeadStep ==
  ASSUME TypeOK, IInv, DeadAreInactive, [Next]_vars
  PROVE  DeadAreInactive'
<1> SUFFICES ASSUME NEW p \in Process, NEW z \in Session, life'[p] # "live"
             PROVE  activation'[p][z] = 0
  BY DEF DeadAreInactive
<1>1. CASE life[p] # "live"
  <2>1. activation[p][z] = 0
    BY <1>1 DEF DeadAreInactive
  <2>2. \A h \in Host : ProcOf[h] = p => at[h][z] = "idle"
    BY <1>1 DEF IInv, FibersAreAlive
  <2> QED BY <2>1, <2>2, HowToActivate
<1> QED BY <1>1, LifeMoves

\* A claim is laid on a generation nobody answers for.
LEMMA ClaimIsLaidInSilence ==
  ASSUME IInv, Silent, NEW h \in Host, NEW s \in Session,
         at[h][s] = "cas", RowIs(s, src[h][s], tok[h][s], prev[h][s]), owner[s] # None
  PROVE  ~Answered(s)
BY DEF Silent, ClaimedIsSilent, ProvedIsSilent, RowIs

\* Silence stays silence.
LEMMA SilentStep ==
  TypeOK /\ IInv /\ Referenced /\ Silent /\ [Next]_vars => Silent'
<1> SUFFICES ASSUME TypeOK, IInv, Referenced, Silent, [Next]_vars PROVE Silent'
  OBVIOUS
<1>1. DeadAreInactive'
  BY DeadStep DEF Silent
<1>2. ClaimedIsSilent'
  <2> SUFFICES ASSUME NEW s \in Session, recOwner'[s] # None PROVE ~Answered(s)'
    BY DEF ClaimedIsSilent
  <2>1. CASE owner'[s] = owner[s] /\ gen'[s] = gen[s] /\ recOwner'[s] = recOwner[s]
    BY <2>1, NobodyBeginsToAnswer DEF Silent, ClaimedIsSilent
  <2>2. ASSUME NEW h \in Host, ClaimCas(h, s),
               ~(owner'[s] = owner[s] /\ gen'[s] = gen[s] /\ recOwner'[s] = recOwner[s])
        PROVE  ~Answered(s)'
    <3>1. /\ at[h][s] = "cas" /\ RowIs(s, src[h][s], tok[h][s], prev[h][s])
          /\ owner'[s] = owner[s] /\ gen'[s] = gen[s]
      BY <2>2 DEF ClaimCas
    <3>2. owner[s] # None
      BY <3>1 DEF Referenced, WriterIsThere, RowIs, Claiming
    <3> QED BY <3>1, <3>2, ClaimIsLaidInSilence, NobodyBeginsToAnswer
  <2>3. ASSUME NEW p \in Process, ReconcileAtStartup(p, s) PROVE FALSE
    BY <2>3 DEF ReconcileAtStartup, ClearRow, TypeOK, RowType
  <2>4. ASSUME NEW h \in Host,
               ~(owner'[s] = owner[s] /\ gen'[s] = gen[s] /\ recOwner'[s] = recOwner[s]),
               \/ Acquire(h, s) \/ ReleaseIfDrained(h, s) \/ Release(h, s)
               \/ AbandonClaim(h, s) \/ Complete(h, s)
        PROVE  FALSE
    BY <2>4 DEF Acquire, ReleaseIfDrained, Release, ReleaseRow, AbandonClaim, Complete, ClearRow,
       TypeOK, RowType
  <2> QED BY <2>1, <2>2, <2>3, <2>4, WhoWritesRow
<1>3. ProvedIsSilent'
  <2> SUFFICES ASSUME NEW h \in Host, NEW s \in Session, at'[h][s] = "cas", prev'[h][s] = None,
                      tok'[h][s] = gen'[s], owner'[s] # None
               PROVE  ~Answered(s)'
    BY DEF ProvedIsSilent
  <2>1. CASE ClaimProve(h, s)
    <3>1. /\ at[h][s] = "prove" /\ UNCHANGED row /\ GoTo(h, s, "cas")
          /\ \/ LocalExecutionGone(h, s)
             \/ MayJudge(h, s) /\ "dead" \in DeathProofs(Suspect(h, s))
      BY <2>1 DEF ClaimProve, Finish, TypeOK, FiberType
    <3>2. tok'[h][s] = tok[h][s] /\ prev'[h][s] = prev[h][s]
      BY <3>1, GoToOthers
    <3>3. ~Answered(s)
      BY <3>1, <3>2, EvidenceIsSilence DEF Silent
    <3> QED BY <3>1, <3>3, NobodyBeginsToAnswer
  <2>2. CASE at[h][s] = "cas" /\ tok'[h][s] = tok[h][s] /\ prev'[h][s] = prev[h][s]
    <3>1. tok[h][s] <= gen[s] /\ gen[s] \in Nat /\ tok[h][s] \in Nat
      BY <2>2, BoundAssumption DEF IInv, SeenRowIsPast, Claiming, TypeOK, RowType, FiberType, Gen
    <3>2. gen'[s] = gen[s] /\ owner'[s] = owner[s]
      <4>1. gen'[s] = tok[h][s]
        BY <2>2
      <4>2. gen'[s] # gen[s] + 1
        BY <3>1, <4>1
      <4> QED BY <4>2, GenerationMoves
    <3>3. ~Answered(s)
      BY <2>2, <3>2 DEF Silent, ProvedIsSilent
    <3> QED BY <3>2, <3>3, NobodyBeginsToAnswer
  <2> QED BY <2>1, <2>2, HowToClaim
<1> QED BY <1>1, <1>2, <1>3 DEF Silent

\* It holds throughout.
LEMMA SilentAlways == Spec => []Silent
<1>1. Init => Silent
  BY DEF Init, Silent, DeadAreInactive, ClaimedIsSilent, ProvedIsSilent
<1>2. Spec => []Referenced
  BY ReferencedAlways, PTL
<1> QED BY <1>1, <1>2, SilentStep, TypeCorrect, Invariance, PTL DEF Spec

-----------------------------------------------------------------------------
(* The refinement of SessionLease.                                           *)

\* The lease of z is as it was.
SameLease(z) ==
  LeasePhase(z)' = LeasePhase(z) /\ LeaseHolder(z)' = LeaseHolder(z) /\ gen'[z] = gen[z]

\* The holder of z is gone, without a release.
LosesLease(z) ==
  /\ LeasePhase(z) = "held" /\ LeasePhase(z)' = "orphaned"
  /\ LeaseHolder(z)' = None /\ gen'[z] = gen[z]

\* Where the row stays, a lease can only be lost.
LEMMA RowStays ==
  ASSUME TypeOK, IInv, [Next]_vars, NEW z \in Session,
         owner'[z] = owner[z], gen'[z] = gen[z], recOwner'[z] = recOwner[z]
  PROVE  SameLease(z) \/ LosesLease(z)
<1>1. Answered(z)' => Answered(z)
  BY NobodyBeginsToAnswer
<1> QED BY <1>1 DEF SameLease, LosesLease, LeasePhase, LeaseHolder

\* A step for s cannot change the row of another Session.
LEMMA OtherRowsStay ==
  ASSUME TypeOK, NEW h \in Host, NEW s \in Session, ExecutionStep(h, s) \/ RecoveryStep(h, s),
         NEW z \in Session, z # s
  PROVE  owner'[z] = owner[z] /\ gen'[z] = gen[z] /\ recOwner'[z] = recOwner[z]
BY ExecutorWritesRow, RecoveryWritesRow

\* Nor the lease: nobody answers for it more or less than before.
LEMMA OtherLeasesStay ==
  ASSUME TypeOK, NEW h \in Host, NEW s \in Session, ExecutionStep(h, s) \/ RecoveryStep(h, s),
         NEW z \in Session, z # s
  PROVE  SameLease(z)
<1>1. owner'[z] = owner[z] /\ gen'[z] = gen[z] /\ recOwner'[z] = recOwner[z]
  BY OtherRowsStay
<1>2. \A p \in Process : activation'[p][z] = activation[p][z]
  BY OneSessionMoves
<1>3. \A k \in Host : at'[k][z] = at[k][z] /\ tok'[k][z] = tok[k][z]
  BY OneFiberMoves DEF FiberStays
<1>4. Answered(z)' <=> Answered(z)
  BY <1>1, <1>2, <1>3 DEF Answered, ActiveHere
<1> QED BY <1>1, <1>4 DEF SameLease, LeasePhase, LeaseHolder

\* The lease of s moves to phase ph, held or recovered by who.
Moves(s, ph, who) ==
  LeasePhase(s)' = ph /\ LeaseHolder(s)' = who /\ \A z \in Session \ {s} : SameLease(z)

\* Moves of one lease are moves of all leases.
LEMMA BecomesIs ==
  ASSUME NEW s \in Session, NEW ph, NEW who, Moves(s, ph, who)
  PROVE  Lease!Become(s, ph, who)
BY DEF Moves, SameLease, Lease!Become

\* No lease moves.
LEMMA AllStay ==
  ASSUME TypeOK, TypeOK', \A z \in Session : SameLease(z)
  PROVE  UNCHANGED Lease!lease
BY DEF SameLease, Lease!lease, TypeOK, RowType

\* A step that does not count a generation, of one Session.
LEMMA GenerationsStay ==
  ASSUME TypeOK, TypeOK', NEW s \in Session, gen'[s] = gen[s],
         \A z \in Session \ {s} : SameLease(z)
  PROVE  gen' = gen
BY DEF SameLease, TypeOK, RowType

\* A loss of one lease.
LEMMA LossIs ==
  ASSUME TypeOK, TypeOK', NEW s \in Session, LosesLease(s), \A z \in Session \ {s} : SameLease(z)
  PROVE  Lease!Next
<1>1. LeaseHolder(s) \in Process
  BY DEF LosesLease, LeaseHolder, LeasePhase, TypeOK, RowType, OwnerOrNone
<1>2. gen' = gen
  BY GenerationsStay DEF LosesLease
<1>3. Lease!Lose(LeaseHolder(s))
  <2>1. {s} \in SUBSET {z \in Session : LeasePhase(z) = "held" /\ LeaseHolder(z) = LeaseHolder(s)}
    BY DEF LosesLease
  <2>2. [z \in Session |-> LeasePhase(z)]' =
          [z \in Session |-> IF z \in {s} THEN "orphaned" ELSE LeasePhase(z)]
    BY DEF LosesLease, SameLease
  <2>3. [z \in Session |-> LeaseHolder(z)]' =
          [z \in Session |-> IF z \in {s} THEN None ELSE LeaseHolder(z)]
    BY DEF LosesLease, SameLease
  <2> QED BY <1>2, <2>1, <2>2, <2>3 DEF Lease!Lose
<1> QED BY <1>1, <1>3 DEF Lease!Next

\* An executor holds the lease of its Session.
LEMMA RunnerHolds ==
  ASSUME IInv, NEW h \in Host, NEW s \in Session, Runs(h, s)
  PROVE  LeasePhase(s) = "held"
<1>1. RowIs(s, ProcOf[h], tok[h][s], None) /\ tok[h][s] # 0 /\ ProcOf[h] \in Process
  BY HostAssumption DEF IInv, HolderOwnsRow, Holds, Runs
<1>2. activation[ProcOf[h]][s] = tok[h][s]
  BY DEF IInv, RunnerIsRegistered
<1>3. Answered(s)
  BY <1>1, <1>2 DEF Answered, ActiveHere, RowIs
<1> QED BY <1>1, <1>3, NoneAssumption DEF LeasePhase, RowIs

\* Executors and recoveries: what their rows do, a lease may do.
LEMMA FiberRefines ==
  ASSUME TypeOK, TypeOK', IInv, Referenced, Silent, [Next]_vars,
         NEW h \in Host, NEW s \in Session, ExecutionStep(h, s) \/ RecoveryStep(h, s)
  PROVE  [Lease!Next]_(Lease!lease)
<1>0. \A z \in Session \ {s} : SameLease(z)
  BY OtherLeasesStay
<1> ProcOf[h] \in Process /\ ProcOf[h] # None
  BY HostAssumption, NoneAssumption
<1> USE DEF TypeOK, RowType
<1>1. CASE owner'[s] = owner[s] /\ gen'[s] = gen[s] /\ recOwner'[s] = recOwner[s]
  BY <1>0, <1>1, RowStays, AllStay, LossIs
<1>2. ASSUME ~(owner'[s] = owner[s] /\ gen'[s] = gen[s] /\ recOwner'[s] = recOwner[s]),
             Acquire(h, s)
      PROVE  Lease!Next
  <2>1. /\ owner[s] = None /\ gen' = [gen EXCEPT ![s] = gen[s] + 1]
        /\ owner'[s] = ProcOf[h] /\ recOwner'[s] = None
        /\ at'[h][s] = "commit" /\ tok'[h][s] = gen'[s]
    BY <1>2 DEF Acquire, NextGeneration, FiberType
  <2>2. LeasePhase(s) = "free"
    BY <2>1 DEF LeasePhase
  <2>3. Answered(s)'
    BY <2>1 DEF Answered
  <2>4. Moves(s, "held", ProcOf[h])
    BY <1>0, <2>1, <2>3 DEF Moves, LeasePhase, LeaseHolder
  <2>5. Lease!Grant(s, ProcOf[h])
    BY <2>1, <2>2, <2>4, BecomesIs DEF Lease!Grant
  <2> QED BY <2>5 DEF Lease!Next
<1>3. ASSUME ~(owner'[s] = owner[s] /\ gen'[s] = gen[s] /\ recOwner'[s] = recOwner[s]),
             ReleaseIfDrained(h, s) \/ Release(h, s)
      PROVE  Lease!Next
  <2>1. owner'[s] = None /\ gen'[s] = gen[s] /\ Runs(h, s)
    BY <1>3 DEF ReleaseIfDrained, Release, ReleaseRow, ClearRow, Runs, Executing
  <2>2. LeasePhase(s) = "held"
    BY <2>1, RunnerHolds
  <2>3. Moves(s, "free", None) /\ gen' = gen
    BY <1>0, <2>1, GenerationsStay DEF Moves, LeasePhase, LeaseHolder
  <2>4. Lease!Yield(s)
    BY <2>2, <2>3, BecomesIs DEF Lease!Yield
  <2> QED BY <2>4 DEF Lease!Next
<1>4. ASSUME ~(owner'[s] = owner[s] /\ gen'[s] = gen[s] /\ recOwner'[s] = recOwner[s]),
             ClaimCas(h, s)
      PROVE  Lease!Next
  <2>1. /\ at[h][s] = "cas" /\ RowIs(s, src[h][s], tok[h][s], prev[h][s])
        /\ owner'[s] = owner[s] /\ gen'[s] = gen[s] /\ recOwner'[s] = ProcOf[h]
    BY <1>4 DEF ClaimCas
  <2>2. owner[s] # None
    BY <2>1 DEF Referenced, WriterIsThere, RowIs, Claiming
  <2>3. ~Answered(s)
    BY <2>1, <2>2, ClaimIsLaidInSilence
  <2>4. LeasePhase(s) \in {"orphaned", "recovering"}
    BY <2>2, <2>3 DEF LeasePhase
  <2>5. Moves(s, "recovering", ProcOf[h]) /\ gen' = gen
    BY <1>0, <2>1, <2>2, GenerationsStay DEF Moves, LeasePhase, LeaseHolder
  <2>6. Lease!Claim(s, ProcOf[h])
    BY <2>4, <2>5, BecomesIs DEF Lease!Claim
  <2> QED BY <2>6 DEF Lease!Next
<1>5. ASSUME ~(owner'[s] = owner[s] /\ gen'[s] = gen[s] /\ recOwner'[s] = recOwner[s]),
             AbandonClaim(h, s)
      PROVE  Lease!Next
  <2>1. /\ recOwner[s] # None /\ recOwner'[s] = None
        /\ owner'[s] = owner[s] /\ gen'[s] = gen[s]
    BY <1>5 DEF AbandonClaim, HoldsClaim, RowIs
  <2>2. owner[s] # None
    BY <2>1 DEF Referenced, RowReferencesExist
  <2>3. ~Answered(s)'
    BY <2>1, NobodyBeginsToAnswer DEF Silent, ClaimedIsSilent
  <2>4. LeasePhase(s) = "recovering"
    BY <2>1, <2>2 DEF LeasePhase
  <2>5. Moves(s, "orphaned", None) /\ gen' = gen
    BY <1>0, <2>1, <2>2, <2>3, GenerationsStay DEF Moves, LeasePhase, LeaseHolder
  <2>6. Lease!Abandon(s)
    BY <2>4, <2>5, BecomesIs DEF Lease!Abandon
  <2> QED BY <2>6 DEF Lease!Next
<1>6. ASSUME ~(owner'[s] = owner[s] /\ gen'[s] = gen[s] /\ recOwner'[s] = recOwner[s]),
             Complete(h, s)
      PROVE  Lease!Next
  <2>1. recOwner[s] # None /\ owner'[s] = None /\ gen'[s] = gen[s]
    BY <1>6 DEF Complete, HoldsClaim, RowIs, ClearRow
  <2>2. LeasePhase(s) = "recovering"
    BY <2>1 DEF LeasePhase, Referenced, RowReferencesExist
  <2>3. Moves(s, "free", None) /\ gen' = gen
    BY <1>0, <2>1, GenerationsStay DEF Moves, LeasePhase, LeaseHolder
  <2>4. Lease!Free(s)
    BY <2>2, <2>3, BecomesIs DEF Lease!Free
  <2> QED BY <2>4 DEF Lease!Next
<1>7. ASSUME ~(owner'[s] = owner[s] /\ gen'[s] = gen[s] /\ recOwner'[s] = recOwner[s])
      PROVE  \/ Acquire(h, s) \/ ReleaseIfDrained(h, s) \/ Release(h, s)
             \/ ClaimCas(h, s) \/ AbandonClaim(h, s) \/ Complete(h, s)
  BY <1>7, ExecutorWritesRow, RecoveryWritesRow
<1> QED BY <1>1, <1>2, <1>3, <1>4, <1>5, <1>6, <1>7

\* A process that dies loses what it holds, and nobody else loses anything.
LEMMA CrashLoses ==
  ASSUME TypeOK, TypeOK', IInv, [Next]_vars, NEW p \in Process, Crash(p)
  PROVE  Lease!Lose(p)
<1> DEFINE Held == {z \in Session : LeasePhase(z) = "held" /\ LeaseHolder(z) = p}
<1>0. UNCHANGED row
  BY DEF Crash
<1>1. ASSUME NEW z \in Session, z \notin Held PROVE SameLease(z)
  <2>1. CASE owner[z] # p
    <3>1. \A q \in Process \ {p} : activation'[q][z] = activation[q][z]
      BY DEF Crash, TypeOK, MemoryType
    <3>2. \A k \in Host : ProcOf[k] # p => at'[k][z] = at[k][z] /\ tok'[k][z] = tok[k][z]
      BY DEF Crash, TypeOK, FiberType
    <3>3. Answered(z)' <=> Answered(z)
      BY <1>0, <2>1, <3>1, <3>2 DEF Answered, ActiveHere
    <3> QED BY <1>0, <3>3 DEF SameLease, LeasePhase, LeaseHolder
  <2>2. CASE owner[z] = p
    <3>1. LeasePhase(z) # "held"
      BY <1>1, <2>2 DEF LeaseHolder
    <3> QED BY <1>0, <3>1, RowStays DEF LosesLease
  <2> QED BY <2>1, <2>2
<1>2. ASSUME NEW z \in Held PROVE LosesLease(z)
  <2>1. owner[z] = p /\ p # None /\ recOwner[z] = None
    BY <1>2, NoneAssumption DEF LeaseHolder, LeasePhase
  <2>2. activation'[p][z] = 0 /\ \A k \in Host : ProcOf[k] = p => at'[k][z] = "idle"
    BY DEF Crash, TypeOK, MemoryType, FiberType
  <2>3. ~Answered(z)'
    BY <1>0, <2>1, <2>2 DEF Answered, ActiveHere
  <2> QED BY <1>0, <1>2, <2>1, <2>3 DEF LosesLease, LeasePhase, LeaseHolder
<1>3. [z \in Session |-> LeasePhase(z)]' =
        [z \in Session |-> IF z \in Held THEN "orphaned" ELSE LeasePhase(z)]
  <2> HIDE DEF Held
  <2> QED BY <1>1, <1>2 DEF LosesLease, SameLease
<1>4. [z \in Session |-> LeaseHolder(z)]' =
        [z \in Session |-> IF z \in Held THEN None ELSE LeaseHolder(z)]
  <2> HIDE DEF Held
  <2> QED BY <1>1, <1>2 DEF LosesLease, SameLease
<1> QED BY <1>0, <1>3, <1>4 DEF Lease!Lose

\* The startup sweep frees what nobody answers for; other steps are not seen.
LEMMA ProcessRefines ==
  ASSUME TypeOK, TypeOK', IInv, Silent, [Next]_vars, NEW p \in Process, ProcessStep(p)
  PROVE  [Lease!Next]_(Lease!lease)
<1> USE DEF TypeOK, RowType
<1>1. CASE Crash(p)
  BY <1>1, CrashLoses DEF Lease!Next
<1>2. ASSUME NEW s \in Session, ReconcileAtStartup(p, s) PROVE Lease!Next
  <2>1. /\ owner[s] # None /\ DeadAndStale(owner[s]) /\ owner'[s] = None /\ gen' = gen
        /\ UNCHANGED <<memory, fiber>>
        /\ \A z \in Session \ {s} : owner'[z] = owner[z] /\ recOwner'[z] = recOwner[z]
    BY <1>2 DEF ReconcileAtStartup, ClearRow
  <2>2. ~Answered(s)
    <3>1. life[owner[s]] # "live" /\ owner[s] \in Process
      BY <2>1 DEF DeadAndStale, DeathProofs, OwnerOrNone
    <3>2. \A k \in Host : ProcOf[k] = owner[s] => at[k][s] = "idle"
      BY <3>1 DEF IInv, FibersAreAlive
    <3> QED BY <3>1, <3>2 DEF Answered, ActiveHere, Silent, DeadAreInactive
  <2>3. LeasePhase(s) \in {"orphaned", "recovering"}
    BY <2>1, <2>2 DEF LeasePhase
  <2>4. \A z \in Session \ {s} : Answered(z)' <=> Answered(z)
    BY <2>1 DEF Answered, ActiveHere
  <2>5. Moves(s, "free", None)
    BY <2>1, <2>4 DEF Moves, SameLease, LeasePhase, LeaseHolder
  <2>6. Lease!Free(s)
    BY <2>1, <2>3, <2>5, BecomesIs DEF Lease!Free
  <2> QED BY <2>6 DEF Lease!Next
<1>3. CASE StartProcess(p) \/ Beat(p) \/ GoStale(p) \/ \E dead \in Process : Collect(p, dead)
  <2>1. UNCHANGED <<row, activation, fiber>>
    BY <1>3 DEF StartProcess, Beat, GoStale, Collect
  <2>2. \A z \in Session : Answered(z)' <=> Answered(z)
    BY <2>1 DEF Answered, ActiveHere
  <2>3. \A z \in Session : SameLease(z)
    BY <2>1, <2>2 DEF SameLease, LeasePhase, LeaseHolder
  <2> QED BY <2>3, AllStay
<1> QED BY <1>1, <1>2, <1>3 DEF ProcessStep

\* Ownership of executions is a lease: no generation that is in use is taken
\* over, and none is granted before the one before it is free.
THEOREM OwnershipIsALease == Spec => LeaseSpec
<1>1. Init => Lease!Init
  BY DEF Init, Lease!Init, LeasePhase, LeaseHolder
<1>2. TypeOK /\ TypeOK' /\ IInv /\ Referenced /\ Silent /\ [Next]_vars => [Lease!Next]_(Lease!lease)
  <2> SUFFICES ASSUME TypeOK, TypeOK', IInv, Referenced, Silent, [Next]_vars
               PROVE  [Lease!Next]_(Lease!lease)
    OBVIOUS
  <2>1. ASSUME UNCHANGED <<row, activation, fiber>> PROVE UNCHANGED Lease!lease
    <3>1. \A z \in Session : Answered(z)' <=> Answered(z)
      BY <2>1 DEF Answered, ActiveHere
    <3>2. \A z \in Session : SameLease(z)
      BY <2>1, <3>1 DEF SameLease, LeasePhase, LeaseHolder
    <3> QED BY <3>2, AllStay
  <2>2. ASSUME NEW s \in Session, Environment(s) PROVE UNCHANGED Lease!lease
    BY <2>1, <2>2 DEF Environment, UserAdmit, PublishGuard, ReleaseGuard
  <2>3. CASE UNCHANGED vars
    BY <2>1, <2>3 DEF vars
  <2> QED BY <2>2, <2>3, ProcessRefines, FiberRefines DEF Next
<1>3. Spec => []Referenced
  BY ReferencedAlways, PTL
<1> QED BY <1>1, <1>2, <1>3, SilentAlways, TypeCorrect, Invariance, PTL
    DEF Spec, LeaseSpec, Lease!Spec

-----------------------------------------------------------------------------
(* What the lease says to a host.                                            *)

\* A generation fences: who comes to hold a Session takes a generation that nobody has
\* had, keeps it for as long as it holds the Session, and no generation ever comes back
\* (acquire in transact, generation + 1, and the token that every later statement of the
\* owner carries in its WHERE).
FencingTokens ==
  \A s \in Session :
    /\ gen'[s] \in {gen[s], gen[s] + 1}
    /\ \A h \in Host : Holds(h, s)' =>
         \/ Holds(h, s) /\ tok'[h][s] = tok[h][s] /\ gen'[s] = gen[s]
         \/ (\A k \in Host : ~Holds(k, s)) /\ tok'[h][s] = gen'[s] /\ gen'[s] = gen[s] + 1

\* No generation is executed twice, by whatever hosts and processes, after whatever
\* crashes, stops and recoveries: a result written under an old one is told from the rest.
THEOREM GenerationsFence == Spec => [][FencingTokens]_vars
<1>1. TypeOK /\ TypeOK' /\ IInv /\ IInv' /\ [Next]_vars => FencingTokens
  <2> SUFFICES ASSUME TypeOK, TypeOK', IInv, IInv', [Next]_vars, NEW s \in Session
               PROVE  /\ gen'[s] \in {gen[s], gen[s] + 1}
                      /\ \A h \in Host : Holds(h, s)' =>
                           \/ Holds(h, s) /\ tok'[h][s] = tok[h][s] /\ gen'[s] = gen[s]
                           \/ /\ \A k \in Host : ~Holds(k, s)
                              /\ tok'[h][s] = gen'[s] /\ gen'[s] = gen[s] + 1
    BY DEF FencingTokens
  <2>1. gen'[s] \in {gen[s], gen[s] + 1}
    BY GenerationMoves
  <2>2. ASSUME NEW h \in Host, Holds(h, s)'
        PROVE  (Holds(h, s) /\ tok'[h][s] = tok[h][s]) \/ Acquire(h, s)
    <3>1. CASE at'[h][s] = "commit"
      BY <3>1, WhereFibersGo DEF Holds
    <3>2. CASE at'[h][s] \in Executing
      <4>1. CASE Admit(h, s)
        BY <4>1 DEF Admit, Registered, GoTo, Holds
      <4> QED BY <3>2, <4>1, WhereFibersGo DEF Holds
    <3> QED BY <2>2, <3>1, <3>2 DEF Holds
  <2>3. ASSUME NEW h \in Host, Holds(h, s)', Holds(h, s), tok'[h][s] = tok[h][s]
        PROVE  gen'[s] = gen[s]
    BY <2>3, HolderFacts DEF IInv, HolderOwnsRow, RowIs, Owned
  <2>4. ASSUME NEW h \in Host, Holds(h, s)', Acquire(h, s)
        PROVE  /\ \A k \in Host : ~Holds(k, s)
               /\ tok'[h][s] = gen'[s] /\ gen'[s] = gen[s] + 1
    <3>1. owner[s] = None /\ gen'[s] = gen[s] + 1 /\ tok'[h][s] = gen'[s]
      BY <2>4 DEF Acquire, Busy, Finish, GoTo, Holds, Executing, NextGeneration, TypeOK, FiberType, RowType
    <3> QED BY <3>1, NoHolder
  <2> QED BY <2>1, <2>2, <2>3, <2>4
<1> QED BY <1>1, TypeCorrect, Invariance, PTL DEF Spec

\* A lease that was lost is not granted again until it has been freed, and each grant
\* is a new generation.
FreedBeforeGranted ==
  \A s \in Session :
    /\ LeasePhase(s) \in {"orphaned", "recovering"} => LeasePhase(s)' # "held" /\ gen'[s] = gen[s]
    /\ gen'[s] # gen[s] => LeasePhase(s) = "free" /\ LeasePhase(s)' = "held" /\ gen'[s] = gen[s] + 1

\* A Session whose executor is gone passes through recovery, or the sweep that finds
\* nothing to recover, before anybody executes it (recover, reconcileAtStartup).
THEOREM LostIsFreedFirst == Spec => [][FreedBeforeGranted]_vars
<1>1. TypeOK /\ [Lease!Next]_(Lease!lease) => FreedBeforeGranted
  <2> SUFFICES ASSUME TypeOK, [Lease!Next]_(Lease!lease), NEW s \in Session
               PROVE  /\ LeasePhase(s) \in {"orphaned", "recovering"} =>
                           LeasePhase(s)' # "held" /\ gen'[s] = gen[s]
                      /\ gen'[s] # gen[s] =>
                           LeasePhase(s) = "free" /\ LeasePhase(s)' = "held" /\ gen'[s] = gen[s] + 1
    BY DEF FreedBeforeGranted
  <2> USE DEF TypeOK, RowType
  <2>1. ASSUME NEW z \in Session, Lease!Yield(z) \/ Lease!Abandon(z) \/ Lease!Free(z)
        PROVE  gen' = gen /\ LeasePhase(s)' \in {LeasePhase(s), "free", "orphaned"}
    BY <2>1 DEF Lease!Yield, Lease!Abandon, Lease!Free, Lease!Become
  <2>2. ASSUME NEW p \in Process, Lease!Lose(p)
        PROVE  gen' = gen /\ LeasePhase(s)' \in {LeasePhase(s), "orphaned"}
    BY <2>2 DEF Lease!Lose
  <2>3. ASSUME NEW z \in Session, NEW p \in Process, Lease!Claim(z, p)
        PROVE  gen' = gen /\ LeasePhase(s)' \in {LeasePhase(s), "recovering"}
    BY <2>3 DEF Lease!Claim, Lease!Become
  <2>4. ASSUME NEW z \in Session, NEW p \in Process, Lease!Grant(z, p)
        PROVE  IF z = s
                 THEN LeasePhase(s) = "free" /\ LeasePhase(s)' = "held" /\ gen'[s] = gen[s] + 1
                 ELSE LeasePhase(s)' = LeasePhase(s) /\ gen'[s] = gen[s]
    BY <2>4 DEF Lease!Grant, Lease!Become
  <2>5. CASE UNCHANGED Lease!lease
    <3>1. LeasePhase(s)' = LeasePhase(s) /\ gen' = gen
      BY <2>5 DEF Lease!lease
    <3> QED BY <3>1
  <2> QED BY <2>1, <2>2, <2>3, <2>4, <2>5 DEF Lease!Next
<1> QED BY <1>1, OwnershipIsALease, TypeCorrect, PTL DEF LeaseSpec, Lease!Spec
=============================================================================
