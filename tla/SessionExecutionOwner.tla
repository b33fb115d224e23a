------------------------ MODULE SessionExecutionOwner ------------------------
(***************************************************************************)
(* Durable execution authority for Sessions: who may run a Session, how a  *)
(* generation is released, and how the generation of a dead process is     *)
(* recovered (packages/core/src/session/execution-owner.ts, recovery.ts,   *)
(* containment.ts, recovery-turn.ts, execution/local.ts, runtime-owner.ts, *)
(* packages/opencode/src/session/operator-stop.ts).                        *)
(*                                                                         *)
(* A process is one incarnation of an OpenFork process: a restart is       *)
(* another member of Process, because PROCESS_OWNER_ID is a fresh UUID.  A *)
(* host is a component of a process that runs Sessions (the V2 execution   *)
(* service, the V1 run state); the hosts of one process share its owner id *)
(* and its activation registry.  One SQLite transaction is one step.  The  *)
(* code that follows a COMMIT up to its next await belongs to the same     *)
(* step: a foreign process cannot see process memory, and another fiber of *)
(* this process needs further round trips to the database worker before it *)
(* can look.                                                               *)
(***************************************************************************)
EXTENDS Naturals, FiniteSets

CONSTANTS
  Session,        \* the Sessions
  Process,        \* process incarnations: the ids of runtime_owner rows
  Host,           \* execution hosts
  ProcOf,         \* the process a host lives in
  Duty,           \* the jobs a host starts, a subset of Job for each host
  Guardable,      \* Sessions whose directory may be put under maintenance
  Mortal,         \* bound: the processes that may crash
  MaxGen,         \* bound: generations a Session may reach
  None            \* SQL NULL

Job == {"drain", "sweep", "stop", "repair"}

ASSUME HostAssumption ==
  /\ ProcOf \in [Host -> Process]
  /\ Duty \in [Host -> SUBSET Job]
ASSUME NoneAssumption == None \notin Process
ASSUME BoundAssumption ==
  /\ MaxGen \in Nat
  /\ Guardable \subseteq Session
  /\ Mortal \subseteq Process

Gen == 0 .. MaxGen
OwnerOrNone == Process \cup {None}

(***************************************************************************)
(* Where the fiber of a job stands.                                        *)
(***************************************************************************)
Executing == {"run", "drained", "mend", "unwind"}
Claiming == {"prove", "cas"}
Mending == {"hazard", "scan", "seal", "complete"}
Admitting == {"admit", "acquire", "readmit", "reacquire", "commit"}
Place == {"idle", "claim", "judge", "settle", "clear"}
           \cup Admitting \cup Executing \cup Claiming \cup Mending

VARIABLES
  \* table session_execution_owner; gen = 0 is a Session without a row
  gen, owner, recOwner, interrupted,
  \* what other tables say about the Session
  pending,      \* an input neither promoted nor revoked
  openTool,     \* a tool call without a settlement
  openStep,     \* the generation of an unfinished assistant step, or 0
  blank,        \* no message row at all
  guarded,      \* a maintenance guard on its directory is not released
  \* table runtime_owner
  ownerRow, fresh,
  \* process memory
  life, activation, runHeld, recHeld,
  \* the fiber of each host and Session
  at, job, tok, src, prev, goal, found

row == <<gen, owner, recOwner, interrupted>>
data == <<pending, openTool, openStep, blank, guarded>>
runtime == <<ownerRow, fresh>>
memory == <<life, activation, runHeld, recHeld>>
fiber == <<at, job, tok, src, prev, goal, found>>
vars == <<row, data, runtime, memory, fiber>>

Init ==
  /\ gen = [s \in Session |-> 0]
  /\ owner = [s \in Session |-> None]
  /\ recOwner = [s \in Session |-> None]
  /\ interrupted = [s \in Session |-> FALSE]
  /\ pending = [s \in Session |-> FALSE]
  /\ openTool = [s \in Session |-> FALSE]
  /\ openStep = [s \in Session |-> 0]
  /\ blank = [s \in Session |-> TRUE]
  /\ guarded = [s \in Session |-> FALSE]
  /\ ownerRow = [p \in Process |-> FALSE]
  /\ fresh = [p \in Process |-> FALSE]
  /\ life = [p \in Process |-> "new"]
  /\ activation = [p \in Process |-> [s \in Session |-> 0]]
  /\ runHeld = [p \in Process |-> {}]
  /\ recHeld = [p \in Process |-> {}]
  /\ at = [h \in Host |-> [s \in Session |-> "idle"]]
  /\ job = [h \in Host |-> [s \in Session |-> "none"]]
  /\ tok = [h \in Host |-> [s \in Session |-> 0]]
  /\ src = [h \in Host |-> [s \in Session |-> None]]
  /\ prev = [h \in Host |-> [s \in Session |-> None]]
  /\ goal = [h \in Host |-> [s \in Session |-> 0]]
  /\ found = [h \in Host |-> [s \in Session |-> 0]]

-----------------------------------------------------------------------------
(* Moving a fiber. *)

GoTo(h, s, place) ==
  /\ at' = [at EXCEPT ![h][s] = place]
  /\ UNCHANGED <<job, tok, src, prev, goal, found>>

\* The fiber of h for s ends and forgets its locals.
Finish(h, s) ==
  /\ at' = [at EXCEPT ![h][s] = "idle"]
  /\ job' = [job EXCEPT ![h][s] = "none"]
  /\ tok' = [tok EXCEPT ![h][s] = 0]
  /\ src' = [src EXCEPT ![h][s] = None]
  /\ prev' = [prev EXCEPT ![h][s] = None]
  /\ goal' = [goal EXCEPT ![h][s] = 0]
  /\ found' = [found EXCEPT ![h][s] = 0]

Start(h, s, j, place, generation) ==
  /\ at' = [at EXCEPT ![h][s] = place]
  /\ job' = [job EXCEPT ![h][s] = j]
  /\ goal' = [goal EXCEPT ![h][s] = generation]
  /\ UNCHANGED <<tok, src, prev, found>>

MayStart(h, s, j) ==
  /\ life[ProcOf[h]] = "live"
  /\ at[h][s] = "idle"
  /\ j \in Duty[h]

(* runtime.retain: the first retention inserts or refreshes the owner row. *)
Retain(p) ==
  IF runHeld[p] = {} /\ recHeld[p] = {}
    THEN /\ ownerRow' = [ownerRow EXCEPT ![p] = TRUE]
         /\ fresh' = [fresh EXCEPT ![p] = TRUE]
    ELSE UNCHANGED runtime

\* A mutated death proof: missed heartbeats are taken for death.
DeathProofsByHeartbeat(p) ==
  IF ownerRow[p] /\ ~fresh[p] THEN {"dead"} ELSE {"alive-or-unknown"}

(* The answers proveLocalDeath may give.  A dead process whose PID was     *)
(* taken by another one looks alive; a missing row proves nothing.         *)
DeathProofs(p) ==
  CASE ~ownerRow[p] -> {"not-local-or-unknown"}
    [] ownerRow[p] /\ life[p] = "live" -> {"alive-or-unknown"}
    [] OTHER -> {"alive-or-unknown", "dead"}

(* This process registered exactly the generation n of s as running. *)
ActiveHere(p, s, n) == n # 0 /\ activation[p][s] = n

RowIs(s, o, n, r) == owner[s] = o /\ gen[s] = n /\ recOwner[s] = r

\* A mutated release: the interrupt request stays.
ClearRowKeepingMarker(s) ==
  /\ owner' = [owner EXCEPT ![s] = None]
  /\ recOwner' = [recOwner EXCEPT ![s] = None]
  /\ UNCHANGED <<gen, interrupted>>

ClearRow(s) ==
  /\ owner' = [owner EXCEPT ![s] = None]
  /\ recOwner' = [recOwner EXCEPT ![s] = None]
  /\ interrupted' = [interrupted EXCEPT ![s] = FALSE]
  /\ UNCHANGED gen

-----------------------------------------------------------------------------
(* Processes: start, crash, heartbeats, and collection of dead owner rows. *)

StartProcess(p) ==
  /\ life[p] = "new"
  /\ life' = [life EXCEPT ![p] = "live"]
  /\ UNCHANGED <<row, data, runtime, activation, runHeld, recHeld, fiber>>

\* A process dies between any two steps and takes its memory with it.
Crash(p) ==
  LET Lost(f, blankValue) ==
        [h \in Host |-> IF ProcOf[h] = p THEN [s \in Session |-> blankValue] ELSE f[h]]
  IN  /\ p \in Mortal
      /\ life[p] = "live"
      /\ life' = [life EXCEPT ![p] = "dead"]
      /\ activation' = [activation EXCEPT ![p] = [s \in Session |-> 0]]
      /\ runHeld' = [runHeld EXCEPT ![p] = {}]
      /\ recHeld' = [recHeld EXCEPT ![p] = {}]
      /\ at' = Lost(at, "idle")
      /\ job' = Lost(job, "none")
      /\ tok' = Lost(tok, 0)
      /\ src' = Lost(src, None)
      /\ prev' = Lost(prev, None)
      /\ goal' = Lost(goal, 0)
      /\ found' = Lost(found, 0)
      /\ UNCHANGED <<row, data, runtime>>

\* The heartbeat fiber runs while anything is retained.
Beat(p) ==
  /\ life[p] = "live"
  /\ runHeld[p] # {} \/ recHeld[p] # {}
  /\ fresh' = [fresh EXCEPT ![p] = TRUE]
  /\ UNCHANGED <<row, data, ownerRow, memory, fiber>>

\* Three beats are missed: the process is dead, idle, stalled or suspended.
GoStale(p) ==
  /\ fresh[p]
  /\ fresh' = [fresh EXCEPT ![p] = FALSE]
  /\ UNCHANGED <<row, data, ownerRow, memory, fiber>>

\* A mutated reference check: recovery claims do not count.
UnreferencedByOwner(dead) == \A s \in Session : owner[s] # dead

Unreferenced(dead) == \A s \in Session : owner[s] # dead /\ recOwner[s] # dead

\* collectDeadRuntimeOwners: one DELETE that checks every reference.
Collect(p, dead) ==
  /\ life[p] = "live"
  /\ ownerRow[dead] /\ ~fresh[dead]
  /\ "dead" \in DeathProofs(dead)
  /\ Unreferenced(dead)
  /\ ownerRow' = [ownerRow EXCEPT ![dead] = FALSE]
  /\ UNCHANGED <<row, data, fresh, memory, fiber>>

DeadAndStale(p) == ownerRow[p] /\ ~fresh[p] /\ "dead" \in DeathProofs(p)

\* reconcileDeadOwnersAtStartup, one candidate row.  The sweep retries with
\* a backoff, so it may reach the row at any time of the process's life.
ReconcileAtStartup(p, s) ==
  /\ life[p] = "live"
  /\ owner[s] # None
  /\ DeadAndStale(owner[s])
  /\ recOwner[s] # None => DeadAndStale(recOwner[s])
  /\ ~openTool[s]
  /\ blank[s]
  /\ ClearRow(s)
  /\ UNCHANGED <<data, runtime, memory, fiber>>

-----------------------------------------------------------------------------
(* Admission: tryAcquireLocal checks the registry of the process, runs the   *)
(* admission transaction and registers the generation it got.  All of it is *)
(* uninterruptible, and the process is marked as acquiring meanwhile.       *)

StartDrain(h, s) ==
  /\ MayStart(h, s, "drain")
  /\ Start(h, s, "drain", "admit", 0)
  /\ UNCHANGED <<row, data, runtime, memory>>

\* A mutated admission: recoveries do not see that it is under way.
NeverAcquiring(p, s) == FALSE

\* Some fiber of process p is inside tryAcquireLocal for s.
Acquiring(p, s) == \E h \in Host : ProcOf[h] = p /\ at[h][s] \in Admitting

\* A mutated counter: a generation is skipped.
NextGenerationTwice(s) == IF gen[s] = 0 THEN 1 ELSE gen[s] + 2

NextGeneration(s) == gen[s] + 1

\* A mutated admission: it does not look for guards.
NeverMaintained(s) == FALSE

\* A guard on the directory of s that is not released.
Maintained(s) == guarded[s]

\* Busy: the first answer sends a drain to recovery, any other ends the job.
Busy(h, s) ==
  IF job[h][s] = "drain" /\ at[h][s] \in {"admit", "acquire"}
    THEN GoTo(h, s, "claim")
    ELSE Finish(h, s)

\* A registered executor is authoritative, whatever the row says.
Check(h, s) ==
  /\ at[h][s] \in {"admit", "readmit"}
  /\ \/ activation[ProcOf[h]][s] # 0 /\ Busy(h, s) /\ UNCHANGED runtime
     \/ /\ activation[ProcOf[h]][s] = 0
        /\ GoTo(h, s, IF at[h][s] = "admit" THEN "acquire" ELSE "reacquire")
        /\ Retain(ProcOf[h])
  /\ UNCHANGED <<row, data, memory>>

\* The transaction looks at maintenance first, then at the owner, and takes
\* the next generation of a free Session.
Acquire(h, s) ==
  /\ at[h][s] \in {"acquire", "reacquire"}
  /\ \/ Maintained(s) /\ Finish(h, s) /\ UNCHANGED row
     \/ ~Maintained(s) /\ owner[s] # None /\ Busy(h, s) /\ UNCHANGED row
     \/ /\ ~Maintained(s) /\ owner[s] = None
        /\ gen[s] < MaxGen
        /\ gen' = [gen EXCEPT ![s] = NextGeneration(s)]
        /\ owner' = [owner EXCEPT ![s] = ProcOf[h]]
        /\ recOwner' = [recOwner EXCEPT ![s] = None]
        /\ interrupted' = [interrupted EXCEPT ![s] = FALSE]
        /\ at' = [at EXCEPT ![h][s] = "commit"]
        /\ tok' = [tok EXCEPT ![h][s] = NextGeneration(s)]
        /\ UNCHANGED <<job, src, prev, goal, found>>
  /\ UNCHANGED <<data, runtime, memory>>

Registered(h, s) ==
  LET p == ProcOf[h] IN
  /\ at[h][s] = "commit"
  /\ runHeld' = [runHeld EXCEPT ![p] = @ \cup {<<s, tok[h][s]>>}]
  /\ activation' = [activation EXCEPT ![p][s] = tok[h][s]]
  /\ UNCHANGED <<row, data, runtime, life, recHeld>>

\* A drain runs.  A repair mends the generation after the one the operator
\* saw; another one it releases at once.
Admit(h, s) ==
  /\ Registered(h, s)
  /\ GoTo(h, s, CASE job[h][s] = "drain" -> "run"
                  [] job[h][s] = "repair" /\ tok[h][s] = goal[h][s] + 1 -> "mend"
                  [] OTHER -> "unwind")

\* An interrupt that waited for the uninterruptible admission to end takes
\* effect before the drain installs the finalizer that releases the token.
AdmitInterrupted(h, s) ==
  /\ job[h][s] = "drain"
  /\ Registered(h, s)
  /\ Finish(h, s)

-----------------------------------------------------------------------------
(* Execution under a token. *)

\* The runner writes durable facts: it opens and settles assistant steps and
\* tool calls and promotes the inbox.
RunnerWrites(h, s) ==
  /\ at[h][s] = "run"
  /\ \/ /\ openStep[s] = 0
        /\ openStep' = [openStep EXCEPT ![s] = tok[h][s]]
        /\ blank' = [blank EXCEPT ![s] = FALSE]
        /\ UNCHANGED <<openTool, pending>>
     \/ /\ openStep[s] = tok[h][s] /\ ~openTool[s]
        /\ \/ openTool' = [openTool EXCEPT ![s] = TRUE] /\ UNCHANGED openStep
           \/ openStep' = [openStep EXCEPT ![s] = 0] /\ UNCHANGED openTool
        /\ UNCHANGED <<blank, pending>>
     \/ /\ openTool[s]
        /\ openTool' = [openTool EXCEPT ![s] = FALSE]
        /\ UNCHANGED <<openStep, blank, pending>>
     \/ /\ pending[s]
        /\ pending' = [pending EXCEPT ![s] = FALSE]
        /\ UNCHANGED <<openTool, openStep, blank>>
  /\ UNCHANGED <<guarded, row, runtime, memory, fiber>>

\* The runner exits.  A tool may have escaped an executor that failed.
RunnerExits(h, s) ==
  /\ at[h][s] = "run"
  /\ GoTo(h, s, "drained")
  /\ UNCHANGED <<row, data, runtime, memory>>

Owned(h, s) == owner[s] = ProcOf[h] /\ gen[s] = tok[h][s]

\* The UPDATE of release and releaseIfDrained; recovery fences it.
ReleaseRow(h, s) ==
  IF Owned(h, s) /\ recOwner[s] = None THEN ClearRow(s) ELSE UNCHANGED row

ReleaseIfDrained(h, s) ==
  /\ at[h][s] = "drained"
  /\ IF Owned(h, s) /\ pending[s]
       THEN GoTo(h, s, "run") /\ UNCHANGED row
       ELSE GoTo(h, s, "clear") /\ ReleaseRow(h, s)
  /\ UNCHANGED <<data, runtime, memory>>

\* release, after an interrupt or a repair.
Release(h, s) ==
  /\ at[h][s] = "unwind"
  /\ GoTo(h, s, "clear")
  /\ ReleaseRow(h, s)
  /\ UNCHANGED <<data, runtime, memory>>

\* Only after the commit is the retention released (an await: the heartbeat
\* fiber is interrupted) and the exact registration removed.
ClearActivation(h, s) ==
  LET p == ProcOf[h] IN
  /\ at[h][s] = "clear"
  /\ runHeld' = [runHeld EXCEPT ![p] = @ \ {<<s, tok[h][s]>>}]
  /\ activation' =
       [activation EXCEPT ![p][s] = IF @ = tok[h][s] THEN 0 ELSE @]
  /\ Finish(h, s)
  /\ UNCHANGED <<row, data, runtime, life, recHeld>>

\* requestInterrupt then coordinator.interrupt: it marks the row of whoever
\* owns it and stops the local drain, if any.  The finalizer of an admitted
\* drain releases its token (once more, in vain, when the row is released);
\* a recovery in progress just stops.
Interrupt(h, s) ==
  /\ life[ProcOf[h]] = "live"
  /\ \/ job[h][s] # "drain" /\ owner[s] # None /\ UNCHANGED fiber
     \/ at[h][s] = "clear" /\ owner[s] # None /\ UNCHANGED fiber
     \/ at[h][s] \in {"run", "drained"} /\ GoTo(h, s, "unwind")
     \/ /\ job[h][s] = "drain"
        /\ at[h][s] \in Claiming \cup Mending \cup {"claim"}
        /\ Finish(h, s)
  /\ interrupted' = [interrupted EXCEPT ![s] = owner[s] # None]
  /\ UNCHANGED <<gen, owner, recOwner, data, runtime, memory>>

-----------------------------------------------------------------------------
(* Recovery: withSessionRecoveryLock serialises whole recoveries of one      *)
(* process.  An operator stop takes the lock for its containment only.       *)

HoldsRecoveryLock(h, s) ==
  \/ job[h][s] \in {"drain", "sweep"} /\ at[h][s] \in Claiming \cup Mending
  \/ job[h][s] = "stop" /\ at[h][s] \in Mending \cup {"settle"}

\* A mutated lock: recoveries of one process run side by side.
NoRecoveryLock(h, s) == TRUE

RecoveryLockFree(h, s) ==
  \A k \in Host \ {h} : ProcOf[k] = ProcOf[h] => ~HoldsRecoveryLock(k, s)

\* reconcileDormant: the Sessions listWorking shows as interrupted, unless a
\* tool call is unsettled.
StartSweep(h, s) ==
  /\ MayStart(h, s, "sweep")
  /\ owner[s] # None
  /\ ~(owner[s] = ProcOf[h] /\ ActiveHere(ProcOf[h], s, gen[s]))
  /\ ~openTool[s]
  /\ Start(h, s, "sweep", "claim", 0)
  /\ UNCHANGED <<row, data, runtime, memory>>

\* acknowledgeStoppedOwner for the generation the operator saw.  Some callers
\* have recorded an interrupt request before.
StartStop(h, s) ==
  /\ MayStart(h, s, "stop")
  /\ \/ /\ owner[s] # None
        /\ Start(h, s, "stop", "claim", gen[s])
        /\ \E mark \in {TRUE, interrupted[s]} :
              interrupted' = [interrupted EXCEPT ![s] = mark]
     \/ /\ owner[s] = None /\ openTool[s]
        /\ Start(h, s, "repair", "admit", gen[s])
        /\ UNCHANGED interrupted
  /\ UNCHANGED <<gen, owner, recOwner, data, runtime, memory>>

\* pause, then the Swarm's own containment may refuse (prepare).
MendTools(h, s) ==
  /\ at[h][s] = "mend"
  /\ \E left \in {FALSE, openTool[s]} : openTool' = [openTool EXCEPT ![s] = left]
  /\ GoTo(h, s, "unwind")
  /\ UNCHANGED <<row, pending, openStep, blank, guarded, runtime, memory>>

\* A mutated claim: no heartbeat is kept up for it.
RecoveryUnretained(h, s, n) == UNCHANGED recHeld

KeepRecoveryRetention(h, s, n) ==
  recHeld' = [recHeld EXCEPT ![ProcOf[h]] = @ \cup {<<s, n>>}]

\* tryClaimRecovery hands out the claim on generation n of owner o.
Claimed(h, s, o, n) ==
  /\ at' = [at EXCEPT ![h][s] = IF job[h][s] = "stop" THEN "judge" ELSE "hazard"]
  /\ tok' = [tok EXCEPT ![h][s] = n]
  /\ src' = [src EXCEPT ![h][s] = o]
  /\ prev' = [prev EXCEPT ![h][s] = None]
  /\ KeepRecoveryRetention(h, s, n)
  /\ UNCHANGED <<job, goal, found, life, activation, runHeld>>

\* The row as tryClaimRecovery reads it, before any evidence.
ClaimRead(h, s) ==
  /\ at[h][s] = "claim"
  /\ job[h][s] # "stop" => RecoveryLockFree(h, s)
  /\ Retain(ProcOf[h])
  /\ \/ owner[s] = None /\ Finish(h, s) /\ UNCHANGED memory
     \/ /\ owner[s] # None /\ recOwner[s] = ProcOf[h]
        /\ Claimed(h, s, owner[s], gen[s])
     \/ /\ owner[s] # None /\ recOwner[s] # ProcOf[h]
        /\ at' = [at EXCEPT ![h][s] = "prove"]
        /\ tok' = [tok EXCEPT ![h][s] = gen[s]]
        /\ src' = [src EXCEPT ![h][s] = owner[s]]
        /\ prev' = [prev EXCEPT ![h][s] = recOwner[s]]
        /\ UNCHANGED <<job, goal, found, memory>>
  /\ UNCHANGED <<row, data>>

\* A mutated proof: always of the executor's death.
SuspectExecutor(h, s) == src[h][s]

\* Whose death the claim needs: the recovery owner of a claimed row, else the
\* executor's.
Suspect(h, s) == IF prev[h][s] = None THEN src[h][s] ELSE prev[h][s]

\* A background job waits for missed heartbeats, a stop does not.
MayJudge(h, s) ==
  ownerRow[Suspect(h, s)] /\ (job[h][s] = "stop" \/ ~fresh[Suspect(h, s)])

\* A mutated judgement: the activation registry is not asked.
LocalOwnerGone(h, s) ==
  prev[h][s] = None /\ src[h][s] = ProcOf[h] /\ ownerRow[src[h][s]]

\* This process owns the row and knows that it does not execute it.
LocalExecutionGone(h, s) ==
  /\ prev[h][s] = None
  /\ src[h][s] = ProcOf[h]
  /\ ownerRow[src[h][s]]
  /\ ~ActiveHere(ProcOf[h], s, tok[h][s])
  /\ ~Acquiring(ProcOf[h], s)

ClaimProve(h, s) ==
  /\ at[h][s] = "prove"
  /\ \/ /\ \/ LocalExecutionGone(h, s)
           \/ MayJudge(h, s) /\ "dead" \in DeathProofs(Suspect(h, s))
        /\ GoTo(h, s, "cas")
     \/ /\ ~LocalExecutionGone(h, s)
        /\ ~MayJudge(h, s) \/ DeathProofs(Suspect(h, s)) # {"dead"}
        /\ Finish(h, s)
  /\ UNCHANGED <<row, data, runtime, memory>>

\* The compare-and-swap over the exact row that was read.
ClaimCas(h, s) ==
  LET seen == RowIs(s, src[h][s], tok[h][s], prev[h][s])
      shared == prev[h][s] = None /\ owner[s] # None /\ recOwner[s] = ProcOf[h]
  IN  /\ at[h][s] = "cas"
      /\ \/ /\ seen
            /\ recOwner' = [recOwner EXCEPT ![s] = ProcOf[h]]
            /\ Claimed(h, s, src[h][s], tok[h][s])
         \/ /\ ~seen /\ shared
            /\ Claimed(h, s, owner[s], gen[s])
            /\ UNCHANGED recOwner
         \/ ~seen /\ ~shared /\ Finish(h, s) /\ UNCHANGED <<recOwner, memory>>
      /\ UNCHANGED <<gen, owner, interrupted, data, runtime>>

HoldsClaim(h, s) == RowIs(s, src[h][s], tok[h][s], ProcOf[h])

DropRecoveryRetention(h, s) ==
  recHeld' = [recHeld EXCEPT ![ProcOf[h]] = @ \ {<<s, tok[h][s]>>}]

\* The stop was meant for another generation: abandonRecovery.
AbandonClaim(h, s) ==
  /\ at[h][s] = "judge"
  /\ tok[h][s] # goal[h][s]
  /\ recOwner' = [recOwner EXCEPT ![s] = IF HoldsClaim(h, s) THEN None ELSE @]
  /\ DropRecoveryRetention(h, s)
  /\ Finish(h, s)
  /\ UNCHANGED <<gen, owner, interrupted, data, runtime, life, activation, runHeld>>

\* containAcknowledgedEffects re-reads the claim under the recovery lock.
EnterContainment(h, s) ==
  /\ at[h][s] = "judge"
  /\ tok[h][s] = goal[h][s]
  /\ RecoveryLockFree(h, s)
  /\ IF HoldsClaim(h, s) THEN GoTo(h, s, "settle") ELSE Finish(h, s)
  /\ UNCHANGED <<row, data, runtime, memory>>

\* failInterruptedTools; evidence it cannot settle stays.
SettleTools(h, s) ==
  /\ at[h][s] = "settle"
  /\ \E left \in {FALSE, openTool[s]} : openTool' = [openTool EXCEPT ![s] = left]
  /\ GoTo(h, s, "hazard")
  /\ UNCHANGED <<row, pending, openStep, blank, guarded, runtime, memory>>

\* A mutated hazard check: it always passes.
HazardIgnored(h, s) ==
  /\ at[h][s] = "hazard"
  /\ GoTo(h, s, "scan")
  /\ UNCHANGED <<row, data, runtime, memory>>

\* executionHazards: an unsettled tool keeps the claim and ends the job.
HazardCheck(h, s) ==
  /\ at[h][s] = "hazard"
  /\ IF openTool[s] THEN Finish(h, s) ELSE GoTo(h, s, "scan")
  /\ UNCHANGED <<row, data, runtime, memory>>

\* sealInterruptedGeneration selects what was created since acquired_at, the
\* rows of this and of any later generation.
SealScan(h, s) ==
  /\ at[h][s] = "scan"
  /\ at' = [at EXCEPT ![h][s] = "seal"]
  /\ found' = [found EXCEPT ![h][s] =
                 IF openStep[s] >= tok[h][s] THEN openStep[s] ELSE 0]
  /\ UNCHANGED <<job, tok, src, prev, goal, row, data, runtime, memory>>

\* The transcript cannot be verified, the Swarm's containment refuses, or a
\* later step of the job fails: it ends and the claim stays.
RecoveryGivesUp(h, s) ==
  /\ \/ at[h][s] = "scan"
     \/ at[h][s] = "judge" /\ tok[h][s] = goal[h][s]
  /\ Finish(h, s)
  /\ UNCHANGED <<row, data, runtime, memory>>

\* Publishing Step.Failed settles the step the scan selected.
SealPublish(h, s) ==
  /\ at[h][s] = "seal"
  /\ openStep' = [openStep EXCEPT ![s] = IF @ = found[h][s] THEN 0 ELSE @]
  /\ at' = [at EXCEPT ![h][s] = "complete"]
  /\ found' = [found EXCEPT ![h][s] = 0]
  /\ UNCHANGED <<job, tok, src, prev, goal, row, pending, openTool, blank,
                 guarded, runtime, memory>>

\* completeRecovery.  Only a drain that released the row tries again.
Complete(h, s) ==
  /\ at[h][s] = "complete"
  /\ IF HoldsClaim(h, s) THEN ClearRow(s) ELSE UNCHANGED row
  /\ DropRecoveryRetention(h, s)
  /\ IF HoldsClaim(h, s) /\ job[h][s] = "drain"
       THEN /\ at' = [at EXCEPT ![h][s] = "readmit"]
            /\ tok' = [tok EXCEPT ![h][s] = 0]
            /\ src' = [src EXCEPT ![h][s] = None]
            /\ UNCHANGED <<job, prev, goal, found>>
       ELSE Finish(h, s)
  /\ UNCHANGED <<data, runtime, life, activation, runHeld>>

\* The graph of h is retired or its release fails: the fiber is gone, the row
\* stays, and the finalizer of the graph drops the exact registration.
Retire(h, s) ==
  LET p == ProcOf[h] IN
  /\ at[h][s] \in Executing
  /\ activation' =
       [activation EXCEPT ![p][s] = IF @ = tok[h][s] THEN 0 ELSE @]
  /\ Finish(h, s)
  /\ UNCHANGED <<row, data, runtime, life, runHeld, recHeld>>

-----------------------------------------------------------------------------
(* The rest of the system: prompts and directory maintenance.              *)

UserAdmit(s) ==
  /\ ~pending[s]
  /\ pending' = [pending EXCEPT ![s] = TRUE]
  /\ UNCHANGED <<row, openTool, openStep, blank, guarded, runtime, memory, fiber>>

PublishGuard(s) ==
  /\ s \in Guardable
  /\ ~guarded[s] /\ owner[s] = None
  /\ guarded' = [guarded EXCEPT ![s] = TRUE]
  /\ UNCHANGED <<row, pending, openTool, openStep, blank, runtime, memory, fiber>>

ReleaseGuard(s) ==
  /\ guarded[s]
  /\ guarded' = [guarded EXCEPT ![s] = FALSE]
  /\ UNCHANGED <<row, pending, openTool, openStep, blank, runtime, memory, fiber>>

-----------------------------------------------------------------------------
ProcessStep(p) ==
  \/ StartProcess(p) \/ Crash(p) \/ Beat(p) \/ GoStale(p)
  \/ \E dead \in Process : Collect(p, dead)
  \/ \E s \in Session : ReconcileAtStartup(p, s)

ExecutionStep(h, s) ==
  \/ StartDrain(h, s) \/ Admit(h, s) \/ AdmitInterrupted(h, s)
  \/ Check(h, s) \/ Acquire(h, s)
  \/ RunnerWrites(h, s) \/ RunnerExits(h, s)
  \/ ReleaseIfDrained(h, s) \/ Release(h, s) \/ ClearActivation(h, s)
  \/ Interrupt(h, s) \/ MendTools(h, s) \/ Retire(h, s)

RecoveryStep(h, s) ==
  \/ StartSweep(h, s) \/ StartStop(h, s)
  \/ ClaimRead(h, s) \/ ClaimProve(h, s) \/ ClaimCas(h, s)
  \/ AbandonClaim(h, s) \/ EnterContainment(h, s) \/ SettleTools(h, s)
  \/ HazardCheck(h, s) \/ SealScan(h, s) \/ RecoveryGivesUp(h, s)
  \/ SealPublish(h, s) \/ Complete(h, s)

Environment(s) == UserAdmit(s) \/ PublishGuard(s) \/ ReleaseGuard(s)

Next ==
  \/ \E p \in Process : ProcessStep(p)
  \/ \E h \in Host, s \in Session : ExecutionStep(h, s) \/ RecoveryStep(h, s)
  \/ \E s \in Session : Environment(s)

Spec == Init /\ [][Next]_vars

-----------------------------------------------------------------------------
(* Properties. *)

RowType ==
  /\ gen \in [Session -> Gen]
  /\ owner \in [Session -> OwnerOrNone]
  /\ recOwner \in [Session -> OwnerOrNone]
  /\ interrupted \in [Session -> BOOLEAN]

DataType ==
  /\ pending \in [Session -> BOOLEAN]
  /\ openTool \in [Session -> BOOLEAN]
  /\ openStep \in [Session -> Gen]
  /\ blank \in [Session -> BOOLEAN]
  /\ guarded \in [Session -> BOOLEAN]

RuntimeType ==
  /\ ownerRow \in [Process -> BOOLEAN]
  /\ fresh \in [Process -> BOOLEAN]

MemoryType ==
  /\ life \in [Process -> {"new", "live", "dead"}]
  /\ activation \in [Process -> [Session -> Gen]]
  /\ runHeld \in [Process -> SUBSET (Session \X Gen)]
  /\ recHeld \in [Process -> SUBSET (Session \X Gen)]

FiberType ==
  /\ at \in [Host -> [Session -> Place]]
  /\ job \in [Host -> [Session -> Job \cup {"none"}]]
  /\ tok \in [Host -> [Session -> Gen]]
  /\ src \in [Host -> [Session -> OwnerOrNone]]
  /\ prev \in [Host -> [Session -> OwnerOrNone]]
  /\ goal \in [Host -> [Session -> Gen]]
  /\ found \in [Host -> [Session -> Gen]]

\* Rows, process memory and fibers keep their types; in particular no
\* generation is counted twice.
TypeOK == RowType /\ DataType /\ RuntimeType /\ MemoryType /\ FiberType

Runs(h, s) == at[h][s] \in Executing

\* At most one executor of a Session exists among all hosts of all processes.
SingleExecutor ==
  \A h, k \in Host, s \in Session : Runs(h, s) /\ Runs(k, s) => h = k

\* An executor is the owner its row names, at the generation of its token,
\* registered in its process, alive, and no recovery claim stands against it.
ExecutorOwnsRow ==
  \A h \in Host, s \in Session : Runs(h, s) =>
    /\ life[ProcOf[h]] = "live"
    /\ RowIs(s, ProcOf[h], tok[h][s], None)
    /\ tok[h][s] # 0
    /\ activation[ProcOf[h]][s] = tok[h][s]

\* Nothing executes in a directory under maintenance.
GuardExcludesExecution ==
  \A h \in Host, s \in Session : guarded[s] => ~Runs(h, s)

\* The foreign keys of session_execution_owner: the runtime_owner row of an
\* owner and of a recovery owner is never collected.
RowReferencesExist ==
  \A s \in Session :
    /\ owner[s] # None => ownerRow[owner[s]]
    /\ recOwner[s] # None => owner[s] # None /\ ownerRow[recOwner[s]]

\* An interrupt marker is about the generation that runs: none outlives its
\* generation, so a new one never starts with the request of another.
MarkerScope == \A s \in Session : interrupted[s] => owner[s] # None

\* While an execution or a recovery is in flight, its process retains its
\* heartbeat for exactly that generation.
RetentionCovers ==
  \A h \in Host, s \in Session :
    /\ Runs(h, s) => <<s, tok[h][s]>> \in runHeld[ProcOf[h]]
    /\ at[h][s] \in Mending => <<s, tok[h][s]>> \in recHeld[ProcOf[h]]

\* The step a recovery is about to settle does not belong to a running
\* executor.
SealTouchesOnlyDeadGeneration ==
  \A h, k \in Host, s \in Session :
    at[h][s] = "seal" /\ found[h][s] # 0 /\ Runs(k, s) => tok[k][s] # found[h][s]

\* A row is released by anyone but its executor only when no tool call is
\* unsettled and the generation left no unfinished step.
FencedEffects ==
  [][\A s \in Session :
       owner[s] # None /\ owner'[s] = None /\ ~(\E h \in Host : Runs(h, s))
         => ~openTool[s] /\ openStep[s] # gen[s]]_vars

\* A recovery claim changes hands only over a dead recovery owner.
RecoveryTakeover ==
  [][\A s \in Session :
       recOwner[s] # None /\ recOwner'[s] # None /\ recOwner'[s] # recOwner[s]
         => life[recOwner[s]] = "dead"]_vars

-----------------------------------------------------------------------------
(* The inductive invariant behind SingleExecutor.                          *)

\* h owns a generation of s: admitted, running, or not yet released.
Holds(h, s) == at[h][s] \in Executing \cup {"commit"}

\* Only live processes have fibers.
FibersAreAlive ==
  \A h \in Host, s \in Session : at[h][s] # "idle" => life[ProcOf[h]] = "live"

HolderOwnsRow ==
  \A h \in Host, s \in Session :
    Holds(h, s) => RowIs(s, ProcOf[h], tok[h][s], None) /\ tok[h][s] # 0

HolderIsAlone ==
  \A h, k \in Host, s \in Session : Holds(h, s) /\ Holds(k, s) => h = k

RunnerIsRegistered ==
  \A h \in Host, s \in Session :
    Runs(h, s) => activation[ProcOf[h]][s] = tok[h][s]

\* The token a fiber still has to clear is not the one of the current owner.
ClearedTokenIsPast ==
  \A h \in Host, s \in Session : at[h][s] = "clear" =>
    tok[h][s] < gen[s] \/ (tok[h][s] = gen[s] /\ owner[s] = None)

\* A row that was read can only be older than the row that is there, and a
\* generation never changes its owner.
SeenRowIsPast ==
  \A h \in Host, s \in Session : at[h][s] \in Claiming =>
    /\ tok[h][s] <= gen[s]
    /\ tok[h][s] = gen[s] /\ owner[s] # None => owner[s] = src[h][s]

\* The evidence a claim rests on: nobody holds the generation it read.
ClaimEvidence ==
  \A h, k \in Host, s \in Session :
    at[h][s] = "cas" /\ prev[h][s] = None /\ Holds(k, s) => tok[k][s] # tok[h][s]

IInv ==
  /\ FibersAreAlive /\ HolderOwnsRow /\ HolderIsAlone /\ RunnerIsRegistered
  /\ ClearedTokenIsPast /\ SeenRowIsPast /\ ClaimEvidence

-----------------------------------------------------------------------------
(* What the durable row means as a lease. *)

\* The owner runs the generation, or is about to register it.
Answered(s) ==
  \/ \E p \in Process : owner[s] = p /\ ActiveHere(p, s, gen[s])
  \/ \E h \in Host : at[h][s] = "commit" /\ owner[s] = ProcOf[h] /\ tok[h][s] = gen[s]

LeasePhase(s) ==
  CASE owner[s] = None -> "free"
    [] owner[s] # None /\ recOwner[s] # None -> "recovering"
    [] owner[s] # None /\ recOwner[s] = None /\ Answered(s) -> "held"
    [] OTHER -> "orphaned"

LeaseHolder(s) ==
  CASE LeasePhase(s) = "held" -> owner[s]
    [] LeasePhase(s) = "recovering" -> recOwner[s]
    [] OTHER -> None

Lease == INSTANCE SessionLease
           WITH phase <- [s \in Session |-> LeasePhase(s)],
                epoch <- gen,
                by <- [s \in Session |-> LeaseHolder(s)]

\* Ownership, heartbeats, death proofs and recovery implement a lease: no
\* lease in use is taken, and none is granted before it is free.
LeaseSpec == Lease!Spec
=============================================================================
