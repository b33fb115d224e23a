--------------------------- MODULE DirectoryAuthority ---------------------------
(***************************************************************************)
(* Who may write under a directory: maintenance guards over several        *)
(* directories (directory-maintenance-guard.ts), shared activity leases    *)
(* (directory-activity-lease.ts) and Session executions                    *)
(* (session/execution-owner.ts).  Each looks at the others' tables in the  *)
(* transaction that writes its own.  Rows outlive the process that wrote   *)
(* them, until its death is proved and an operator resolves them.          *)
(***************************************************************************)
EXTENDS Naturals, FiniteSets

CONSTANTS
  Process,      \* incarnations of processes, by their RuntimeOwner id
  Mortal,       \* the processes that may crash
  Directory,    \* physical directories, by their canonical key
  Acquisition,  \* calls of DirectoryMaintenanceGuard.acquire, by acquisition id
  Lease,        \* calls of DirectoryActivityLease.acquire, by lease id
  Session,
  Duty,         \* bound: the calls and Sessions a process takes on
  Place,        \* bound: the directories Sessions are in and that may vanish
  None

ASSUME BoundAssumption ==
  /\ Mortal \subseteq Process
  /\ Duty \in [Process -> SUBSET (Acquisition \cup Lease \cup Session)]
  /\ Place \subseteq Directory
ASSUME CallAssumption ==
  /\ Acquisition \cap Lease = {}
  /\ Session \cap Lease = {}
ASSUME NoneAssumption == None \notin Process \cup Directory \cup Acquisition

VARIABLES
  alive,      \* the processes that run
  ownerRow,   \* the processes runtime_owner has a row of
  exists,     \* the directories that exist physically
  \* directory_maintenance_guard, a row for each directory
  guardBy, guardGen, guardState,
  \* directory_activity_lease, a row for each lease
  leaseGen, leaseState,
  \* calls of acquire: progress, process, directories; tokens handed out, retentions
  at, by, want, issued, kept,
  \* Sessions: the row's directory, the owner row, the drain, the directory its
  \* location was built for, and the one its turn works in
  home, exec, drain, bound, turn,
  strayed     \* history: Sessions moved since their drain has read them

guards == <<guardBy, guardGen, guardState>>
leases == <<leaseGen, leaseState>>
calls == <<at, by, want, issued>>
sessions == <<home, exec, drain, bound, turn, strayed>>
vars == <<alive, ownerRow, exists, guards, leases, calls, kept, sessions>>

Call == Acquisition \cup Lease
Held == {"active", "reconcile_required"}
RowState == Held \cup {"absent", "released"}

GuardHeld(d) == guardState[d] \in Held
LeaseHeld(l) == leaseState[l] \in Held
Rows(a) == {d \in Directory : guardBy[d] = a}

\* Whether a row of the call is not released.
Published(x) ==
  \/ \E d \in Rows(x) : GuardHeld(d)
  \/ x \in Lease /\ LeaseHeld(x)

\* A mutated proof of death: any row whose process does not answer at once will do.
PresumedDead(q) == q \in ownerRow

\* proveLocalDeath: a process without a row is never proved dead.
ProvedDead(q) == q \in ownerRow \ alive

Init ==
  /\ alive = Process /\ ownerRow = {} /\ exists = Directory
  /\ guardBy = [d \in Directory |-> None]
  /\ guardGen = [d \in Directory |-> 0]
  /\ guardState = [d \in Directory |-> "absent"]
  /\ leaseGen = [l \in Lease |-> 0]
  /\ leaseState = [l \in Lease |-> "absent"]
  /\ at = [x \in Call |-> "new"]
  /\ by = [x \in Call |-> None]
  /\ want = [x \in Call |-> {}]
  /\ issued = {} /\ kept = {}
  /\ home \in [Session -> Place]
  /\ exec = [s \in Session |-> None]
  /\ drain = [s \in Session |-> None]
  /\ bound = home
  /\ turn = [s \in Session |-> None]
  /\ strayed = {}

-----------------------------------------------------------------------------
(* acquire of both services: the directories are resolved, the heartbeat is *)
(* retained, one transaction publishes, and the retention is transferred.   *)

Running(x, where) == at[x] = where /\ by[x] \in alive
GoTo(x, where) == at' = [at EXCEPT ![x] = where]

Begin(x, p, D) ==
  /\ at[x] = "new" /\ p \in alive /\ x \in Duty[p]
  /\ D \subseteq exists
  /\ IF x \in Acquisition THEN Cardinality(D) >= 2 ELSE \E d \in D : D = {d}
  /\ GoTo(x, "retained")
  /\ by' = [by EXCEPT ![x] = p]
  /\ want' = [want EXCEPT ![x] = D]
  /\ ownerRow' = ownerRow \cup {p}
  /\ UNCHANGED <<alive, exists, guards, leases, issued, kept, sessions>>

\* An execution whose directory cannot be resolved blocks every guard.
ExecutingIn(D) ==
  \E s \in Session : exec[s] # None /\ (home[s] \notin exists \/ home[s] \in D)

\* A mutated check: the lease of a dead process has been reconciled and no
\* longer counts.
GuardFreeActive(D) ==
  /\ \A d \in D : ~GuardHeld(d)
  /\ \A l \in Lease : leaseState[l] = "active" => want[l] \cap D = {}
  /\ ~ExecutingIn(D)

GuardFree(D) ==
  /\ \A d \in D : ~GuardHeld(d)
  /\ \A l \in Lease : LeaseHeld(l) => want[l] \cap D = {}
  /\ ~ExecutingIn(D)

\* A mutated generation: the largest one, which counts from zero.
LargestGeneration(D) == {n \in {guardGen[d] : d \in D} : \A d \in D : guardGen[d] <= n}

\* A mutated generation: the next one of any row.
NextOfAnyRow(D) == {guardGen[d] + 1 : d \in D}

\* One more than the generation of every row that is there.
NextGeneration(D) == {n \in {guardGen[d] + 1 : d \in D} : \A d \in D : guardGen[d] < n}

PublishGuard(a) ==
  /\ Running(a, "retained")
  /\ GuardFree(want[a])
  /\ \E n \in NextGeneration(want[a]) :
       guardGen' = [d \in Directory |-> IF d \in want[a] THEN n ELSE guardGen[d]]
  /\ guardBy' = [d \in Directory |-> IF d \in want[a] THEN a ELSE guardBy[d]]
  /\ guardState' = [d \in Directory |-> IF d \in want[a] THEN "active" ELSE guardState[d]]
  /\ GoTo(a, "committed")
  /\ UNCHANGED <<alive, ownerRow, exists, leases, by, want, issued, kept, sessions>>

GuardBlocked(a) ==
  /\ Running(a, "retained")
  /\ ~GuardFree(want[a])
  /\ GoTo(a, "done")
  /\ UNCHANGED <<alive, ownerRow, exists, guards, leases, by, want, issued, kept, sessions>>

NextLeaseGeneration(l) ==
  LET prior == {k \in Lease : leaseState[k] # "absent" /\ want[k] = want[l]}
  IN  {n \in {1} \cup {leaseGen[k] + 1 : k \in prior} : \A k \in prior : leaseGen[k] < n}

PublishLease(l) ==
  /\ Running(l, "retained")
  /\ \A d \in want[l] : ~GuardHeld(d)
  /\ \E n \in NextLeaseGeneration(l) : leaseGen' = [leaseGen EXCEPT ![l] = n]
  /\ leaseState' = [leaseState EXCEPT ![l] = "active"]
  /\ GoTo(l, "committed")
  /\ UNCHANGED <<alive, ownerRow, exists, guards, by, want, issued, kept, sessions>>

LeaseBlocked(l) ==
  /\ Running(l, "retained")
  /\ \E d \in want[l] : GuardHeld(d)
  /\ GoTo(l, "done")
  /\ UNCHANGED <<alive, ownerRow, exists, guards, leases, by, want, issued, kept, sessions>>

Transfer(x) ==
  /\ Running(x, "committed")
  /\ kept' = kept \cup {x}
  /\ issued' = issued \cup {x}
  /\ GoTo(x, "done")
  /\ UNCHANGED <<alive, ownerRow, exists, guards, leases, by, want, sessions>>

\* A mutated finalizer: every exit without a token drops the retention.
ForgetRetention(x) == UNCHANGED kept

\* reconcileExitRetention: what has been published keeps its heartbeat.
AdoptRetention(x) == kept' = IF Published(x) THEN kept \cup {x} ELSE kept

\* An interrupt before the transfer: the transaction may have committed, and the
\* token is lost.  The finalizer reads rows that only this call has written.
Interrupt(x) ==
  /\ Running(x, "retained") \/ Running(x, "committed")
  /\ AdoptRetention(x)
  /\ GoTo(x, "done")
  /\ UNCHANGED <<alive, ownerRow, exists, guards, leases, by, want, issued, sessions>>

-----------------------------------------------------------------------------
(* release, assertHealthy, resolveReconcileRequired and reconcile.  A token *)
(* is presented to any process; the directories it claims need not be all   *)
(* of the acquisition's.                                                    *)

Served == alive # {}

SetGuards(D, s) == guardState' = [d \in Directory |-> IF d \in D THEN s ELSE guardState[d]]

\* A mutated release: the rows that match are released, claimed or not.
MatchesClaimed(a, D, s) == D \subseteq Rows(a) /\ \A d \in D : guardState[d] = s

\* The token names exactly the rows of the acquisition, all in one state.
Matches(a, D, s) == Rows(a) = D /\ \A d \in D : guardState[d] = s

ReleaseGuard(a, D) ==
  /\ Served /\ a \in issued /\ Cardinality(D) >= 2
  /\ Matches(a, D, "active")
  /\ SetGuards(D, "released")
  /\ UNCHANGED <<alive, ownerRow, exists, guardBy, guardGen, leases, calls, kept, sessions>>

ReleaseLease(l) ==
  /\ Served /\ l \in issued
  /\ leaseState[l] = "active"
  /\ leaseState' = [leaseState EXCEPT ![l] = "released"]
  /\ UNCHANGED <<alive, ownerRow, exists, guards, leaseGen, calls, kept, sessions>>

\* dropRetention and dropTerminalRetention, at the end of a release or when a
\* token turns out to be stale.
DropRetention(x) ==
  /\ x \in kept /\ by[x] \in alive
  /\ ~Published(x)
  /\ kept' = kept \ {x}
  /\ UNCHANGED <<alive, ownerRow, exists, guards, leases, calls, sessions>>

ReconcileGuards(q) ==
  /\ Served /\ ProvedDead(q)
  /\ SetGuards({d \in Directory : guardState[d] = "active" /\ by[guardBy[d]] = q}, "reconcile_required")
  /\ UNCHANGED <<alive, ownerRow, exists, guardBy, guardGen, leases, calls, kept, sessions>>

ReconcileLeases(q) ==
  /\ Served /\ ProvedDead(q)
  /\ leaseState' = [l \in Lease |->
       IF leaseState[l] = "active" /\ by[l] = q THEN "reconcile_required" ELSE leaseState[l]]
  /\ UNCHANGED <<alive, ownerRow, exists, guards, leaseGen, calls, kept, sessions>>

\* The operator has the token, or its parts from a blocker that was reported.
ResolveGuard(a, D) ==
  /\ Served /\ ProvedDead(by[a]) /\ Cardinality(D) >= 2
  /\ Matches(a, D, "reconcile_required")
  /\ SetGuards(D, "released")
  /\ UNCHANGED <<alive, ownerRow, exists, guardBy, guardGen, leases, calls, kept, sessions>>

ResolveLease(l) ==
  /\ Served /\ ProvedDead(by[l])
  /\ leaseState[l] = "reconcile_required"
  /\ leaseState' = [leaseState EXCEPT ![l] = "released"]
  /\ UNCHANGED <<alive, ownerRow, exists, guards, leaseGen, calls, kept, sessions>>

\* A mutated collection: it knows nothing of activity leases.
ReferencedByGuards(q) ==
  \/ \E d \in Directory : guardState[d] # "absent" /\ by[guardBy[d]] = q
  \/ \E s \in Session : exec[s] = q

Referenced(q) ==
  \/ \E d \in Directory : guardState[d] # "absent" /\ by[guardBy[d]] = q
  \/ \E l \in Lease : leaseState[l] # "absent" /\ by[l] = q
  \/ \E s \in Session : exec[s] = q

\* collectDeadRuntimeOwners, for a heartbeat that is old.
Collect(q) ==
  /\ Served /\ ProvedDead(q)
  /\ ~Referenced(q)
  /\ ownerRow' = ownerRow \ {q}
  /\ UNCHANGED <<alive, exists, guards, leases, calls, kept, sessions>>

-----------------------------------------------------------------------------
(* Sessions.  A drain reads the Session, is admitted, and runs turns in the *)
(* location of that read, as long as the Session is still there.            *)

ReadSession(s, p) ==
  /\ drain[s] = None /\ p \in alive /\ s \in Duty[p]
  /\ drain' = [drain EXCEPT ![s] = p]
  /\ bound' = [bound EXCEPT ![s] = home[s]]
  /\ strayed' = IF exec[s] = None THEN strayed \ {s} ELSE strayed
  /\ UNCHANGED <<alive, ownerRow, exists, guards, leases, calls, kept, home, exec, turn>>

\* A mutated admission: a guard of a dead process does not block.
AdmissibleIfActive(s) ==
  (\E d \in Directory : GuardHeld(d)) => home[s] \in exists /\ guardState[home[s]] # "active"

Admissible(s) ==
  (\E d \in Directory : GuardHeld(d)) => home[s] \in exists /\ ~GuardHeld(home[s])

Admit(s) ==
  /\ drain[s] # None /\ exec[s] = None
  /\ Admissible(s)
  /\ exec' = [exec EXCEPT ![s] = drain[s]]
  /\ ownerRow' = ownerRow \cup {drain[s]}
  /\ UNCHANGED <<alive, exists, guards, leases, calls, kept, home, drain, bound, turn, strayed>>

Refuse(s) ==
  /\ drain[s] # None
  /\ \/ exec[s] \notin {None, drain[s]}
     \/ exec[s] = None /\ ~Admissible(s)
  /\ drain' = [drain EXCEPT ![s] = None]
  /\ UNCHANGED <<alive, ownerRow, exists, guards, leases, calls, kept, home, exec, bound, turn, strayed>>

Executes(s) == drain[s] # None /\ exec[s] = drain[s]

\* runTurn gives up at once when the Session has left the runner's location.
BeginTurn(s) ==
  /\ Executes(s) /\ turn[s] = None
  /\ home[s] = bound[s]
  /\ turn' = [turn EXCEPT ![s] = bound[s]]
  /\ UNCHANGED <<alive, ownerRow, exists, guards, leases, calls, kept, home, exec, drain, bound, strayed>>

EndTurn(s) ==
  /\ turn[s] # None
  /\ turn' = [turn EXCEPT ![s] = None]
  /\ UNCHANGED <<alive, ownerRow, exists, guards, leases, calls, kept, home, exec, drain, bound, strayed>>

EndDrain(s) ==
  /\ Executes(s) /\ turn[s] = None
  /\ exec' = [exec EXCEPT ![s] = None]
  /\ drain' = [drain EXCEPT ![s] = None]
  /\ UNCHANGED <<alive, ownerRow, exists, guards, leases, calls, kept, home, bound, turn, strayed>>

\* The recovery of a dead owner.
RecoverExecution(s) ==
  /\ Served /\ ProvedDead(exec[s])
  /\ exec' = [exec EXCEPT ![s] = None]
  /\ UNCHANGED <<alive, ownerRow, exists, guards, leases, calls, kept, home, drain, bound, turn, strayed>>

\* moveSession asks neither the guards nor the owner row.
Move(s, d) ==
  /\ Served /\ d # home[s]
  /\ home' = [home EXCEPT ![s] = d]
  /\ strayed' = strayed \cup {s}
  /\ UNCHANGED <<alive, ownerRow, exists, guards, leases, calls, kept, exec, drain, bound, turn>>

-----------------------------------------------------------------------------
(* The file system and the processes. *)

RemoveDirectory(d) ==
  /\ d \in exists
  /\ exists' = exists \ {d}
  /\ UNCHANGED <<alive, ownerRow, guards, leases, calls, kept, sessions>>

CreateDirectory(d) ==
  /\ d \notin exists
  /\ exists' = exists \cup {d}
  /\ UNCHANGED <<alive, ownerRow, guards, leases, calls, kept, sessions>>

Crash(p) ==
  /\ p \in Mortal \cap alive
  /\ alive' = alive \ {p}
  /\ kept' = {x \in kept : by[x] # p}
  /\ at' = [x \in Call |-> IF by[x] = p THEN "done" ELSE at[x]]
  /\ turn' = [s \in Session |-> IF drain[s] = p THEN None ELSE turn[s]]
  /\ drain' = [s \in Session |-> IF drain[s] = p THEN None ELSE drain[s]]
  /\ UNCHANGED <<ownerRow, exists, guards, leases, by, want, issued, home, exec, bound, strayed>>

GuardStep(a) ==
  \/ PublishGuard(a) \/ GuardBlocked(a)
  \/ \E D \in SUBSET Directory : ReleaseGuard(a, D) \/ ResolveGuard(a, D)
LeaseStep(l) == PublishLease(l) \/ LeaseBlocked(l) \/ ReleaseLease(l) \/ ResolveLease(l)
CallStep(x) ==
  \/ \E p \in Process, D \in SUBSET Directory : Begin(x, p, D)
  \/ Transfer(x) \/ Interrupt(x) \/ DropRetention(x)
ProcessStep(q) == ReconcileGuards(q) \/ ReconcileLeases(q) \/ Collect(q) \/ Crash(q)
SessionStep(s) ==
  \/ \E p \in Process : ReadSession(s, p)
  \/ Admit(s) \/ Refuse(s) \/ BeginTurn(s) \/ EndTurn(s) \/ EndDrain(s) \/ RecoverExecution(s)
  \/ \E d \in Place : Move(s, d)
PlaceStep(d) == RemoveDirectory(d) \/ CreateDirectory(d)

Next ==
  \/ \E a \in Acquisition : GuardStep(a)
  \/ \E l \in Lease : LeaseStep(l)
  \/ \E x \in Call : CallStep(x)
  \/ \E q \in Process : ProcessStep(q)
  \/ \E s \in Session : SessionStep(s)
  \/ \E d \in Place : PlaceStep(d)

Spec == Init /\ [][Next]_vars

-----------------------------------------------------------------------------
(* Properties. *)

\* Rows, calls and Sessions keep their types, and the generation of a row is
\* positive, as parseToken asks.
TypeOK ==
  /\ alive \subseteq Process /\ ownerRow \subseteq Process /\ exists \subseteq Directory
  /\ guardBy \in [Directory -> Acquisition \cup {None}]
  /\ guardGen \in [Directory -> Nat]
  /\ guardState \in [Directory -> RowState]
  /\ \A d \in Directory : guardState[d] = "absent" <=> guardGen[d] = 0
  /\ leaseGen \in [Lease -> Nat]
  /\ leaseState \in [Lease -> RowState]
  /\ at \in [Call -> {"new", "retained", "committed", "done"}]
  /\ by \in [Call -> Process \cup {None}]
  /\ want \in [Call -> SUBSET Directory]
  /\ issued \subseteq Call /\ kept \subseteq Call
  /\ home \in [Session -> Directory]
  /\ exec \in [Session -> Process \cup {None}]
  /\ drain \in [Session -> alive \cup {None}]
  /\ bound \in [Session -> Directory]
  /\ turn \in [Session -> Directory \cup {None}]
  /\ strayed \subseteq Session

\* A directory under maintenance has no activity lease, and no Session executes
\* there: not even what a dead process has left counts as free.
MaintenanceIsExclusive ==
  \A d \in Directory : GuardHeld(d) =>
    /\ \A l \in Lease : LeaseHeld(l) => d \notin want[l]
    /\ \A s \in Session \ strayed : exec[s] # None => home[s] # d

\* The directories of an acquisition are held together or not at all: whatever is
\* claimed, crashes or is reused, its rows never come apart.
AllOrNothing ==
  \A a \in Acquisition :
    (\E d \in Rows(a) : GuardHeld(d)) =>
      Rows(a) = want[a] /\ \A c, d \in want[a] : guardState[c] = guardState[d]

\* A generation is never given out twice for a directory, so that it tells a
\* token of an earlier acquisition from the current one.
GenerationsIncrease ==
  [][\A d \in Directory : guardBy'[d] # guardBy[d] => guardGen'[d] > guardGen[d]]_vars

\* What a live process has published keeps its heartbeat, even when the token was
\* lost between the commit and the return.
RetentionCovers ==
  \A x \in Call : Published(x) /\ by[x] \in alive =>
    x \in kept \/ at[x] = "committed"

\* The death of whoever wrote a row can be proved as long as the row is there.
OwnersAreKnown ==
  /\ \A d \in Directory : guardState[d] # "absent" => by[guardBy[d]] \in ownerRow
  /\ \A l \in Lease : leaseState[l] # "absent" => by[l] \in ownerRow
  /\ \A s \in Session : exec[s] # None => exec[s] \in ownerRow

Maintained == [d \in Directory |-> IF GuardHeld(d) THEN guardBy[d] ELSE None]

\* Leases, and Sessions that execute; one moved under its drain has left.
Using ==
  {ld \in Lease \X Directory : LeaseHeld(ld[1]) /\ ld[2] \in want[ld[1]]} \cup
  {sd \in Session \X Directory : exec[sd[1]] # None /\ sd[1] \notin strayed /\ home[sd[1]] = sd[2]}

\* Guards, leases and executions implement one lock for each directory.
L == INSTANCE DirectoryLock WITH
  Maintainer <- Acquisition, User <- Lease \cup Session,
  maintainer <- Maintained, using <- Using

LockSpec == L!Spec

\* Unless its Session is moved meanwhile, a turn works in a directory that is not
\* under maintenance, whatever guards are asked for and whoever recovers executions.
UnmovedTurnsAreExcluded == \A s \in Session \ strayed : turn[s] # None => ~GuardHeld(turn[s])

\* No turn works in a directory under maintenance.
TurnsAreExcluded == \A s \in Session : turn[s] # None => ~GuardHeld(turn[s])
=============================================================================
