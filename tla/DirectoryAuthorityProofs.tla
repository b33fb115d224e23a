------------------------ MODULE DirectoryAuthorityProofs ------------------------
(***************************************************************************)
(* Guards, leases and executions exclude each other, guards are held whole *)
(* or not at all, turns of Sessions that stay where they are work outside  *)
(* maintenance, and together they implement DirectoryLock, for any         *)
(* processes, directories, calls and Sessions.                             *)
(***************************************************************************)
EXTENDS DirectoryAuthority, TLAPS

\* A row names the acquisition that wrote it, which wanted its directory, and an
\* acquisition that has not published has no row.
RowsAreWanted ==
  /\ \A d \in Directory : guardState[d] # "absent" => guardBy[d] \in Acquisition /\ d \in want[guardBy[d]]
  /\ \A d \in Directory : guardState[d] = "absent" => guardBy[d] = None
  /\ \A a \in Acquisition : at[a] \in {"new", "retained"} => Rows(a) = {}
  /\ \A l \in Lease : at[l] \in {"new", "retained"} => leaseState[l] = "absent"

\* A call that has begun has a process, whose row is there while it is alive.
CallsHaveOwners ==
  /\ \A x \in Call : at[x] # "new" <=> by[x] \in Process
  /\ \A x \in Call : by[x] \in alive => by[x] \in ownerRow
  /\ \A x \in Call : at[x] = "new" => x \notin kept

\* A lease that has begun is for one directory.
LeasesAreSingle ==
  \A l \in Lease : at[l] # "new" => \E d \in Directory : want[l] = {d}

IInv ==
  /\ TypeOK /\ RowsAreWanted /\ LeasesAreSingle /\ CallsHaveOwners
  /\ MaintenanceIsExclusive /\ AllOrNothing /\ RetentionCovers /\ OwnersAreKnown

\* Begin keeps the inductive invariant.
LEMMA BeginKeeps ==
  ASSUME IInv, NEW x \in Call, NEW p \in Process, NEW D \in SUBSET Directory, Begin(x, p, D)
  PROVE  IInv'
<1>1. TypeOK'
  BY DEF IInv, guards, leases, sessions, Call, Held, RowState, GoTo, Begin, TypeOK
<1>2. RowsAreWanted'
  BY DEF IInv, guards, leases, sessions, Rows, GoTo, Begin, RowsAreWanted
<1>3. CallsHaveOwners'
  BY DEF IInv, guards, leases, sessions, Call, Held, RowState, GoTo, Begin, TypeOK,
    CallsHaveOwners
<1>4. MaintenanceIsExclusive'
  BY DEF IInv, guards, leases, sessions, Held, GuardHeld, LeaseHeld, Rows, GoTo, Begin,
    MaintenanceIsExclusive, RowsAreWanted
<1>5. AllOrNothing'
  BY DEF IInv, guards, leases, sessions, Held, GuardHeld, Rows, GoTo, Begin,
    AllOrNothing, RowsAreWanted
<1>6. RetentionCovers'
  BY DEF IInv, guards, leases, sessions, Call, Held, GuardHeld, LeaseHeld, Rows,
    Published, GoTo, Begin, RetentionCovers, RowsAreWanted
<1>7. OwnersAreKnown'
  BY DEF IInv, guards, leases, sessions, GoTo, Begin, OwnersAreKnown
<1>8. LeasesAreSingle'
  BY CallAssumption DEF IInv, guards, leases, calls, sessions, Call, Running, GoTo, Served, Begin, TypeOK,
    LeasesAreSingle
<1> QED BY <1>1, <1>2, <1>3, <1>4, <1>5, <1>6, <1>7, <1>8 DEF IInv

\* PublishGuard keeps the inductive invariant.
LEMMA PublishGuardKeeps ==
  ASSUME IInv, NEW a \in Acquisition, PublishGuard(a)
  PROVE  IInv'
<1>1. TypeOK'
  BY DEF IInv, leases, sessions, Call, Held, RowState, GuardHeld, LeaseHeld, Running,
    GoTo, ExecutingIn, GuardFree, NextGeneration, PublishGuard, TypeOK
<1>2. RowsAreWanted'
  BY DEF IInv, leases, sessions, Call, Held, RowState, GuardHeld, LeaseHeld, Rows,
    Running, GoTo, ExecutingIn, GuardFree, NextGeneration, PublishGuard, TypeOK,
    RowsAreWanted
<1>3. CallsHaveOwners'
  BY DEF IInv, leases, sessions, Call, Held, GuardHeld, LeaseHeld, Running, GoTo,
    ExecutingIn, GuardFree, NextGeneration, PublishGuard, CallsHaveOwners
<1>4. MaintenanceIsExclusive'
  BY DEF IInv, leases, sessions, Held, GuardHeld, LeaseHeld, Running, GoTo, ExecutingIn,
    GuardFree, NextGeneration, PublishGuard, MaintenanceIsExclusive
<1>5. AllOrNothing'
  BY DEF IInv, leases, sessions, Call, Held, RowState, GuardHeld, LeaseHeld, Rows,
    Running, GoTo, ExecutingIn, GuardFree, NextGeneration, PublishGuard, TypeOK,
    AllOrNothing, RowsAreWanted
<1>6. RetentionCovers'
  BY DEF IInv, leases, sessions, Call, Held, RowState, GuardHeld, LeaseHeld, Rows,
    Published, Running, GoTo, ExecutingIn, GuardFree, NextGeneration, PublishGuard,
    TypeOK, RetentionCovers
<1>7. OwnersAreKnown'
  BY DEF IInv, leases, sessions, Call, Held, GuardHeld, LeaseHeld, Running, GoTo,
    ExecutingIn, GuardFree, NextGeneration, PublishGuard, OwnersAreKnown, CallsHaveOwners
<1>8. LeasesAreSingle'
  BY DEF IInv, guards, leases, calls, sessions, Call, Running, GoTo, Served, PublishGuard, TypeOK,
    LeasesAreSingle
<1> QED BY <1>1, <1>2, <1>3, <1>4, <1>5, <1>6, <1>7, <1>8 DEF IInv

\* GuardBlocked keeps the inductive invariant.
LEMMA GuardBlockedKeeps ==
  ASSUME IInv, NEW a \in Acquisition, GuardBlocked(a)
  PROVE  IInv'
<1>1. MaintenanceIsExclusive' /\ AllOrNothing' /\ OwnersAreKnown'
  BY DEF IInv, guards, leases, sessions, Held, GuardHeld, LeaseHeld, Rows, Running, GoTo,
    ExecutingIn, GuardFree, GuardBlocked, MaintenanceIsExclusive, AllOrNothing,
    OwnersAreKnown
<1>2. TypeOK'
  BY DEF IInv, guards, leases, sessions, Call, Held, RowState, GuardHeld, LeaseHeld,
    Running, GoTo, ExecutingIn, GuardFree, GuardBlocked, TypeOK
<1>3. RowsAreWanted'
  BY DEF IInv, guards, leases, sessions, Held, GuardHeld, LeaseHeld, Rows, Running, GoTo,
    ExecutingIn, GuardFree, GuardBlocked, RowsAreWanted
<1>4. CallsHaveOwners'
  BY DEF IInv, guards, leases, sessions, Call, Held, GuardHeld, LeaseHeld, Running, GoTo,
    ExecutingIn, GuardFree, GuardBlocked, CallsHaveOwners
<1>5. RetentionCovers'
  BY DEF IInv, guards, leases, sessions, Call, Held, GuardHeld, LeaseHeld, Rows,
    Published, Running, GoTo, ExecutingIn, GuardFree, GuardBlocked, RetentionCovers
<1>6. LeasesAreSingle'
  BY DEF IInv, guards, leases, calls, sessions, Call, Running, GoTo, Served, GuardBlocked, TypeOK,
    LeasesAreSingle
<1> QED BY <1>1, <1>2, <1>3, <1>4, <1>5, <1>6 DEF IInv

\* PublishLease keeps the inductive invariant.
LEMMA PublishLeaseKeeps ==
  ASSUME IInv, NEW l \in Lease, PublishLease(l)
  PROVE  IInv'
<1>1. AllOrNothing'
  BY DEF IInv, guards, sessions, Held, GuardHeld, Rows, Running, GoTo,
    NextLeaseGeneration, PublishLease, AllOrNothing
<1>2. TypeOK'
  BY DEF IInv, guards, sessions, Call, Held, RowState, GuardHeld, Running, GoTo,
    NextLeaseGeneration, PublishLease, TypeOK
<1>3. RowsAreWanted'
  BY DEF IInv, guards, sessions, Call, Held, RowState, GuardHeld, Rows, Running, GoTo,
    NextLeaseGeneration, PublishLease, TypeOK, RowsAreWanted
<1>4. CallsHaveOwners'
  BY DEF IInv, guards, sessions, Call, Held, GuardHeld, Running, GoTo,
    NextLeaseGeneration, PublishLease, CallsHaveOwners
<1>5. MaintenanceIsExclusive'
  BY DEF IInv, guards, sessions, Held, GuardHeld, LeaseHeld, Running, GoTo,
    NextLeaseGeneration, PublishLease, MaintenanceIsExclusive
<1>6. RetentionCovers'
  BY DEF IInv, guards, sessions, Call, Held, RowState, GuardHeld, LeaseHeld, Rows,
    Published, Running, GoTo, NextLeaseGeneration, PublishLease, TypeOK, RetentionCovers
<1>7. OwnersAreKnown'
  BY DEF IInv, guards, sessions, Call, Held, GuardHeld, Running, GoTo,
    NextLeaseGeneration, PublishLease, OwnersAreKnown, CallsHaveOwners
<1>8. LeasesAreSingle'
  BY DEF IInv, guards, leases, calls, sessions, Call, Running, GoTo, Served, PublishLease, TypeOK,
    LeasesAreSingle
<1> QED BY <1>1, <1>2, <1>3, <1>4, <1>5, <1>6, <1>7, <1>8 DEF IInv

\* LeaseBlocked keeps the inductive invariant.
LEMMA LeaseBlockedKeeps ==
  ASSUME IInv, NEW l \in Lease, LeaseBlocked(l)
  PROVE  IInv'
<1>1. MaintenanceIsExclusive' /\ AllOrNothing' /\ OwnersAreKnown'
  BY DEF IInv, guards, leases, sessions, Held, GuardHeld, LeaseHeld, Rows, Running, GoTo,
    LeaseBlocked, MaintenanceIsExclusive, AllOrNothing, OwnersAreKnown
<1>2. TypeOK'
  BY DEF IInv, guards, leases, sessions, Call, Held, RowState, GuardHeld, Running, GoTo,
    LeaseBlocked, TypeOK
<1>3. RowsAreWanted'
  BY DEF IInv, guards, leases, sessions, Held, GuardHeld, Rows, Running, GoTo,
    LeaseBlocked, RowsAreWanted
<1>4. CallsHaveOwners'
  BY DEF IInv, guards, leases, sessions, Call, Held, GuardHeld, Running, GoTo,
    LeaseBlocked, CallsHaveOwners
<1>5. RetentionCovers'
  BY DEF IInv, guards, leases, sessions, Call, Held, GuardHeld, LeaseHeld, Rows,
    Published, Running, GoTo, LeaseBlocked, RetentionCovers
<1>6. LeasesAreSingle'
  BY DEF IInv, guards, leases, calls, sessions, Call, Running, GoTo, Served, LeaseBlocked, TypeOK,
    LeasesAreSingle
<1> QED BY <1>1, <1>2, <1>3, <1>4, <1>5, <1>6 DEF IInv

\* Transfer keeps the inductive invariant.
LEMMA TransferKeeps ==
  ASSUME IInv, NEW x \in Call, Transfer(x)
  PROVE  IInv'
<1>1. MaintenanceIsExclusive' /\ AllOrNothing' /\ OwnersAreKnown'
  BY DEF IInv, guards, leases, sessions, Held, GuardHeld, LeaseHeld, Rows, Running, GoTo,
    Transfer, MaintenanceIsExclusive, AllOrNothing, OwnersAreKnown
<1>2. TypeOK'
  BY DEF IInv, guards, leases, sessions, Call, Held, RowState, Running, GoTo, Transfer,
    TypeOK
<1>3. RowsAreWanted'
  BY DEF IInv, guards, leases, sessions, Rows, Running, GoTo, Transfer, RowsAreWanted
<1>4. CallsHaveOwners'
  BY DEF IInv, guards, leases, sessions, Call, Running, GoTo, Transfer, CallsHaveOwners
<1>5. RetentionCovers'
  BY DEF IInv, guards, leases, sessions, Call, Held, GuardHeld, LeaseHeld, Rows,
    Published, Running, GoTo, Transfer, RetentionCovers
<1>6. LeasesAreSingle'
  BY DEF IInv, guards, leases, calls, sessions, Call, Running, GoTo, Served, Transfer, TypeOK,
    LeasesAreSingle
<1> QED BY <1>1, <1>2, <1>3, <1>4, <1>5, <1>6 DEF IInv

\* Interrupt keeps the inductive invariant.
LEMMA InterruptKeeps ==
  ASSUME IInv, NEW x \in Call, Interrupt(x)
  PROVE  IInv'
<1>1. MaintenanceIsExclusive' /\ AllOrNothing' /\ OwnersAreKnown'
  BY DEF IInv, guards, leases, sessions, Held, GuardHeld, LeaseHeld, Rows, Published,
    Running, GoTo, AdoptRetention, Interrupt, MaintenanceIsExclusive, AllOrNothing,
    OwnersAreKnown
<1>2. TypeOK'
  BY DEF IInv, guards, leases, sessions, Call, Held, RowState, GuardHeld, LeaseHeld,
    Rows, Published, Running, GoTo, AdoptRetention, Interrupt, TypeOK
<1>3. RowsAreWanted'
  BY DEF IInv, guards, leases, sessions, Held, GuardHeld, LeaseHeld, Rows, Published,
    Running, GoTo, AdoptRetention, Interrupt, RowsAreWanted
<1>4. CallsHaveOwners'
  BY DEF IInv, guards, leases, sessions, Call, Held, GuardHeld, LeaseHeld, Rows,
    Published, Running, GoTo, AdoptRetention, Interrupt, CallsHaveOwners
<1>5. RetentionCovers'
  BY DEF IInv, guards, leases, sessions, Call, Held, GuardHeld, LeaseHeld, Rows,
    Published, Running, GoTo, AdoptRetention, Interrupt, RetentionCovers
<1>6. LeasesAreSingle'
  BY DEF IInv, guards, leases, calls, sessions, Call, Running, GoTo, Served, Interrupt, TypeOK,
    LeasesAreSingle
<1> QED BY <1>1, <1>2, <1>3, <1>4, <1>5, <1>6 DEF IInv

\* ReleaseGuard keeps the inductive invariant.
LEMMA ReleaseGuardKeeps ==
  ASSUME IInv, NEW a \in Acquisition, NEW D \in SUBSET Directory, ReleaseGuard(a, D)
  PROVE  IInv'
<1>1. CallsHaveOwners'
  BY DEF IInv, leases, calls, sessions, Call, Rows, Served, SetGuards, Matches,
    ReleaseGuard, CallsHaveOwners
<1>2. TypeOK'
  BY DEF IInv, leases, calls, sessions, Call, Held, RowState, Rows, Served, SetGuards,
    Matches, ReleaseGuard, TypeOK
<1>3. RowsAreWanted'
  BY DEF IInv, leases, calls, sessions, Rows, Served, SetGuards, Matches, ReleaseGuard,
    RowsAreWanted
<1>4. MaintenanceIsExclusive'
  BY DEF IInv, leases, calls, sessions, Held, GuardHeld, LeaseHeld, Rows, Served,
    SetGuards, Matches, ReleaseGuard, MaintenanceIsExclusive
<1>5. AllOrNothing'
  BY DEF IInv, leases, calls, sessions, Held, GuardHeld, Rows, Served, SetGuards,
    Matches, ReleaseGuard, AllOrNothing
<1>6. RetentionCovers'
  BY DEF IInv, leases, calls, sessions, Call, Held, GuardHeld, LeaseHeld, Rows,
    Published, Served, SetGuards, Matches, ReleaseGuard, RetentionCovers
<1>7. OwnersAreKnown'
  BY DEF IInv, leases, calls, sessions, Rows, Served, SetGuards, Matches, ReleaseGuard,
    OwnersAreKnown
<1>8. LeasesAreSingle'
  BY DEF IInv, guards, leases, calls, sessions, Call, Running, GoTo, Served, ReleaseGuard, TypeOK,
    LeasesAreSingle
<1> QED BY <1>1, <1>2, <1>3, <1>4, <1>5, <1>6, <1>7, <1>8 DEF IInv

\* ReleaseLease keeps the inductive invariant.
LEMMA ReleaseLeaseKeeps ==
  ASSUME IInv, NEW l \in Lease, ReleaseLease(l)
  PROVE  IInv'
<1>1. CallsHaveOwners' /\ AllOrNothing'
  BY DEF IInv, guards, calls, sessions, Call, Held, GuardHeld, Rows, Served,
    ReleaseLease, AllOrNothing, CallsHaveOwners
<1>2. TypeOK'
  BY DEF IInv, guards, calls, sessions, Call, Held, RowState, Served, ReleaseLease,
    TypeOK
<1>3. RowsAreWanted'
  BY DEF IInv, guards, calls, sessions, Rows, Served, ReleaseLease, RowsAreWanted
<1>4. MaintenanceIsExclusive'
  BY DEF IInv, guards, calls, sessions, Held, GuardHeld, LeaseHeld, Served, ReleaseLease,
    MaintenanceIsExclusive
<1>5. RetentionCovers'
  BY DEF IInv, guards, calls, sessions, Call, Held, GuardHeld, LeaseHeld, Rows,
    Published, Served, ReleaseLease, RetentionCovers
<1>6. OwnersAreKnown'
  BY DEF IInv, guards, calls, sessions, Served, ReleaseLease, OwnersAreKnown
<1>7. LeasesAreSingle'
  BY DEF IInv, guards, leases, calls, sessions, Call, Running, GoTo, Served, ReleaseLease, TypeOK,
    LeasesAreSingle
<1> QED BY <1>1, <1>2, <1>3, <1>4, <1>5, <1>6, <1>7 DEF IInv

\* DropRetention keeps the inductive invariant.
LEMMA DropRetentionKeeps ==
  ASSUME IInv, NEW x \in Call, DropRetention(x)
  PROVE  IInv'
<1>1. RowsAreWanted' /\ MaintenanceIsExclusive' /\ AllOrNothing' /\ OwnersAreKnown'
  BY DEF IInv, guards, leases, calls, sessions, Held, GuardHeld, LeaseHeld, Rows,
    Published, DropRetention, MaintenanceIsExclusive, AllOrNothing, OwnersAreKnown,
    RowsAreWanted
<1>2. TypeOK'
  BY DEF IInv, guards, leases, calls, sessions, Call, Held, RowState, GuardHeld,
    LeaseHeld, Rows, Published, DropRetention, TypeOK
<1>3. CallsHaveOwners'
  BY DEF IInv, guards, leases, calls, sessions, Call, Held, GuardHeld, LeaseHeld, Rows,
    Published, DropRetention, CallsHaveOwners
<1>4. RetentionCovers'
  BY DEF IInv, guards, leases, calls, sessions, Call, Held, GuardHeld, LeaseHeld, Rows,
    Published, DropRetention, RetentionCovers
<1>5. LeasesAreSingle'
  BY DEF IInv, guards, leases, calls, sessions, Call, Running, GoTo, Served, DropRetention, TypeOK,
    LeasesAreSingle
<1> QED BY <1>1, <1>2, <1>3, <1>4, <1>5 DEF IInv

\* ReconcileGuards keeps the inductive invariant.
LEMMA ReconcileGuardsKeeps ==
  ASSUME IInv, NEW q \in Process, ReconcileGuards(q)
  PROVE  IInv'
<1>1. CallsHaveOwners'
  BY DEF IInv, leases, calls, sessions, Call, ProvedDead, Served, SetGuards,
    ReconcileGuards, CallsHaveOwners
<1>2. TypeOK'
  BY DEF IInv, leases, calls, sessions, Call, Held, RowState, ProvedDead, Served,
    SetGuards, ReconcileGuards, TypeOK
<1>3. RowsAreWanted'
  BY DEF IInv, leases, calls, sessions, Rows, ProvedDead, Served, SetGuards,
    ReconcileGuards, RowsAreWanted
<1>4. MaintenanceIsExclusive'
  BY DEF IInv, leases, calls, sessions, Held, GuardHeld, LeaseHeld, ProvedDead, Served,
    SetGuards, ReconcileGuards, MaintenanceIsExclusive
<1>5. AllOrNothing'
  BY DEF IInv, leases, calls, sessions, Held, GuardHeld, Rows, ProvedDead, Served,
    SetGuards, ReconcileGuards, AllOrNothing
<1>6. RetentionCovers'
  BY DEF IInv, leases, calls, sessions, Call, Held, GuardHeld, LeaseHeld, Rows,
    Published, ProvedDead, Served, SetGuards, ReconcileGuards, RetentionCovers
<1>7. OwnersAreKnown'
  BY DEF IInv, leases, calls, sessions, ProvedDead, Served, SetGuards, ReconcileGuards,
    OwnersAreKnown
<1>8. LeasesAreSingle'
  BY DEF IInv, guards, leases, calls, sessions, Call, Running, GoTo, Served, ReconcileGuards, TypeOK,
    LeasesAreSingle
<1> QED BY <1>1, <1>2, <1>3, <1>4, <1>5, <1>6, <1>7, <1>8 DEF IInv

\* ReconcileLeases keeps the inductive invariant.
LEMMA ReconcileLeasesKeeps ==
  ASSUME IInv, NEW q \in Process, ReconcileLeases(q)
  PROVE  IInv'
<1>1. CallsHaveOwners' /\ AllOrNothing'
  BY DEF IInv, guards, calls, sessions, Call, Held, GuardHeld, Rows, ProvedDead, Served,
    ReconcileLeases, AllOrNothing, CallsHaveOwners
<1>2. TypeOK'
  BY DEF IInv, guards, calls, sessions, Call, Held, RowState, ProvedDead, Served,
    ReconcileLeases, TypeOK
<1>3. RowsAreWanted'
  BY DEF IInv, guards, calls, sessions, Rows, ProvedDead, Served, ReconcileLeases,
    RowsAreWanted
<1>4. MaintenanceIsExclusive'
  BY DEF IInv, guards, calls, sessions, Held, GuardHeld, LeaseHeld, ProvedDead, Served,
    ReconcileLeases, MaintenanceIsExclusive
<1>5. RetentionCovers'
  BY DEF IInv, guards, calls, sessions, Call, Held, GuardHeld, LeaseHeld, Rows,
    Published, ProvedDead, Served, ReconcileLeases, RetentionCovers
<1>6. OwnersAreKnown'
  BY DEF IInv, guards, calls, sessions, ProvedDead, Served, ReconcileLeases,
    OwnersAreKnown
<1>7. LeasesAreSingle'
  BY DEF IInv, guards, leases, calls, sessions, Call, Running, GoTo, Served, ReconcileLeases, TypeOK,
    LeasesAreSingle
<1> QED BY <1>1, <1>2, <1>3, <1>4, <1>5, <1>6, <1>7 DEF IInv

\* ResolveGuard keeps the inductive invariant.
LEMMA ResolveGuardKeeps ==
  ASSUME IInv, NEW a \in Acquisition, NEW D \in SUBSET Directory, ResolveGuard(a, D)
  PROVE  IInv'
<1>1. CallsHaveOwners'
  BY DEF IInv, leases, calls, sessions, Call, Rows, ProvedDead, Served, SetGuards,
    Matches, ResolveGuard, CallsHaveOwners
<1>2. TypeOK'
  BY DEF IInv, leases, calls, sessions, Call, Held, RowState, Rows, ProvedDead, Served,
    SetGuards, Matches, ResolveGuard, TypeOK
<1>3. RowsAreWanted'
  BY DEF IInv, leases, calls, sessions, Rows, ProvedDead, Served, SetGuards, Matches,
    ResolveGuard, RowsAreWanted
<1>4. MaintenanceIsExclusive'
  BY DEF IInv, leases, calls, sessions, Held, GuardHeld, LeaseHeld, Rows, ProvedDead,
    Served, SetGuards, Matches, ResolveGuard, MaintenanceIsExclusive
<1>5. AllOrNothing'
  BY DEF IInv, leases, calls, sessions, Held, GuardHeld, Rows, ProvedDead, Served,
    SetGuards, Matches, ResolveGuard, AllOrNothing
<1>6. RetentionCovers'
  BY DEF IInv, leases, calls, sessions, Call, Held, GuardHeld, LeaseHeld, Rows,
    Published, ProvedDead, Served, SetGuards, Matches, ResolveGuard, RetentionCovers
<1>7. OwnersAreKnown'
  BY DEF IInv, leases, calls, sessions, Rows, ProvedDead, Served, SetGuards, Matches,
    ResolveGuard, OwnersAreKnown
<1>8. LeasesAreSingle'
  BY DEF IInv, guards, leases, calls, sessions, Call, Running, GoTo, Served, ResolveGuard, TypeOK,
    LeasesAreSingle
<1> QED BY <1>1, <1>2, <1>3, <1>4, <1>5, <1>6, <1>7, <1>8 DEF IInv

\* ResolveLease keeps the inductive invariant.
LEMMA ResolveLeaseKeeps ==
  ASSUME IInv, NEW l \in Lease, ResolveLease(l)
  PROVE  IInv'
<1>1. CallsHaveOwners' /\ AllOrNothing'
  BY DEF IInv, guards, calls, sessions, Call, Held, GuardHeld, Rows, ProvedDead, Served,
    ResolveLease, AllOrNothing, CallsHaveOwners
<1>2. TypeOK'
  BY DEF IInv, guards, calls, sessions, Call, Held, RowState, ProvedDead, Served,
    ResolveLease, TypeOK
<1>3. RowsAreWanted'
  BY DEF IInv, guards, calls, sessions, Rows, ProvedDead, Served, ResolveLease,
    RowsAreWanted
<1>4. MaintenanceIsExclusive'
  BY DEF IInv, guards, calls, sessions, Held, GuardHeld, LeaseHeld, ProvedDead, Served,
    ResolveLease, MaintenanceIsExclusive
<1>5. RetentionCovers'
  BY DEF IInv, guards, calls, sessions, Call, Held, GuardHeld, LeaseHeld, Rows,
    Published, ProvedDead, Served, ResolveLease, RetentionCovers
<1>6. OwnersAreKnown'
  BY DEF IInv, guards, calls, sessions, ProvedDead, Served, ResolveLease, OwnersAreKnown
<1>7. LeasesAreSingle'
  BY DEF IInv, guards, leases, calls, sessions, Call, Running, GoTo, Served, ResolveLease, TypeOK,
    LeasesAreSingle
<1> QED BY <1>1, <1>2, <1>3, <1>4, <1>5, <1>6, <1>7 DEF IInv

\* Collect keeps the inductive invariant.
LEMMA CollectKeeps ==
  ASSUME IInv, NEW q \in Process, Collect(q)
  PROVE  IInv'
<1>1. RowsAreWanted' /\ MaintenanceIsExclusive' /\ AllOrNothing' /\ RetentionCovers'
  BY DEF IInv, guards, leases, calls, sessions, Call, Held, GuardHeld, LeaseHeld, Rows,
    Published, ProvedDead, Served, Referenced, Collect, MaintenanceIsExclusive,
    AllOrNothing, RetentionCovers, RowsAreWanted
<1>2. TypeOK'
  BY DEF IInv, guards, leases, calls, sessions, Call, Held, RowState, ProvedDead, Served,
    Referenced, Collect, TypeOK
<1>3. CallsHaveOwners'
  BY DEF IInv, guards, leases, calls, sessions, Call, ProvedDead, Served, Referenced,
    Collect, CallsHaveOwners
<1>4. OwnersAreKnown'
  BY DEF IInv, guards, leases, calls, sessions, ProvedDead, Served, Referenced, Collect,
    OwnersAreKnown
<1>5. LeasesAreSingle'
  BY DEF IInv, guards, leases, calls, sessions, Call, Running, GoTo, Served, Collect, TypeOK,
    LeasesAreSingle
<1> QED BY <1>1, <1>2, <1>3, <1>4, <1>5 DEF IInv

\* ReadSession keeps the inductive invariant.
LEMMA ReadSessionKeeps ==
  ASSUME IInv, NEW s \in Session, NEW p \in Process, ReadSession(s, p)
  PROVE  IInv'
<1>1. RowsAreWanted' /\ CallsHaveOwners' /\ AllOrNothing' /\ RetentionCovers' /\ OwnersAreKnown'
  BY DEF IInv, guards, leases, calls, Call, Held, GuardHeld, LeaseHeld, Rows, Published,
    ReadSession, AllOrNothing, RetentionCovers, OwnersAreKnown, RowsAreWanted,
    CallsHaveOwners
<1>2. TypeOK'
  BY DEF IInv, guards, leases, calls, Call, Held, RowState, ReadSession, TypeOK
<1>3. MaintenanceIsExclusive'
  BY DEF IInv, guards, leases, calls, Held, GuardHeld, LeaseHeld, ReadSession,
    MaintenanceIsExclusive
<1>4. LeasesAreSingle'
  BY DEF IInv, guards, leases, calls, sessions, Call, Running, GoTo, Served, ReadSession, TypeOK,
    LeasesAreSingle
<1> QED BY <1>1, <1>2, <1>3, <1>4 DEF IInv

\* Admit keeps the inductive invariant.
LEMMA AdmitKeeps ==
  ASSUME IInv, NEW s \in Session, Admit(s)
  PROVE  IInv'
<1>1. RowsAreWanted' /\ AllOrNothing' /\ RetentionCovers'
  BY DEF IInv, guards, leases, calls, Call, Held, GuardHeld, LeaseHeld, Rows, Published,
    Admissible, Admit, AllOrNothing, RetentionCovers, RowsAreWanted
<1>2. TypeOK'
  BY DEF IInv, guards, leases, calls, Call, Held, RowState, GuardHeld, Admissible, Admit,
    TypeOK
<1>3. CallsHaveOwners'
  BY DEF IInv, guards, leases, calls, Call, Held, GuardHeld, Admissible, Admit,
    CallsHaveOwners
<1>4. MaintenanceIsExclusive'
  BY DEF IInv, guards, leases, calls, Held, GuardHeld, LeaseHeld, Admissible, Admit,
    MaintenanceIsExclusive
<1>5. OwnersAreKnown'
  BY DEF IInv, guards, leases, calls, Held, GuardHeld, Admissible, Admit, OwnersAreKnown
<1>6. LeasesAreSingle'
  BY DEF IInv, guards, leases, calls, sessions, Call, Running, GoTo, Served, Admit, TypeOK,
    LeasesAreSingle
<1> QED BY <1>1, <1>2, <1>3, <1>4, <1>5, <1>6 DEF IInv

\* Refuse keeps the inductive invariant.
LEMMA RefuseKeeps ==
  ASSUME IInv, NEW s \in Session, Refuse(s)
  PROVE  IInv'
<1>1. RowsAreWanted' /\ CallsHaveOwners' /\ MaintenanceIsExclusive' /\ AllOrNothing' /\ RetentionCovers' /\ OwnersAreKnown'
  BY DEF IInv, guards, leases, calls, Call, Held, GuardHeld, LeaseHeld, Rows, Published,
    Admissible, Refuse, MaintenanceIsExclusive, AllOrNothing, RetentionCovers,
    OwnersAreKnown, RowsAreWanted, CallsHaveOwners
<1>2. TypeOK'
  BY DEF IInv, guards, leases, calls, Call, Held, RowState, GuardHeld, Admissible,
    Refuse, TypeOK
<1>3. LeasesAreSingle'
  BY DEF IInv, guards, leases, calls, sessions, Call, Running, GoTo, Served, Refuse, TypeOK,
    LeasesAreSingle
<1> QED BY <1>1, <1>2, <1>3 DEF IInv

\* BeginTurn keeps the inductive invariant.
LEMMA BeginTurnKeeps ==
  ASSUME IInv, NEW s \in Session, BeginTurn(s)
  PROVE  IInv'
<1>1. RowsAreWanted' /\ CallsHaveOwners' /\ MaintenanceIsExclusive' /\ AllOrNothing' /\ RetentionCovers' /\ OwnersAreKnown'
  BY DEF IInv, guards, leases, calls, Call, Held, GuardHeld, LeaseHeld, Rows, Published,
    Executes, BeginTurn, MaintenanceIsExclusive, AllOrNothing, RetentionCovers,
    OwnersAreKnown, RowsAreWanted, CallsHaveOwners
<1>2. TypeOK'
  BY DEF IInv, guards, leases, calls, Call, Held, RowState, Executes, BeginTurn, TypeOK
<1>3. LeasesAreSingle'
  BY DEF IInv, guards, leases, calls, sessions, Call, Running, GoTo, Served, BeginTurn, TypeOK,
    LeasesAreSingle
<1> QED BY <1>1, <1>2, <1>3 DEF IInv

\* EndTurn keeps the inductive invariant.
LEMMA EndTurnKeeps ==
  ASSUME IInv, NEW s \in Session, EndTurn(s)
  PROVE  IInv'
<1>1. RowsAreWanted' /\ CallsHaveOwners' /\ MaintenanceIsExclusive' /\ AllOrNothing' /\ RetentionCovers' /\ OwnersAreKnown'
  BY DEF IInv, guards, leases, calls, Call, Held, GuardHeld, LeaseHeld, Rows, Published,
    EndTurn, MaintenanceIsExclusive, AllOrNothing, RetentionCovers, OwnersAreKnown,
    RowsAreWanted, CallsHaveOwners
<1>2. TypeOK'
  BY DEF IInv, guards, leases, calls, Call, Held, RowState, EndTurn, TypeOK
<1>3. LeasesAreSingle'
  BY DEF IInv, guards, leases, calls, sessions, Call, Running, GoTo, Served, EndTurn, TypeOK,
    LeasesAreSingle
<1> QED BY <1>1, <1>2, <1>3 DEF IInv

\* EndDrain keeps the inductive invariant.
LEMMA EndDrainKeeps ==
  ASSUME IInv, NEW s \in Session, EndDrain(s)
  PROVE  IInv'
<1>1. RowsAreWanted' /\ CallsHaveOwners' /\ AllOrNothing' /\ RetentionCovers'
  BY DEF IInv, guards, leases, calls, Call, Held, GuardHeld, LeaseHeld, Rows, Published,
    Executes, EndDrain, AllOrNothing, RetentionCovers, RowsAreWanted, CallsHaveOwners
<1>2. TypeOK'
  BY DEF IInv, guards, leases, calls, Call, Held, RowState, Executes, EndDrain, TypeOK
<1>3. MaintenanceIsExclusive'
  BY DEF IInv, guards, leases, calls, Held, GuardHeld, LeaseHeld, Executes, EndDrain,
    MaintenanceIsExclusive
<1>4. OwnersAreKnown'
  BY DEF IInv, guards, leases, calls, Executes, EndDrain, OwnersAreKnown
<1>5. LeasesAreSingle'
  BY DEF IInv, guards, leases, calls, sessions, Call, Running, GoTo, Served, EndDrain, TypeOK,
    LeasesAreSingle
<1> QED BY <1>1, <1>2, <1>3, <1>4, <1>5 DEF IInv

\* RecoverExecution keeps the inductive invariant.
LEMMA RecoverExecutionKeeps ==
  ASSUME IInv, NEW s \in Session, RecoverExecution(s)
  PROVE  IInv'
<1>1. RowsAreWanted' /\ CallsHaveOwners' /\ AllOrNothing' /\ RetentionCovers'
  BY DEF IInv, guards, leases, calls, Call, Held, GuardHeld, LeaseHeld, Rows, Published,
    ProvedDead, Served, RecoverExecution, AllOrNothing, RetentionCovers, RowsAreWanted,
    CallsHaveOwners
<1>2. TypeOK'
  BY DEF IInv, guards, leases, calls, Call, Held, RowState, ProvedDead, Served,
    RecoverExecution, TypeOK
<1>3. MaintenanceIsExclusive'
  BY DEF IInv, guards, leases, calls, Held, GuardHeld, LeaseHeld, ProvedDead, Served,
    RecoverExecution, MaintenanceIsExclusive
<1>4. OwnersAreKnown'
  BY DEF IInv, guards, leases, calls, ProvedDead, Served, RecoverExecution,
    OwnersAreKnown
<1>5. LeasesAreSingle'
  BY DEF IInv, guards, leases, calls, sessions, Call, Running, GoTo, Served, RecoverExecution, TypeOK,
    LeasesAreSingle
<1> QED BY <1>1, <1>2, <1>3, <1>4, <1>5 DEF IInv

\* Move keeps the inductive invariant.
LEMMA MoveKeeps ==
  ASSUME IInv, NEW s \in Session, NEW d \in Place, Move(s, d)
  PROVE  IInv'
<1>1. RowsAreWanted' /\ CallsHaveOwners' /\ AllOrNothing' /\ RetentionCovers' /\ OwnersAreKnown'
  BY DEF IInv, guards, leases, calls, Call, Held, GuardHeld, LeaseHeld, Rows, Published,
    Served, Move, AllOrNothing, RetentionCovers, OwnersAreKnown, RowsAreWanted,
    CallsHaveOwners
<1>2. TypeOK'
  BY BoundAssumption DEF IInv, guards, leases, calls, Call, Held, RowState, Served, Move,
    TypeOK
<1>3. MaintenanceIsExclusive'
  BY DEF IInv, guards, leases, calls, Held, GuardHeld, LeaseHeld, Served, Move,
    MaintenanceIsExclusive
<1>4. LeasesAreSingle'
  BY DEF IInv, guards, leases, calls, sessions, Call, Running, GoTo, Served, Move, TypeOK,
    LeasesAreSingle
<1> QED BY <1>1, <1>2, <1>3, <1>4 DEF IInv

\* RemoveDirectory keeps the inductive invariant.
LEMMA RemoveDirectoryKeeps ==
  ASSUME IInv, NEW d \in Place, RemoveDirectory(d)
  PROVE  IInv'
<1>1. RowsAreWanted' /\ CallsHaveOwners' /\ MaintenanceIsExclusive' /\ AllOrNothing' /\ RetentionCovers' /\ OwnersAreKnown'
  BY DEF IInv, guards, leases, calls, sessions, Call, Held, GuardHeld, LeaseHeld, Rows,
    Published, RemoveDirectory, MaintenanceIsExclusive, AllOrNothing, RetentionCovers,
    OwnersAreKnown, RowsAreWanted, CallsHaveOwners
<1>2. TypeOK'
  BY DEF IInv, guards, leases, calls, sessions, Call, Held, RowState, RemoveDirectory,
    TypeOK
<1>3. LeasesAreSingle'
  BY DEF IInv, guards, leases, calls, sessions, Call, Running, GoTo, Served, RemoveDirectory, TypeOK,
    LeasesAreSingle
<1> QED BY <1>1, <1>2, <1>3 DEF IInv

\* CreateDirectory keeps the inductive invariant.
LEMMA CreateDirectoryKeeps ==
  ASSUME IInv, NEW d \in Place, CreateDirectory(d)
  PROVE  IInv'
<1>1. RowsAreWanted' /\ CallsHaveOwners' /\ MaintenanceIsExclusive' /\ AllOrNothing' /\ RetentionCovers' /\ OwnersAreKnown'
  BY DEF IInv, guards, leases, calls, sessions, Call, Held, GuardHeld, LeaseHeld, Rows,
    Published, CreateDirectory, MaintenanceIsExclusive, AllOrNothing, RetentionCovers,
    OwnersAreKnown, RowsAreWanted, CallsHaveOwners
<1>2. TypeOK'
  BY BoundAssumption DEF IInv, guards, leases, calls, sessions, Call, Held, RowState,
    CreateDirectory, TypeOK
<1>3. LeasesAreSingle'
  BY DEF IInv, guards, leases, calls, sessions, Call, Running, GoTo, Served, CreateDirectory, TypeOK,
    LeasesAreSingle
<1> QED BY <1>1, <1>2, <1>3 DEF IInv

\* Crash keeps the inductive invariant.
LEMMA CrashKeeps ==
  ASSUME IInv, NEW p \in Process, Crash(p)
  PROVE  IInv'
<1>1. MaintenanceIsExclusive' /\ AllOrNothing' /\ OwnersAreKnown'
  BY DEF IInv, guards, leases, Call, Held, GuardHeld, LeaseHeld, Rows, Crash,
    MaintenanceIsExclusive, AllOrNothing, OwnersAreKnown
<1>2. TypeOK'
  BY DEF IInv, guards, leases, Call, Held, RowState, Crash, TypeOK
<1>3. RowsAreWanted'
  BY DEF IInv, guards, leases, Call, Rows, Crash, RowsAreWanted
<1>4. CallsHaveOwners'
  BY DEF IInv, guards, leases, Call, Crash, CallsHaveOwners
<1>5. RetentionCovers'
  BY DEF IInv, guards, leases, Call, Held, GuardHeld, LeaseHeld, Rows, Published, Crash,
    RetentionCovers
<1>6. LeasesAreSingle'
  BY DEF IInv, guards, leases, calls, sessions, Call, Crash, TypeOK, CallsHaveOwners,
    LeasesAreSingle
<1> QED BY <1>1, <1>2, <1>3, <1>4, <1>5, <1>6 DEF IInv

\* A step that changes nothing keeps the inductive invariant.
LEMMA StutterKeeps ==
  ASSUME IInv, UNCHANGED vars
  PROVE  IInv'
BY DEF IInv, vars, guards, leases, calls, sessions, TypeOK, RowsAreWanted, LeasesAreSingle,
    CallsHaveOwners, MaintenanceIsExclusive, AllOrNothing, RetentionCovers, OwnersAreKnown,
    Call, Held, RowState, GuardHeld, LeaseHeld, Rows, Published

\* The inductive invariant holds at the start.
LEMMA InitHolds == Init => IInv
BY BoundAssumption, CallAssumption, NoneAssumption
   DEF Init, IInv, TypeOK, RowsAreWanted, LeasesAreSingle, CallsHaveOwners,
       MaintenanceIsExclusive, AllOrNothing, RetentionCovers, OwnersAreKnown,
       Call, Held, RowState, GuardHeld, LeaseHeld, Rows, Published

\* Every step of the system keeps the inductive invariant.
LEMMA NextKeeps ==
  ASSUME IInv, [Next]_vars
  PROVE  IInv'
<1>1. CASE \E a \in Acquisition : GuardStep(a)
  BY <1>1, PublishGuardKeeps, GuardBlockedKeeps, ReleaseGuardKeeps, ResolveGuardKeeps DEF GuardStep
<1>2. CASE \E l \in Lease : LeaseStep(l)
  BY <1>2, PublishLeaseKeeps, LeaseBlockedKeeps, ReleaseLeaseKeeps, ResolveLeaseKeeps DEF LeaseStep
<1>3. CASE \E x \in Call : CallStep(x)
  BY <1>3, BeginKeeps, TransferKeeps, InterruptKeeps, DropRetentionKeeps DEF CallStep
<1>4. CASE \E q \in Process : ProcessStep(q)
  BY <1>4, ReconcileGuardsKeeps, ReconcileLeasesKeeps, CollectKeeps, CrashKeeps DEF ProcessStep
<1>5. CASE \E s \in Session : SessionStep(s)
  BY <1>5, ReadSessionKeeps, AdmitKeeps, RefuseKeeps, BeginTurnKeeps, EndTurnKeeps, EndDrainKeeps,
     RecoverExecutionKeeps, MoveKeeps DEF SessionStep
<1>6. CASE \E d \in Place : PlaceStep(d)
  BY <1>6, RemoveDirectoryKeeps, CreateDirectoryKeeps DEF PlaceStep
<1> QED BY <1>1, <1>2, <1>3, <1>4, <1>5, <1>6, StutterKeeps DEF Next

\* The inductive invariant holds throughout.
THEOREM Inductive == Spec => []IInv
BY InitHolds, NextKeeps, PTL DEF Spec

\* Rows, calls and Sessions keep their types, and a row that is there has a positive
\* generation, which parseToken asks of every token.
THEOREM TypeCorrect == Spec => []TypeOK
BY Inductive, PTL DEF IInv

\* A directory under maintenance is free of leases and of Sessions that execute.
THEOREM Exclusion == Spec => []MaintenanceIsExclusive
<1>1. IInv => MaintenanceIsExclusive BY DEF IInv
<1> QED BY <1>1, Inductive, PTL

\* The directories of an acquisition are held together or not at all.
THEOREM Atomicity == Spec => []AllOrNothing
<1>1. IInv => AllOrNothing BY DEF IInv
<1> QED BY <1>1, Inductive, PTL

\* What a live process has published keeps its heartbeat.
THEOREM Retention == Spec => []RetentionCovers
<1>1. IInv => RetentionCovers BY DEF IInv
<1> QED BY <1>1, Inductive, PTL

\* Whoever wrote a row that is there has an owner row.
THEOREM Owners == Spec => []OwnersAreKnown
<1>1. IInv => OwnersAreKnown BY DEF IInv
<1> QED BY <1>1, Inductive, PTL

\* Only the publication of a guard writes the acquisition of a row.
LEMMA RowsAreRewritten ==
  ASSUME [Next]_vars, ~ \E a \in Acquisition : PublishGuard(a)
  PROVE  guardBy' = guardBy /\ guardGen' = guardGen
BY DEF Next, vars, guards, GuardStep, LeaseStep, CallStep, ProcessStep, SessionStep, PlaceStep,
  Begin, GuardBlocked, PublishLease, LeaseBlocked, Transfer, Interrupt, ReleaseGuard, ReleaseLease,
  DropRetention, ReconcileGuards, ReconcileLeases, ResolveGuard, ResolveLease, Collect, ReadSession,
  Admit, Refuse, BeginTurn, EndTurn, EndDrain, RecoverExecution, Move, RemoveDirectory,
  CreateDirectory, Crash

\* No generation of a directory is given out twice.
THEOREM Generations == Spec => GenerationsIncrease
<1>1. ASSUME IInv, [Next]_vars
      PROVE  [\A d \in Directory : guardBy'[d] # guardBy[d] => guardGen'[d] > guardGen[d]]_vars
  <2>1. CASE \E a \in Acquisition : PublishGuard(a)
    <3>1. PICK a \in Acquisition : PublishGuard(a) BY <2>1
    <3>2. want[a] \subseteq Directory BY <1>1 DEF IInv, TypeOK, Call
    <3>3. guardBy \in [Directory -> Acquisition \cup {None}] /\ guardGen \in [Directory -> Nat]
      BY <1>1 DEF IInv, TypeOK
    <3> QED BY <3>1, <3>2, <3>3 DEF PublishGuard, NextGeneration
  <2>2. CASE ~ \E a \in Acquisition : PublishGuard(a)
    BY <1>1, <2>2, RowsAreRewritten
  <2> QED BY <2>1, <2>2
<1> QED BY <1>1, Inductive, PTL DEF Spec, GenerationsIncrease

-----------------------------------------------------------------------------
(* The turns of Sessions that nobody moves. *)

\* A turn runs in a drain that has the owner row, in the directory the drain has
\* read; unless it was moved since, that is the directory of the Session.
TurnsAreBound ==
  /\ \A s \in Session : turn[s] # None => Executes(s) /\ turn[s] = bound[s]
  /\ \A s \in Session \ strayed : drain[s] # None => home[s] = bound[s]

\* Steps of anyone but Sessions leave them alone, up to the crash of a drain.
LEMMA OtherStepsKeepTurns ==
  ASSUME IInv, TurnsAreBound, [Next]_vars, ~ \E s \in Session : SessionStep(s)
  PROVE  TurnsAreBound'
<1>1. CASE UNCHANGED sessions
  BY <1>1 DEF sessions, TurnsAreBound, Executes
<1>2. CASE \E p \in Process : Crash(p)
  <2>1. PICK p \in Process : Crash(p) BY <1>2
  <2>2. \A s \in Session : turn'[s] # None => turn[s] = turn'[s] /\ drain'[s] = drain[s]
    BY <2>1 DEF Crash
  <2>3. \A s \in Session : drain'[s] # None => drain'[s] = drain[s]
    BY <2>1 DEF Crash
  <2> QED BY <2>1, <2>2, <2>3 DEF Crash, TurnsAreBound, Executes
<1>3. UNCHANGED sessions \/ \E p \in Process : Crash(p)
  BY DEF Next, vars, GuardStep, LeaseStep, CallStep, ProcessStep, PlaceStep,
    Begin, PublishGuard, GuardBlocked, PublishLease, LeaseBlocked, Transfer, Interrupt, ReleaseGuard,
    ReleaseLease, DropRetention, ReconcileGuards, ReconcileLeases, ResolveGuard, ResolveLease, Collect,
    RemoveDirectory, CreateDirectory
<1> QED BY <1>1, <1>2, <1>3

\* No step of a Session takes the owner row, or the location, from under a turn:
\* only the execution of a process that does not run is recovered.
LEMMA SessionStepsKeepTurns ==
  ASSUME IInv, TurnsAreBound, NEW s \in Session, SessionStep(s)
  PROVE  TurnsAreBound'
<1> USE DEF IInv, TypeOK, TurnsAreBound, Executes
<1>1. ASSUME NEW p \in Process, ReadSession(s, p) PROVE TurnsAreBound'
  BY <1>1 DEF ReadSession
<1>2. CASE Admit(s) BY <1>2 DEF Admit
<1>3. CASE Refuse(s) BY <1>3 DEF Refuse
<1>4. CASE BeginTurn(s) BY <1>4 DEF BeginTurn
<1>5. CASE EndTurn(s) BY <1>5 DEF EndTurn
<1>6. CASE EndDrain(s) BY <1>6 DEF EndDrain
<1>7. CASE RecoverExecution(s)
  <2>1. exec[s] \notin alive /\ exec[s] \in Process BY <1>7 DEF RecoverExecution, ProvedDead
  <2>2. ~Executes(s) BY <2>1
  <2> QED BY <1>7, <2>2 DEF RecoverExecution
<1>8. ASSUME NEW d \in Place, Move(s, d) PROVE TurnsAreBound'
  BY <1>8 DEF Move
<1> QED BY <1>1, <1>2, <1>3, <1>4, <1>5, <1>6, <1>7, <1>8 DEF SessionStep

\* Unless its Session is moved, no turn works in a directory under maintenance: the
\* admission looked at the directory the drain had read, and the owner row blocks
\* every guard there until the turn has ended or its process has died.
THEOREM UnmovedTurns == Spec => []UnmovedTurnsAreExcluded
<1>1. Init => TurnsAreBound BY DEF Init, TurnsAreBound
<1>2. IInv /\ TurnsAreBound /\ [Next]_vars => TurnsAreBound'
  BY OtherStepsKeepTurns, SessionStepsKeepTurns
<1>3. IInv /\ TurnsAreBound => UnmovedTurnsAreExcluded
  BY DEF IInv, TypeOK, MaintenanceIsExclusive, TurnsAreBound, Executes, UnmovedTurnsAreExcluded
<1> QED BY <1>1, <1>2, <1>3, Inductive, PTL DEF Spec

-----------------------------------------------------------------------------
(* The refinement of DirectoryLock. *)

\* What is maintained and used does not change when rows, the directories they
\* are for, executions and what has been moved do not.
LEMMA Unseen ==
  ASSUME UNCHANGED <<guardBy, leaseState, want, exec, home, strayed>>,
         \A d \in Directory : GuardHeld(d)' = GuardHeld(d)
  PROVE  UNCHANGED L!lock
BY DEF L!lock, Maintained, Using, LeaseHeld

\* An acquisition that is published takes all its directories at once.
LEMMA PublishTakes ==
  ASSUME IInv, NEW a \in Acquisition, PublishGuard(a)
  PROVE  L!Take(a, want[a])
<1>1. \A d \in Directory : Maintained[d] # a
  BY NoneAssumption DEF IInv, RowsAreWanted, PublishGuard, Running, Maintained, Rows
<1>2. \A d \in want[a] : Maintained[d] = None /\ \A u \in Lease \cup Session : <<u, d>> \notin Using
  BY DEF IInv, TypeOK, Call, PublishGuard, GuardFree, ExecutingIn, Maintained, Using
<1>3. Maintained' = [d \in Directory |-> IF d \in want[a] THEN a ELSE Maintained[d]]
  BY DEF PublishGuard, Maintained, GuardHeld, Held
<1>4. UNCHANGED Using
  BY DEF PublishGuard, Using, LeaseHeld, leases, sessions
<1> QED BY <1>1, <1>2, <1>3, <1>4 DEF L!Take

\* Rows of an acquisition that are released together are given back.
LEMMA ReleaseGives ==
  ASSUME IInv, NEW a \in Acquisition, NEW D \in SUBSET Directory,
         D = Rows(a), SetGuards(D, "released"), UNCHANGED <<guardBy, leases, want, sessions>>
  PROVE  L!GiveBack(a)
<1>1. Maintained' = [d \in Directory |-> IF Maintained[d] = a THEN None ELSE Maintained[d]]
  BY NoneAssumption DEF SetGuards, Rows, Maintained, GuardHeld, Held
<1>2. UNCHANGED Using
  BY DEF Using, LeaseHeld, leases, sessions
<1> QED BY <1>1, <1>2 DEF L!GiveBack

\* Steps on guards give the rows back, take them, or are not seen.
LEMMA GuardRefines ==
  ASSUME IInv, NEW a \in Acquisition, GuardStep(a)
  PROVE  [L!Next]_(L!lock)
<1>1. CASE PublishGuard(a)
  <2>1. want[a] \in SUBSET Directory BY DEF IInv, TypeOK, Call
  <2> QED BY <1>1, <2>1, PublishTakes DEF L!Next
<1>2. CASE GuardBlocked(a)
  BY <1>2, Unseen DEF GuardBlocked, guards, leases, sessions, GuardHeld
<1>3. CASE \E D \in SUBSET Directory : ReleaseGuard(a, D) \/ ResolveGuard(a, D)
  BY <1>3, ReleaseGives DEF ReleaseGuard, ResolveGuard, Matches, calls, L!Next
<1> QED BY <1>1, <1>2, <1>3 DEF GuardStep

\* Steps on leases use a directory, leave it, or are not seen.
LEMMA LeaseRefines ==
  ASSUME IInv, NEW l \in Lease, LeaseStep(l)
  PROVE  [L!Next]_(L!lock)
<1>1. CASE PublishLease(l)
  <2>1. PICK d \in Directory : want[l] = {d}
    BY <1>1 DEF PublishLease, Running, IInv, LeasesAreSingle
  <2>2. Maintained[d] = None BY <1>1, <2>1 DEF PublishLease, Maintained
  <2>3. UNCHANGED Maintained BY <1>1 DEF PublishLease, guards, Maintained, GuardHeld
  <2>4. Using' = Using \cup {<<l, d>>}
    <3>1. leaseState' = [leaseState EXCEPT ![l] = "active"] /\ UNCHANGED <<want, exec, home, strayed>>
      BY <1>1 DEF PublishLease, sessions
    <3>2. \A k \in Lease : LeaseHeld(k)' <=> LeaseHeld(k) \/ k = l
      BY <3>1 DEF IInv, TypeOK, LeaseHeld, Held
    <3> QED BY <2>1, <3>1, <3>2 DEF Using
  <2> QED BY <2>2, <2>3, <2>4 DEF L!Next, L!Use
<1>2. CASE LeaseBlocked(l)
  BY <1>2, Unseen DEF LeaseBlocked, guards, leases, sessions, GuardHeld
<1>3. CASE ReleaseLease(l) \/ ResolveLease(l)
  <2>1. /\ leaseState' = [leaseState EXCEPT ![l] = "released"]
        /\ UNCHANGED <<guardBy, guardState, want, exec, home, strayed>>
    BY <1>3 DEF ReleaseLease, ResolveLease, guards, calls, sessions
  <2>2. UNCHANGED Maintained BY <2>1 DEF Maintained, GuardHeld
  <2>3. \A k \in Lease : LeaseHeld(k)' <=> LeaseHeld(k) /\ k # l
    BY <2>1 DEF IInv, TypeOK, LeaseHeld, Held
  <2>4. Using' = {pair \in Using : pair[1] # l}
    BY <2>1, <2>3, CallAssumption DEF Using
  <2> QED BY <2>2, <2>4 DEF L!Next, L!Leave
<1> QED BY <1>1, <1>2, <1>3 DEF LeaseStep

\* Steps of calls are not seen: a call that begins has no row yet.
LEMMA CallRefines ==
  ASSUME IInv, NEW x \in Call, CallStep(x)
  PROVE  UNCHANGED L!lock
<1>1. ASSUME NEW p \in Process, NEW D \in SUBSET Directory, Begin(x, p, D)
      PROVE  UNCHANGED L!lock
  <2>1. UNCHANGED Maintained BY <1>1 DEF Begin, guards, Maintained, GuardHeld
  <2>2. \A k \in Lease : LeaseHeld(k) => k # x
    BY <1>1 DEF Begin, IInv, RowsAreWanted, LeaseHeld, Held
  <2>3. UNCHANGED Using
    BY <1>1, <2>2 DEF Begin, IInv, TypeOK, Call, leases, sessions, Using, LeaseHeld
  <2> QED BY <2>1, <2>3 DEF L!lock
<1>2. CASE Transfer(x) \/ Interrupt(x) \/ DropRetention(x)
  BY <1>2, Unseen DEF Transfer, Interrupt, DropRetention, guards, leases, calls, sessions, GuardHeld
<1> QED BY <1>1, <1>2 DEF CallStep

\* Steps of processes are not seen: what is reconciled is still held.
LEMMA ProcessRefines ==
  ASSUME IInv, NEW q \in Process, ProcessStep(q)
  PROVE  UNCHANGED L!lock
<1>1. CASE ReconcileGuards(q)
  BY <1>1, Unseen DEF ReconcileGuards, SetGuards, leases, calls, sessions, GuardHeld, Held
<1>2. CASE ReconcileLeases(q)
  <2>1. \A k \in Lease : LeaseHeld(k)' <=> LeaseHeld(k)
    BY <1>2 DEF ReconcileLeases, LeaseHeld, Held
  <2> QED BY <1>2, <2>1 DEF ReconcileLeases, L!lock, Maintained, Using, GuardHeld, guards, calls, sessions
<1>3. CASE Collect(q) \/ Crash(q)
  BY <1>3, Unseen DEF Collect, Crash, guards, leases, calls, sessions, GuardHeld
<1> QED BY <1>1, <1>2, <1>3 DEF ProcessStep

\* Steps of Sessions use a directory, leave it, or are not seen.
LEMMA SessionRefines ==
  ASSUME IInv, NEW s \in Session, SessionStep(s)
  PROVE  [L!Next]_(L!lock)
<1>1. CASE Admit(s)
  <2>1. UNCHANGED Maintained BY <1>1 DEF Admit, guards, Maintained, GuardHeld
  <2>2. CASE s \in strayed
    BY <1>1, <2>1, <2>2 DEF Admit, IInv, TypeOK, leases, calls, Using, LeaseHeld, L!lock
  <2>3. CASE s \notin strayed
    <3>1. home[s] \in Directory /\ Maintained[home[s]] = None
      BY <1>1 DEF Admit, Admissible, IInv, TypeOK, Maintained
    <3>2. exec' = [exec EXCEPT ![s] = drain[s]] /\ drain[s] # None /\ UNCHANGED <<leases, want, home, strayed>>
      BY <1>1 DEF Admit, calls
    <3>3. \A t \in Session : exec'[t] # None <=> exec[t] # None \/ t = s
      BY <3>2 DEF IInv, TypeOK
    <3>4. Using' = Using \cup {<<s, home[s]>>}
      BY <2>3, <3>1, <3>2, <3>3 DEF Using, LeaseHeld, leases
    <3> QED BY <2>1, <3>1, <3>4 DEF L!Next, L!Use
  <2> QED BY <2>2, <2>3
<1>2. CASE EndDrain(s) \/ RecoverExecution(s)
  <2>1. exec' = [exec EXCEPT ![s] = None] /\ UNCHANGED <<guards, leases, want, home, strayed>>
    BY <1>2 DEF EndDrain, RecoverExecution, calls
  <2>2. UNCHANGED Maintained BY <2>1 DEF guards, Maintained, GuardHeld
  <2>3. \A t \in Session : exec'[t] # None <=> exec[t] # None /\ t # s
    BY <2>1 DEF IInv, TypeOK
  <2>4. Using' = {pair \in Using : pair[1] # s}
    BY <2>1, <2>3, CallAssumption DEF Using, LeaseHeld, leases
  <2> QED BY <2>2, <2>4 DEF L!Next, L!Leave
<1>3. ASSUME NEW d \in Place, Move(s, d) PROVE [L!Next]_(L!lock)
  <2>1. /\ home' = [home EXCEPT ![s] = d] /\ strayed' = strayed \cup {s}
        /\ UNCHANGED <<guards, leases, want, exec>>
    BY <1>3 DEF Move, calls
  <2>2. UNCHANGED Maintained BY <2>1 DEF guards, Maintained, GuardHeld
  <2>3. \A t \in Session : t \notin strayed' => t # s /\ home'[t] = home[t]
    BY <2>1 DEF IInv, TypeOK
  <2>4. Using' = {pair \in Using : pair[1] # s}
    BY <2>1, <2>3, CallAssumption DEF Using, LeaseHeld, leases
  <2> QED BY <2>2, <2>4 DEF L!Next, L!Leave
<1>4. ASSUME NEW p \in Process, ReadSession(s, p) PROVE UNCHANGED L!lock
  <2>1. UNCHANGED Maintained BY <1>4 DEF ReadSession, guards, Maintained, GuardHeld
  <2>2. \A t \in Session : exec[t] # None => (t \in strayed' <=> t \in strayed)
    BY <1>4 DEF ReadSession
  <2>3. UNCHANGED Using BY <1>4, <2>2 DEF ReadSession, leases, calls, Using, LeaseHeld
  <2> QED BY <2>1, <2>3 DEF L!lock
<1>5. CASE Refuse(s) \/ BeginTurn(s) \/ EndTurn(s)
  BY <1>5, Unseen DEF Refuse, BeginTurn, EndTurn, guards, leases, calls, GuardHeld
<1> QED BY <1>1, <1>2, <1>3, <1>4, <1>5 DEF SessionStep

\* Guards, leases and executions implement DirectoryLock.
THEOREM Refinement == Spec => LockSpec
<1>1. Init => L!Init
  BY DEF Init, L!Init, Maintained, Using, GuardHeld, LeaseHeld, Held
<1>2. ASSUME IInv, [Next]_vars PROVE [L!Next]_(L!lock)
  <2>1. CASE UNCHANGED vars
    BY <2>1, Unseen DEF vars, guards, leases, calls, sessions, GuardHeld
  <2>2. CASE \E d \in Place : PlaceStep(d)
    BY <2>2, Unseen DEF PlaceStep, RemoveDirectory, CreateDirectory, guards, leases, calls, sessions, GuardHeld
  <2> QED BY <1>2, <2>1, <2>2, GuardRefines, LeaseRefines, CallRefines, ProcessRefines, SessionRefines DEF Next
<1> QED BY <1>1, <1>2, Inductive, PTL DEF Spec, LockSpec, L!Spec
=============================================================================
