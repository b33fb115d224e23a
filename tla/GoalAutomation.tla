----------------------------- MODULE GoalAutomation -----------------------------
(***************************************************************************)
(* The automation row of one Session's focused Goal                        *)
(* (packages/core/src/goal/automation.ts): the reservation of the next     *)
(* worker cycle, the request for an audit of the last one, and the lease   *)
(* of the auditor at work.  The operators say what a statement makes of a  *)
(* row; GoalCycle says who runs them, and when.  A lease is named by its   *)
(* agent: auditing_at keeps two leases of one agent apart, and an agent is *)
(* done with one before it begins another.                                 *)
(***************************************************************************)
EXTENDS SessionInput

CONSTANTS
  Process,
  Agent,     \* runners, and the audits of the V1 host
  ProcOf,    \* Agent -> Process
  Cut,       \* a lease that lost auditing_at and kept auditor_session_id
  None

ASSUME AgentAssumption ==
  /\ ProcOf \in [Agent -> Process]
  /\ Cut \notin Agent /\ None \notin Agent \cup Reservation \cup Process \cup {Cut}

VARIABLES
  goal,    \* the Goal's status; "ended" stands for completed, cancelled and failed
  row,     \* the row of the Session; NoRow when there is none
  fence,   \* reservation -> the user frontier it was authorized for
  issued   \* reservations made so far

\* request is audit_requested_at: "failed" is a retry after an error.
NoRow == [res |-> None, owner |-> None, request |-> "none", lease |-> None]

Rows ==
  [res : Reservation \cup {None}, owner : Process \cup {None},
   request : {"none", "asked", "failed"}, lease : Agent \cup {None, Cut}]

GoalOpen == goal \in {"active", "verifying"}

Phase ==
  IF row.lease \in Agent THEN "auditing"
  ELSE IF row.request = "failed" THEN "audit_error"
  ELSE IF row.lease = Cut THEN "incomplete"
  ELSE IF row.request = "asked" THEN "audit_requested"
  ELSE IF row.res = None THEN "none"
  ELSE IF row.owner = None THEN "continuation_pending" ELSE "working"

\* claim: the row as it leaves it for process p, and the reservation p has won.
Claimable == row.res # None /\ row.owner = None /\ row.request = "none"
\* A mutated frontier: a claim is not held against what the user has said since.
CurrentOpen == GoalOpen

Current == fence[row.res] = LatestUserSeq /\ GoalOpen
Claim(p) ==
  IF ~Claimable THEN row
  ELSE IF Current THEN [row EXCEPT !.owner = p, !.lease = None] ELSE NoRow
Won == IF Claimable /\ Current THEN row.res ELSE None

\* A mutated recovery: the audit of a cycle without a reservation is forgotten.
RecoverableReserved ==
  /\ row.request # "none" /\ row.lease = None
  /\ row.res # None /\ row.owner = None

\* claimAuditRecovery: a request that is due (time is not modelled) is claimed with
\* its reservation.
Recoverable ==
  /\ row.request # "none" /\ row.lease = None
  /\ row.res # None => row.owner = None
ClaimAuditRecovery(p) == IF row.res = None THEN row ELSE [row EXCEPT !.owner = p]

Release(w, r, p) ==
  IF w.res = r /\ r # None /\ w.owner = p
  THEN [w EXCEPT !.owner = None, !.lease = IF @ = None THEN None ELSE Cut]
  ELSE w

\* A mutated release: the claim of a retry is left as it is.
ReleaseAskedRecovery(w, r, p) ==
  IF w.res = r /\ r # None /\ w.owner = p /\ w.request = "asked" /\ w.lease = None
  THEN [w EXCEPT !.owner = None]
  ELSE w

ReleaseAuditRecovery(w, r, p) ==
  IF w.res = r /\ r # None /\ w.owner = p /\ w.request # "none" /\ w.lease = None
  THEN [w EXCEPT !.owner = None]
  ELSE w

\* A mutated requeue: a live audit cursor is cleared with the claim.
RequeueClaimOnly(w, p) ==
  IF w.res # None /\ w.owner = p THEN [w EXCEPT !.owner = None, !.lease = None] ELSE w

RequeueClaim(w, p) ==
  IF w.res # None /\ w.owner = p
  THEN [w EXCEPT !.owner = None, !.request = IF w.lease = None THEN @ ELSE "asked", !.lease = None]
  ELSE w

DeferAudit(w, a) ==
  IF w.lease = a THEN [w EXCEPT !.request = "asked", !.lease = None, !.owner = None] ELSE w

\* A mutated start: leases become requests, claims stay.
SweepLeases(w, p) ==
  IF w.lease # None THEN [w EXCEPT !.request = "asked", !.lease = None, !.owner = None] ELSE w

\* What a new process does when it starts: leases become requests, and claims of
\* other processes are released.
Sweep(w, p) ==
  IF w.lease # None
  THEN [w EXCEPT !.request = "asked", !.lease = None, !.owner = None]
  ELSE IF w.res # None /\ w.owner # p THEN [w EXCEPT !.owner = None] ELSE w

RequestAudit ==
  IF ~GoalOpen \/ row.lease \in Agent THEN row
  ELSE IF row.request # "none" /\ row.res # None
  THEN (IF row.request = "failed" /\ row.owner = None THEN [row EXCEPT !.request = "asked"] ELSE row)
  ELSE [NoRow EXCEPT !.request = "asked"]

\* beginAudit inserts a row, or takes the one that carries its own claim (or no
\* reservation, when the audit has none).
MayBegin(r, p) ==
  /\ GoalOpen
  /\ \/ row = NoRow
     \/ /\ row.lease \notin Agent
        /\ row.res = r /\ (r # None => row.owner = p)

\* A mutated lease: it names the process.
BeginAuditFor(a) == [row EXCEPT !.request = "none", !.lease = ProcOf[a]]

BeginAudit(a) == [row EXCEPT !.request = "none", !.lease = a]

InitAutomation ==
  /\ goal = "active"
  /\ row = NoRow
  /\ fence = [r \in Reservation |-> 0]
  /\ issued = {}

TypeOKAutomation ==
  /\ goal \in {"active", "verifying", "blocked", "paused", "ended"}
  /\ row \in Rows
  /\ fence \in [Reservation -> Nat]
  /\ issued \subseteq Reservation
=============================================================================
