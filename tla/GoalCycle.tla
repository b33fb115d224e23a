------------------------------- MODULE GoalCycle -------------------------------
(***************************************************************************)
(* How a Session works on its Goal: SessionRunner.run                      *)
(* (packages/core/src/session/runner/llm.ts) with the audits that follow   *)
(* its cycles (goal/auditor.ts), afterTurn (goal/automation.ts), the       *)
(* audits a V1 host recovers (opencode/src/session/prompt.ts), and the     *)
(* people who prompt the Session and change the Goal meanwhile.  At most   *)
(* one runner executes the Session, as SessionExecutionOwner has it.       *)
(***************************************************************************)
EXTENDS GoalAutomation

CONSTANTS
  Runner,     \* the agents that are runners
  Mortal,     \* processes that may crash
  OneProcess, \* processes of this database run one after the other
  MaxChange   \* bound: changes of the Goal by people and workers

ASSUME RunnerAssumption ==
  Runner \subseteq Agent /\ Mortal \subseteq Process /\ OneProcess \in BOOLEAN /\ MaxChange \in Nat

VARIABLES
  proc,     \* Process -> "new", "up" or "dead"
  job,      \* where each agent stands, and what it remembers
  asks,     \* where the prompt of each user input stands
  owed,     \* a lifecycle change has yet to cancel the automation
  changes,  \* bound: changes so far
  audited   \* history: reservations whose audit has begun

everything == <<inputs, goal, row, fence, issued, proc, job, asks, owed, changes, audited>>
humans == <<asks, owed, changes>>

\* mine is a claimed reservation; source the class of the cycle; lane the lane it
\* promotes from; cut its user frontier; spent: a provider was asked; ahead:
\* supersededByUser; revised: the Goal has changed since the audit read it.
Off == [at |-> "off", mine |-> None, source |-> "none", lane |-> NoLane, cut |-> 0,
        spent |-> FALSE, ahead |-> FALSE, verdict |-> "none", revised |-> FALSE]

Verdicts == {"continue", "complete", "blocked", "failed"}

Init ==
  /\ InitInputs
  /\ InitAutomation
  /\ proc = [p \in Process |-> "new"]
  /\ job = [a \in Agent |-> Off]
  /\ asks = [i \in UserInput |-> "new"]
  /\ owed = FALSE
  /\ changes = 0
  /\ audited = {}

At(a, s) == job[a].at = s
Home(a) == ProcOf[a]
Set(a, j) == job' = [job EXCEPT ![a] = j]
Someone == \E p \in Process : proc[p] = "up"
Working == \E a \in Runner : ~At(a, "off")

-----------------------------------------------------------------------------
(* Prompts, host inputs and the Goal's life.                                *)

\* promptInternal admits the input; then it cancels the automation and reopens a
\* blocked Goal.
Prompt(i) ==
  /\ asks[i] = "new" /\ Someone
  /\ ProjectAdmitted(i)
  /\ asks' = [asks EXCEPT ![i] = "cancel"]
  /\ UNCHANGED <<goal, row, fence, issued, proc, job, owed, changes, audited>>

CancelForUser(i) ==
  /\ asks[i] = "cancel"
  /\ row' = NoRow
  /\ asks' = [asks EXCEPT ![i] = "reopen"]
  /\ UNCHANGED <<inputs, goal, fence, issued, proc, job, owed, changes, audited>>

\* Every change of the Goal bumps its revision, which audits under way compare.
Revise(s) ==
  /\ goal' = s
  /\ job' = [a \in Agent |-> [job[a] EXCEPT !.revised = @ \/ (goal # s /\ job[a].at # "off")]]

ReactivateBlocked(i) ==
  /\ asks[i] = "reopen"
  /\ Revise(IF goal = "blocked" THEN "active" ELSE goal)
  /\ asks' = [asks EXCEPT ![i] = "done"]
  /\ UNCHANGED <<inputs, row, fence, issued, proc, owed, changes, audited>>

AdmitHost(i) ==
  /\ Someone /\ i \in HostInput
  /\ AdmitSynthetic(i)
  /\ UNCHANGED <<goal, row, fence, issued, proc, job, humans, audited>>

\* The transitions of state-machine.ts.
NextGoal(s, t) ==
  \/ s = "active" /\ t \in {"paused", "blocked", "verifying", "ended"}
  \/ s \in {"paused", "blocked"} /\ t \in {"active", "ended"}
  \/ s = "verifying" /\ t \in {"active", "ended"}

\* The handler of the Goal routes: pause, cancel, fail and verification_fail also
\* cancel the automation, in a step of its own.
Transition(t) ==
  /\ Someone /\ ~owed /\ changes < MaxChange
  /\ changes' = changes + 1
  /\ NextGoal(goal, t) /\ Revise(t)
  /\ owed' = (t \in {"paused", "ended"} \/ (goal = "verifying" /\ t = "active"))
  /\ UNCHANGED <<inputs, row, fence, issued, proc, asks, audited>>

CancelForTransition ==
  /\ owed
  /\ row' = NoRow /\ owed' = FALSE
  /\ UNCHANGED <<inputs, goal, fence, issued, proc, job, asks, changes, audited>>

\* The handler's request_verification of an open Goal.  Its audit is StartAudit.
AskForAudit ==
  /\ Someone /\ changes < MaxChange
  /\ changes' = changes + 1
  /\ row' = RequestAudit
  /\ UNCHANGED <<inputs, goal, fence, issued, proc, job, asks, owed, audited>>

\* recoverGoalAudit of a verifying Goal that has no row.
RepairRequest ==
  /\ Someone /\ goal = "verifying" /\ row = NoRow
  /\ row' = RequestAudit
  /\ UNCHANGED <<inputs, goal, fence, issued, proc, job, humans, audited>>

-----------------------------------------------------------------------------
(* The runner: what runs next.                                              *)

\* run claims a due request, or else, when nothing of a higher class is pending,
\* the reservation.
StartRecovery(a) ==
  /\ Phase = "audit_requested" /\ Recoverable /\ GoalOpen
  /\ row' = ClaimAuditRecovery(Home(a))
  /\ Set(a, [Off EXCEPT !.at = "audit", !.mine = row.res, !.lane = NextLane,
       !.source = IF row.res = None THEN "recovery" ELSE "automatic",
       !.cut = IF row.res = None THEN 0 ELSE fence[row.res]])

StartCycle(a) ==
  /\ ~(Phase = "audit_requested" /\ Recoverable /\ GoalOpen)
  /\ LET free == Phase = "audit_requested" /\ ~GoalOpen /\ row.lease = None
         auto == LaneClass(NextLane) \in {"automatic", "none"}
     IN  IF ~free /\ auto
         THEN /\ row' = Claim(Home(a))
              /\ Set(a, IF NextLane = NoLane /\ Won = None THEN Off
                        ELSE [Off EXCEPT !.at = "loop", !.mine = Won, !.lane = NextLane])
         ELSE /\ row' = IF free THEN NoRow ELSE row
              /\ Set(a, IF NextLane = NoLane THEN Off ELSE [Off EXCEPT !.at = "loop", !.lane = NextLane])

StartDrain(a) ==
  /\ a \in Runner /\ proc[Home(a)] = "up" /\ ~Working
  /\ StartRecovery(a) \/ StartCycle(a)
  /\ UNCHANGED <<inputs, goal, fence, issued, proc, humans, audited>>

LaneOf(a) == IF job[a].lane = NoLane THEN NextLane ELSE job[a].lane

\* Input of a user or of the host comes first; a claimed reservation is cancelled or
\* put back.
TakeInput(a) ==
  /\ At(a, "loop") /\ LaneClass(LaneOf(a)) \in {"user", "host"}
  /\ row' = IF LaneClass(LaneOf(a)) = "user" THEN NoRow ELSE Release(row, job[a].mine, Home(a))
  /\ Set(a, [Off EXCEPT !.at = "promote", !.source = LaneClass(LaneOf(a)), !.lane = LaneOf(a),
                        !.cut = LatestUserSeq])
  /\ UNCHANGED <<inputs, goal, fence, issued, proc, humans, audited>>

\* Otherwise the reservation, claimed now if it was not before; an automatic input
\* without one is revoked, and without either the drain ends.
TakeContinuation(a) ==
  /\ At(a, "loop") /\ LaneClass(LaneOf(a)) \in {"automatic", "none"}
  /\ IF job[a].mine # None
     THEN /\ Set(a, [job[a] EXCEPT !.at = "materialize", !.lane = NoLane])
          /\ UNCHANGED <<inputs, row>>
     ELSE IF Won # None
     THEN /\ row' = Claim(Home(a))
          /\ Set(a, [job[a] EXCEPT !.at = "materialize", !.mine = Won, !.lane = NoLane])
          /\ UNCHANGED inputs
     ELSE IF LaneOf(a) = AutomaticLane
     THEN /\ row' = Claim(Home(a))
          /\ RevokeFirst(AutomaticLane)
          /\ Set(a, [job[a] EXCEPT !.lane = NoLane])
     ELSE /\ row' = RequeueClaim(Claim(Home(a)), Home(a))
          /\ Set(a, Off)
          /\ UNCHANGED inputs
  /\ UNCHANGED <<goal, fence, issued, proc, humans, audited>>

-----------------------------------------------------------------------------
(* The runner: one cycle.                                                   *)

Loop == [Off EXCEPT !.at = "loop"]

\* verifyLatestUserSeq, in the transaction of the admission.
Fenced(r) == fence[r] = LatestUserSeq

Materialize(a) ==
  LET r == job[a].mine
      run(s) == Set(a, [job[a] EXCEPT !.at = s, !.source = "automatic", !.lane = AutomaticLane, !.cut = fence[r]])
  IN
  /\ At(a, "materialize")
  /\ \/ inbox[r] = "promoted" /\ run("dispatch") /\ UNCHANGED <<inputs, row>>
     \/ inbox[r] = "pending" /\ run("promote") /\ UNCHANGED <<inputs, row>>
     \/ inbox[r] = "absent" /\ Fenced(r) /\ AdmitSynthetic(r) /\ run("promote") /\ UNCHANGED row
     \/ /\ inbox[r] = "absent" /\ ~Fenced(r)
        /\ row' = (IF row.res = r THEN NoRow ELSE row) /\ Set(a, Loop) /\ UNCHANGED inputs
     \/ inbox[r] = "revoked" /\ row' = NoRow /\ Set(a, Loop) /\ UNCHANGED inputs
  /\ UNCHANGED <<goal, fence, issued, proc, humans, audited>>

\* A cycle that asked no provider gives its claim up.
Unspent(a) ==
  /\ row' = IF job[a].mine # None /\ PendingUser THEN NoRow ELSE Release(row, job[a].mine, Home(a))
  /\ Set(a, Loop)

Promote(a) ==
  /\ At(a, "promote")
  /\ IF Selected(job[a].lane) = {} /\ ~job[a].spent
     THEN Unspent(a) /\ UNCHANGED inputs
     ELSE /\ PromoteLane(job[a].lane)
          /\ Set(a, [job[a] EXCEPT !.at = "dispatch"])
          /\ UNCHANGED row
  /\ UNCHANGED <<goal, fence, issued, proc, humans, audited>>

\* The cycle is over; the audit reads the Goal.
Evaluating(j) == [Off EXCEPT !.at = "audit", !.mine = j.mine, !.source = j.source, !.cut = j.cut]

\* Is input of a higher class pending, just before the provider is asked?
Dispatch(a) ==
  /\ At(a, "dispatch")
  /\ IF ~HigherPending(job[a].source)
     THEN Set(a, [job[a] EXCEPT !.at = "turn"]) /\ UNCHANGED row
     ELSE IF job[a].spent
     THEN Set(a, Evaluating(job[a])) /\ UNCHANGED row
     ELSE Unspent(a)
  /\ UNCHANGED <<inputs, goal, fence, issued, proc, humans, audited>>

\* The frontier of a user's cycle moves with it; others keep theirs.
Frontier(a) == IF job[a].source = "user" THEN LatestUserSeq ELSE job[a].cut

\* A turn that needs another, or steers of its class, goes on; else the cycle is
\* over and is audited.
EndTurn(a) ==
  LET j == [job[a] EXCEPT !.spent = TRUE, !.cut = Frontier(a)]
      steers == \E i \in Pending : job[a].source # "automatic" /\ Lane(i) = SteerLane(job[a].source)
  IN
  /\ At(a, "turn")
  /\ \/ job[a].source = "automatic" /\ Set(a, [j EXCEPT !.at = "dispatch"])
     \/ job[a].source # "automatic" /\ Set(a, [j EXCEPT !.at = "promote", !.lane = SteerLane(j.source)])
     \/ ~steers /\ Set(a, Evaluating(j))
  /\ UNCHANGED <<inputs, goal, row, fence, issued, proc, humans, audited>>

-----------------------------------------------------------------------------
(* Audits: of a runner's cycle, or recovered by the V1 host.                *)

\* auditGoal: the Session is not busy, the Goal is open (shouldAudit), and the request
\* is claimed.
StartAudit(a) ==
  /\ a \notin Runner /\ At(a, "off") /\ proc[Home(a)] = "up" /\ ~Working
  /\ Phase \in {"audit_requested", "audit_error"} /\ Recoverable /\ GoalOpen
  /\ row' = ClaimAuditRecovery(Home(a))
  /\ Set(a, [Off EXCEPT !.at = "audit", !.mine = row.res,
       !.source = IF row.res = None THEN "recovery" ELSE "automatic",
       !.cut = IF row.res = None THEN LatestPromotedUserSeq ELSE fence[row.res]])
  /\ UNCHANGED <<inputs, goal, fence, issued, proc, humans, audited>>

\* What an agent goes on with after an audit: a runner with its loop, where the lane
\* it has read before a recovery is still the next one.
Rest(a) == IF a \in Runner THEN [Loop EXCEPT !.lane = job[a].lane] ELSE Off
LeaveAudit(a, w) ==
  /\ Set(a, Rest(a))
  /\ row' = IF a \in Runner THEN w ELSE ReleaseAuditRecovery(w, job[a].mine, Home(a))

\* supersededByUser, and the frontier that a continuation is authorized for.
Ahead(a) ==
  IF a \in Runner THEN job[a].source \in {"host", "automatic"} /\ PendingUser
  ELSE LatestUserSeq # job[a].cut
Authorized(a) ==
  IF a \in Runner /\ job[a].source = "recovery" THEN LatestUserSeq ELSE job[a].cut

\* What afterTurn is called with.
Judge(a, v) ==
  Set(a, [Off EXCEPT !.at = "settle", !.mine = job[a].mine, !.lane = job[a].lane, !.verdict = v,
    !.ahead = v # "complete" /\ Ahead(a), !.cut = IF v = "continue" THEN Authorized(a) ELSE 0,
    !.revised = job[a].revised])

\* No model, or no auditor Session: there is no lease to settle.
FailUnaudited(a) ==
  /\ At(a, "audit")
  /\ Judge(a, "unaudited")
  /\ UNCHANGED <<inputs, goal, row, fence, issued, proc, humans, audited>>

StartLease(a) ==
  /\ At(a, "audit")
  /\ IF MayBegin(job[a].mine, Home(a))
     THEN /\ row' = BeginAudit(a)
          /\ audited' = audited \cup ({row.res} \ {None})
          /\ Set(a, [job[a] EXCEPT !.at = "auditing"])
     ELSE LeaveAudit(a, row) /\ UNCHANGED audited
  /\ UNCHANGED <<inputs, goal, fence, issued, proc, humans>>

\* Bound: every verdict to go on can have a reservation of its own.
Room == Cardinality(issued) + Cardinality({b \in Agent : job[b].verdict = "continue"}) < Cardinality(Reservation)

\* The auditor answers, or its time is over.
Answer(a) ==
  /\ At(a, "auditing")
  /\ \E v \in Verdicts : (v = "continue" => Room) /\ Judge(a, v)
  /\ UNCHANGED <<inputs, goal, row, fence, issued, proc, humans, audited>>

\* afterTurn reads the Goal and the row: is this call still the one to settle?
Cursor(a) == job[a].verdict # "unaudited"
LostClaim(a) == job[a].mine # None /\ (row.res # job[a].mine \/ row.owner # Home(a))
Superseded(a) ==
  \/ IF Cursor(a) THEN row.lease # a ELSE row.lease \in Agent
  \/ LostClaim(a)

Settle(a) ==
  /\ At(a, "settle")
  /\ IF Superseded(a) THEN LeaveAudit(a, row)
     ELSE IF ~GoalOpen \/ (job[a].ahead /\ job[a].verdict \in {"unaudited", "failed", "blocked"})
     THEN LeaveAudit(a, NoRow)
     ELSE /\ Set(a, [job[a] EXCEPT !.at =
               IF job[a].verdict \notin {"unaudited", "failed"} THEN "reconcile"
               ELSE IF row = NoRow THEN "insert" ELSE "retry"])
          /\ UNCHANGED row
  /\ UNCHANGED <<inputs, goal, fence, issued, proc, humans, audited>>

\* scheduleAuditRetry updates the row it has read, under the lease and the claim it
\* has, or inserts one.
Failed(w) == [w EXCEPT !.request = "failed", !.lease = None, !.owner = None]
Retry(a) ==
  /\ \/ /\ At(a, "retry")
        /\ LeaveAudit(a, IF row = NoRow \/ (Cursor(a) /\ row.lease # a) \/ LostClaim(a)
                         THEN row ELSE Failed(row))
     \/ At(a, "insert") /\ LeaveAudit(a, IF row = NoRow THEN Failed(NoRow) ELSE row)
  /\ UNCHANGED <<inputs, goal, fence, issued, proc, humans, audited>>

\* reconcileAuditorVerdict, in one transaction: a Goal of another revision is audited
\* again.
Reconcile(a) ==
  LET s == IF job[a].verdict = "complete" THEN "ended"
           ELSE IF job[a].verdict = "blocked" THEN "blocked" ELSE "active"
  IN
  /\ At(a, "reconcile")
  /\ IF job[a].revised
     THEN LeaveAudit(a, DeferAudit(row, a)) /\ UNCHANGED goal
     ELSE /\ goal' = s
          /\ job' = [b \in Agent |->
               IF b = a THEN [job[a] EXCEPT !.at = "conclude"]
               ELSE [job[b] EXCEPT !.revised = @ \/ (goal # s /\ job[b].at # "off")]]
          /\ UNCHANGED row
  /\ UNCHANGED <<inputs, fence, issued, proc, humans, audited>>

\* afterTurn writes the outcome over whatever row there is now.
Conclude(a) ==
  /\ At(a, "conclude")
  /\ IF job[a].verdict # "continue" \/ job[a].ahead
     THEN LeaveAudit(a, NoRow) /\ UNCHANGED <<fence, issued>>
     ELSE \E r \in Reservation \ issued :
            /\ LeaveAudit(a, [NoRow EXCEPT !.res = r])
            /\ fence' = [fence EXCEPT ![r] = job[a].cut]
            /\ issued' = issued \cup {r}
  /\ UNCHANGED <<inputs, goal, proc, humans, audited>>

-----------------------------------------------------------------------------
(* Interrupts, crashes and starts.                                          *)

\* The finalizers of a fiber that is interrupted or fails: the exact lease is
\* deferred and the claim is put back.
Carrying(a) == job[a].mine # None /\ job[a].at \in {"materialize", "promote", "dispatch", "turn"}
Finalize(a, w) ==
  IF a \in Runner
  THEN RequeueClaim(IF Carrying(a) THEN Release(w, job[a].mine, Home(a)) ELSE DeferAudit(w, a), Home(a))
  ELSE ReleaseAuditRecovery(DeferAudit(w, a), job[a].mine, Home(a))

Interrupt(a) ==
  /\ ~At(a, "off")
  /\ row' = Finalize(a, row)
  /\ Set(a, Off)
  /\ UNCHANGED <<inputs, goal, fence, issued, proc, humans, audited>>

Boot(p) ==
  /\ proc[p] = "new"
  /\ OneProcess => ~Someone
  /\ proc' = [proc EXCEPT ![p] = "up"]
  /\ row' = Sweep(row, p)
  /\ UNCHANGED <<inputs, goal, fence, issued, job, humans, audited>>

\* The prompts and the handlers of the process end with it.
Crash(p) ==
  /\ p \in Mortal /\ proc[p] = "up"
  /\ proc' = [proc EXCEPT ![p] = "dead"]
  /\ job' = [a \in Agent |-> IF Home(a) = p THEN Off ELSE job[a]]
  /\ \E S \in SUBSET {i \in UserInput : asks[i] \in {"cancel", "reopen"}} :
       asks' = [i \in UserInput |-> IF i \in S THEN "done" ELSE asks[i]]
  /\ owed' \in {owed, FALSE}
  /\ UNCHANGED <<inputs, goal, row, fence, issued, changes, audited>>

Human ==
  \/ \E i \in UserInput : Prompt(i) \/ CancelForUser(i) \/ ReactivateBlocked(i)
  \/ \E i \in HostInput : AdmitHost(i)
  \/ \E t \in {"active", "paused", "blocked", "verifying", "ended"} : Transition(t)
  \/ CancelForTransition \/ AskForAudit \/ RepairRequest
Run(a) ==
  \/ StartDrain(a) \/ TakeInput(a) \/ TakeContinuation(a) \/ Materialize(a)
  \/ Promote(a) \/ Dispatch(a) \/ EndTurn(a)
Audit(a) ==
  \/ StartAudit(a) \/ FailUnaudited(a) \/ StartLease(a) \/ Answer(a) \/ Settle(a)
  \/ Retry(a) \/ Reconcile(a) \/ Conclude(a)

Next ==
  \/ Human
  \/ \E a \in Agent : Run(a) \/ Audit(a) \/ Interrupt(a)
  \/ \E p \in Process : Boot(p) \/ Crash(p)

Spec == Init /\ [][Next]_everything

-----------------------------------------------------------------------------
(* Properties.                                                              *)

Jobs ==
  [at : {"off", "loop", "materialize", "promote", "dispatch", "turn", "audit", "auditing",
         "settle", "retry", "insert", "reconcile", "conclude"},
   mine : Reservation \cup {None}, source : {"none", "user", "host", "automatic", "recovery"},
   lane : 0..NoLane, cut : Nat, spent : BOOLEAN, ahead : BOOLEAN,
   verdict : Verdicts \cup {"none", "unaudited"}, revised : BOOLEAN]

\* The states of the inbox, the row, the agents and the prompts.
TypeOK ==
  /\ TypeOKInputs /\ TypeOKAutomation
  /\ proc \in [Process -> {"new", "up", "dead"}]
  /\ job \in [Agent -> Jobs]
  /\ asks \in [UserInput -> {"new", "cancel", "reopen", "done"}]
  /\ owed \in BOOLEAN
  /\ changes \in 0..MaxChange
  /\ audited \subseteq Reservation

\* An automatic input is only promoted for the user frontier its reservation was
\* authorized for: what a user admits meanwhile retires it, whichever of the two
\* comes first (projectAdmitted, verifyLatestUserSeq).
ContinuationIsCurrent ==
  [][\A r \in Reservation : inbox[r] = "pending" /\ inbox'[r] = "promoted" => fence[r] = LatestUserSeq]_everything

\* A cycle whose audit has begun is never executed again, whatever crash, interrupt or
\* new process comes between its parts: its reservation comes back as a request for an
\* audit, not as one for a worker (deferAudit, requeueClaim, the sweep at start).
AuditedNeverRuns == \A a \in Agent : Carrying(a) => job[a].mine \notin audited

\* What a process that runs holds, somebody in it works on: its claim of a reservation
\* has an agent that has not come to its end, and the audit cursor of a reservation is
\* that of an agent between its lease and its outcome.  No interrupt, lost claim or
\* retry leaves the row to nobody (release, releaseAuditRecovery, requeueClaim,
\* deferAudit, the sweep at start); what is left so is a dead process's.
AuditStages == {"auditing", "settle", "retry", "insert", "reconcile", "conclude"}
ClaimsAreTended ==
  /\ row.owner # None /\ proc[row.owner] = "up" => \E a \in Agent : Home(a) = row.owner /\ ~At(a, "off")
  /\ row.lease \in Agent /\ row.res # None /\ proc[Home(row.lease)] = "up"
       => job[row.lease].at \in AuditStages

\* "A newer human turn owns the next decision boundary": no verdict blocks the Goal while
\* a user's input is pending whose prompt has reopened it (afterTurn).
BlockIsCurrent ==
  [][\A a \in Agent : At(a, "reconcile") /\ job'[a].at = "conclude" /\ goal' = "blocked"
       => ~\E i \in UserInput : inbox[i] = "pending" /\ asks[i] = "done"]_everything

\* A request for an audit is taken up, withdrawn or retried until it is (pendingSessions,
\* orphanedAuditSessions and the daemons over them), unless the Goal is closed meanwhile.
RequestIsServed == row.request # "none" ~> row.request = "none" \/ ~GoalOpen

\* No reservation is held for ever: a claim of a process that dies, of a cycle that is
\* interrupted or asks no provider, comes back and is run, or is cancelled; unless the
\* Goal is closed meanwhile.
ReservationIsSettled == \A r \in Reservation : row.res = r ~> row.res # r \/ ~GoalOpen

\* What the code's scheduling gives.  Processes are started and finish what they do; a
\* wake starts the drain of a Session with pending input, the continuation daemon one
\* with a reservation that waits, the audit daemon its audits.  A provider that is asked
\* again and again comes to an end of its turn; audits that are tried again and again
\* get their lease and an answer.  People do not interrupt for ever.
Fairness ==
  /\ WF_everything(\E p \in Process : Boot(p))
  /\ WF_everything(CancelForTransition \/ \E i \in UserInput : CancelForUser(i) \/ ReactivateBlocked(i))
  /\ \A a \in Agent : WF_everything(~At(a, "off") /\ (Run(a) \/ Audit(a)))
  /\ WF_everything((NextLane # NoLane \/ Claimable) /\ \E a \in Agent : StartDrain(a))
  /\ SF_everything(\E a \in Agent : EndTurn(a) /\ At(a, "audit")')
  /\ SF_everything(\E a \in Agent : StartAudit(a))
  /\ SF_everything(\E a \in Agent : StartLease(a) /\ row'.lease = a)
  /\ SF_everything(\E a \in Agent : Answer(a) /\ job'[a].verdict # "failed")
  /\ <>[][\A a \in Agent : ~Interrupt(a)]_everything
FairSpec == Spec /\ Fairness

-----------------------------------------------------------------------------
(* What becomes of a reservation.                                           *)

Life(r) ==
  IF r \notin issued THEN "unmade"
  ELSE IF row.res # r THEN "gone" ELSE IF r \in audited THEN "judged" ELSE "open"

\* A runner works on a reservation from its claim to the end of its cycle.
Task(a) == IF job[a].at \in {"loop", "materialize", "promote", "dispatch", "turn"} THEN job[a].mine ELSE None

Lives == INSTANCE ContinuationLife WITH
  Worker <- Runner,
  word <- LatestUserSeq,
  life <- [r \in Reservation |-> Life(r)],
  input <- [r \in Reservation |-> inbox[r]],
  task <- [a \in Runner |-> Task(a)]

\* Claims, leases, audits, sweeps and crashes implement the life of a continuation:
\* reserved for a word that was spoken, taken up for that word by one runner at a time,
\* judged when nobody works on it, and never brought back (claim, beginAudit, afterTurn,
\* requeueClaim, projectAdmitted).
ContinuationSpec == Lives!Spec
=============================================================================
