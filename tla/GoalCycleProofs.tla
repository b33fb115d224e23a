---------------------------- MODULE GoalCycleProofs ----------------------------
(***************************************************************************)
(* For any inputs, reservations, processes and agents: an automatic input  *)
(* is promoted only for the user frontier it was authorized for, a cycle   *)
(* whose audit has begun is never executed again, and what a process that  *)
(* runs has claimed somebody in it works on.                               *)
(***************************************************************************)
EXTENDS GoalCycle, FiniteSetTheorems, WellFoundedInduction, TLAPS

TypeJob == job \in [Agent -> Jobs]
TypeRest ==
  /\ proc \in [Process -> {"new", "up", "dead"}]
  /\ asks \in [UserInput -> {"new", "cancel", "reopen", "done"}]
  /\ owed \in BOOLEAN
  /\ changes \in 0..MaxChange
  /\ audited \subseteq Reservation

\* Sequence numbers are bounded, so that there is a last one.
SeqBounded == \A i \in Input : seq[i] <= 1 + Cardinality(Input)

\* The reservations anybody speaks of were made.
Known ==
  /\ row.res \in issued \cup {None} /\ audited \subseteq issued
  /\ \A a \in Agent : job[a].mine \in issued \cup {None}
InboxKnown == \A r \in Reservation : inbox[r] # "absent" => r \in issued

\* What waits in the inbox is authorized for the frontier as it is.
PendingIsCurrent == \A r \in Reservation : inbox[r] = "pending" => fence[r] = LatestUserSeq

\* The part of a runner's cycle that comes before its audit.
Before == {"loop", "materialize", "promote", "dispatch", "turn"}
Stages ==
  \A a \in Agent :
    /\ job[a].at \in Before => a \in Runner
    /\ job[a].at = "materialize" => job[a].mine # None
OneRunner == \A a, b \in Runner : job[a].at # "off" /\ job[b].at # "off" => a = b

\* A row that no worker may claim: an audit is asked for, or at work.
Marked(w) == w.request # "none" \/ (w.lease \in Agent /\ w.owner # None)
AuditIsMarked ==
  row.res # None /\ (row.res \in audited \/ \E d \in Agent \ Runner : job[d].mine = row.res) => Marked(row)

\* A runner before its audit and an audit of the host never hold the reservation of the
\* row both.
Apart ==
  \A b \in Runner, d \in Agent \ Runner :
    job[b].at \in Before /\ job[b].mine = job[d].mine /\ job[b].mine # None => row.res # job[b].mine

NotAudited == \A a \in Agent : job[a].at \in Before => job[a].mine \notin audited

Types == TypeOKAutomation /\ TypeJob /\ TypeRest
Inbox == TypeOKInputs /\ SeqBounded /\ InboxKnown /\ PendingIsCurrent
Audits == Known /\ Stages /\ AuditIsMarked /\ Apart /\ NotAudited

IInv == Types /\ Inbox /\ OneRunner /\ Audits

-----------------------------------------------------------------------------
(* How a step moves the row and the agents.                                 *)

\* v is w with its reservation, or without, and is marked when w was.
Shrunk(w, v) == v \in Rows /\ v.res \in {w.res, None}
Kept(w, v) == Shrunk(w, v) /\ (Marked(w) /\ v.res # None => Marked(v))

\* The row keeps its mark; or a runner that holds it before its audit gives it up; or it
\* gets a new reservation.
RowMoves ==
  \/ Kept(row, row')
  \/ Shrunk(row, row') /\ \E a \in Agent : row.res = job[a].mine /\ job[a].at \in Before
  \/ row' \in Rows /\ row'.res \in issued' \ issued

\* An agent keeps or drops its reservation, or takes the one of the row: a runner by a
\* claim or for an audit, the host for an audit while no runner works.
Fits(b, j) ==
  /\ j.at \in Before => b \in Runner
  /\ j.at = "materialize" => j.mine # None
  /\ \/ j.mine = None
     \/ j.mine = job[b].mine /\ (j.at \in Before => job[b].at \in Before)
     \/ j.mine = row.res /\ b \in Runner /\ (j.at \in Before => Claimable)
     \/ /\ j.mine = row.res /\ b \notin Runner /\ j.at \notin Before
        /\ Marked(row') /\ \A c \in Runner : job'[c].at \notin Before
Moves(b) == Fits(b, job'[b])

\* An audit may begin of a marked row that no runner executes.
AuditsMove ==
  \/ audited' = audited
  \/ /\ audited' = audited \cup ({row.res} \ {None})
     /\ row'.res # None => Marked(row')
     /\ \A b \in Runner : job'[b].at \in Before /\ row.res # None => job'[b].mine # row.res

\* Such steps keep what the argument says of audits.
LEMMA AuditsKept ==
  ASSUME IInv, RowMoves, AuditsMove, issued \subseteq issued', \A b \in Agent : Moves(b)
  PROVE  Audits'
<1> USE AgentAssumption, RunnerAssumption
<1>1. audited \subseteq Reservation /\ issued \subseteq Reservation /\ row \in Rows
  BY DEF IInv, Types, TypeRest, TypeOKAutomation
<1>2. Claimable => ~Marked(row)
  BY <1>1 DEF Claimable, Marked
<1>3. row'.res \in {row.res, None} \/ row'.res \in issued' \ issued
  BY DEF RowMoves, Kept, Shrunk
<1>4. Known'
  BY <1>3 DEF IInv, Audits, Known, Moves, Fits, AuditsMove
<1>5. Stages'
  BY DEF Stages, Moves, Fits
<1>6. AuditIsMarked'
  <2> SUFFICES ASSUME row'.res # None, row'.res \in audited' \/ \E d \in Agent \ Runner : job'[d].mine = row'.res
               PROVE  Marked(row')
    BY DEF AuditIsMarked, Marked
  <2>1. row'.res \in issued' \ issued => FALSE
    BY <1>3 DEF IInv, Audits, Known, Moves, Fits, AuditsMove
  <2>2. row'.res = row.res
    BY <1>3, <2>1
  <2>3. \/ Marked(row')
        \/ row.res \in audited \/ \E d \in Agent \ Runner : job[d].mine = row.res
    BY <2>2 DEF Moves, Fits, AuditsMove
  <2>4. CASE Kept(row, row')
    BY <2>2, <2>3, <2>4 DEF IInv, Audits, AuditIsMarked, Kept
  <2>5. ASSUME NEW a \in Agent, row.res = job[a].mine, job[a].at \in Before PROVE Marked(row')
    BY <2>2, <2>3, <2>5 DEF IInv, Audits, Apart, NotAudited, Stages
  <2> QED BY <2>1, <2>4, <2>5 DEF RowMoves
<1>7. Apart'
  <2> SUFFICES ASSUME NEW b \in Runner, NEW d \in Agent \ Runner, job'[b].at \in Before,
                      job'[b].mine = job'[d].mine, job'[b].mine # None, row'.res = job'[b].mine
               PROVE  FALSE
    BY DEF Apart
  <2>1. row'.res = row.res
    BY <1>3 DEF IInv, Audits, Known, Moves, Fits
  <2>2. job'[d].mine = job[d].mine
    BY DEF Moves, Fits
  <2>3. Claimable => FALSE
    BY <1>2, <2>1, <2>2 DEF IInv, Audits, AuditIsMarked
  <2>4. job[b].mine = job'[b].mine /\ job[b].at \in Before
    BY <2>3 DEF Moves, Fits
  <2> QED BY <2>1, <2>2, <2>4 DEF IInv, Audits, Apart
<1>8. NotAudited'
  <2> SUFFICES ASSUME NEW a \in Agent, job'[a].at \in Before, job'[a].mine \in audited' PROVE FALSE
    BY DEF NotAudited
  <2>1. a \in Runner /\ job'[a].mine # None
    BY <1>1 DEF Moves, Fits, AuditsMove
  <2>2. job'[a].mine \in audited
    BY <2>1 DEF AuditsMove
  <2>3. ~(job'[a].mine = row.res /\ Claimable)
    BY <1>2, <2>1, <2>2 DEF IInv, Audits, AuditIsMarked
  <2> QED BY <2>1, <2>2, <2>3 DEF Moves, Fits, IInv, Audits, NotAudited
<1> QED BY <1>4, <1>5, <1>6, <1>7, <1>8 DEF Audits

\* What the statements of automation.ts make of a row.
LEMMA RowKept ==
  ASSUME NEW w \in Rows
  PROVE  Kept(w, w) /\ Kept(w, NoRow)
BY DEF Kept, Shrunk, Marked, Rows, NoRow

LEMMA SweepKept ==
  ASSUME NEW w \in Rows, NEW p \in Process
  PROVE  Kept(w, Sweep(w, p))
BY AgentAssumption DEF Kept, Shrunk, Marked, Rows, Sweep

LEMMA DeferKept ==
  ASSUME NEW w \in Rows, NEW a \in Agent
  PROVE  Kept(w, DeferAudit(w, a))
BY DEF Kept, Shrunk, Marked, Rows, DeferAudit

LEMMA RecoveryKept ==
  ASSUME NEW w \in Rows, NEW r, NEW p
  PROVE  Kept(w, ReleaseAuditRecovery(w, r, p))
BY DEF Kept, Shrunk, Marked, Rows, ReleaseAuditRecovery

LEMMA RequeueKept ==
  ASSUME NEW w \in Rows, NEW p
  PROVE  Kept(w, RequeueClaim(w, p))
BY AgentAssumption DEF Kept, Shrunk, Marked, Rows, RequeueClaim

LEMMA FailedKept ==
  ASSUME NEW w \in Rows
  PROVE  Kept(w, Failed(w))
BY DEF Kept, Shrunk, Marked, Rows, Failed

LEMMA RequestKept ==
  ASSUME row \in Rows
  PROVE  Kept(row, RequestAudit)
BY DEF Kept, Shrunk, Marked, Rows, RequestAudit, NoRow

LEMMA ClaimKept ==
  ASSUME row \in Rows, NEW p \in Process
  PROVE  Kept(row, Claim(p))
BY DEF Kept, Shrunk, Marked, Rows, Claim, Claimable, NoRow

LEMMA RecoveryClaimKept ==
  ASSUME row \in Rows, NEW p \in Process, row.request # "none"
  PROVE  Kept(row, ClaimAuditRecovery(p)) /\ Marked(ClaimAuditRecovery(p))
BY DEF Kept, Shrunk, Marked, Rows, ClaimAuditRecovery

LEMMA ReleaseShrinks ==
  ASSUME NEW w \in Rows, NEW r, NEW p
  PROVE  Shrunk(w, Release(w, r, p)) /\ (w.res = r \/ Release(w, r, p) = w)
BY DEF Shrunk, Rows, Release

LEMMA KeptTwice ==
  ASSUME NEW w, NEW v, NEW u, Kept(w, v), Kept(v, u)
  PROVE  Kept(w, u)
BY DEF Kept, Shrunk

\* A lane is always found.
LEMMA NextLaneType == NextLane \in 0..NoLane
<1> DEFINE Here(l) == l = NoLane \/ \E i \in Pending : Lane(i) = l
           First(l) == Here(l) /\ \A i \in Pending : l <= Lane(i)
<1>1. \A i \in Pending : Lane(i) \in 0..4
  BY DEF Lane, SteerLane, AutomaticLane
<1>2. \E l \in 0..NoLane : First(l)
  <2>1. CASE \E i \in Pending : Lane(i) = 0
    BY <1>1, <2>1 DEF NoLane
  <2>2. CASE (\E i \in Pending : Lane(i) = 1) /\ ~\E i \in Pending : Lane(i) = 0
    BY <1>1, <2>2 DEF NoLane
  <2>3. CASE (\E i \in Pending : Lane(i) = 2) /\ ~\E i \in Pending : Lane(i) \in {0, 1}
    BY <1>1, <2>3 DEF NoLane
  <2>4. CASE (\E i \in Pending : Lane(i) = 3) /\ ~\E i \in Pending : Lane(i) \in {0, 1, 2}
    BY <1>1, <2>4 DEF NoLane
  <2>5. CASE (\E i \in Pending : Lane(i) = 4) /\ ~\E i \in Pending : Lane(i) \in {0, 1, 2, 3}
    BY <1>1, <2>5 DEF NoLane
  <2>6. CASE Pending = {}
    BY <2>6 DEF NoLane
  <2> QED BY <1>1, <2>1, <2>2, <2>3, <2>4, <2>5, <2>6
<1> QED BY <1>2 DEF NextLane

\* Bounded numbers have a last one.
LEMMA LastType ==
  ASSUME NEW S, NEW f \in [S -> Nat], NEW m \in Nat, \A i \in S : f[i] <= m
  PROVE  Last(f) \in 0..m /\ \A i \in S : f[i] <= Last(f)
<1> DEFINE Above == {n \in Nat : \A i \in S : f[i] <= n}
<1>1. PICK n \in Above : \A k \in Above : ~(<<k, n>> \in OpToRel(<, Nat))
  <2>1. m \in Above /\ Above \subseteq Nat
    OBVIOUS
  <2> HIDE DEF Above
  <2>2. IsWellFoundedOn(OpToRel(<, Nat), Nat)
    BY NatLessThanWellFounded, Zenon
  <2> QED BY <2>1, <2>2, WFMin, Zenon
<1>2. \A k \in Above : ~(k < n)
  BY <1>1 DEF OpToRel
<1>3. n = 0 \/ \E i \in S : f[i] = n
  <2> SUFFICES ASSUME n # 0, \A i \in S : f[i] # n PROVE FALSE
    OBVIOUS
  <2>1. n - 1 \in Above
    OBVIOUS
  <2> QED BY <1>2, <2>1
<1>4. \E k \in {f[i] : i \in DOMAIN f} \cup {0} : \A i \in DOMAIN f : f[i] <= k
  BY <1>3
<1>5. Last(f) \in {f[i] : i \in DOMAIN f} \cup {0} /\ \A i \in DOMAIN f : f[i] <= Last(f)
  BY <1>4 DEF Last
<1> QED BY <1>5

\* The frontiers are numbers.
LEMMA FrontierType ==
  ASSUME TypeOKInputs, SeqBounded
  PROVE  LatestUserSeq \in Nat /\ LatestPromotedUserSeq \in Nat
<1>1. 1 + Cardinality(Input) \in Nat
  BY ClassAssumption, FS_CardinalityType
<1>2. ASSUME NEW S \in SUBSET UserInput PROVE Last(SeqOf(S)) \in Nat
  <2>1. SeqOf(S) \in [S -> Nat] /\ \A i \in S : SeqOf(S)[i] <= 1 + Cardinality(Input)
    BY DEF SeqOf, TypeOKInputs, SeqBounded, Input
  <2> QED BY <1>1, <2>1, LastType
<1> QED BY <1>2 DEF LatestUserSeq, LatestPromotedUserSeq

\* The frontier moves with the admission of a user's input only.
LEMMA FrontierKept ==
  ASSUME \A i \in UserInput : seq'[i] = seq[i]
  PROVE  LatestUserSeq' = LatestUserSeq
BY DEF LatestUserSeq, SeqOf

\* An admission numbers its input.
LEMMA Numbered ==
  ASSUME TypeOKInputs, SeqBounded, NEW i \in Input, NumberAdmission(i)
  PROVE  /\ seq' \in [Input -> Nat] /\ SeqBounded'
         /\ \A j \in Input : j # i => seq'[j] = seq[j]
<1> DEFINE Earlier == {j \in Input : Class(j) = Class(i) /\ seq[j] > 0}
<1>1. IsFiniteSet(Input) /\ Earlier \in SUBSET Input
  BY ClassAssumption
<1> HIDE DEF Earlier
<1>2. Cardinality(Earlier) \in Nat /\ Cardinality(Input) \in Nat /\ Cardinality(Earlier) <= Cardinality(Input)
  BY <1>1, FS_Subset, FS_CardinalityType
<1>3. seq' = [seq EXCEPT ![i] = 1 + Cardinality(Earlier)]
  BY DEF NumberAdmission, Earlier
<1> QED BY <1>2, <1>3 DEF TypeOKInputs, SeqBounded

\* An inbox that only promotes and revokes.
LEMMA InboxShrinks ==
  ASSUME IInv, seq' = seq, fence' = fence, issued \subseteq issued', TypeOKInputs',
         \A i \in Input : inbox'[i] = inbox[i] \/ (inbox[i] = "pending" /\ inbox'[i] \in {"promoted", "revoked"})
  PROVE  Inbox'
<1>1. LatestUserSeq' = LatestUserSeq
  BY FrontierKept
<1>2. SeqBounded'
  BY DEF IInv, Inbox, SeqBounded
<1> QED BY <1>1, <1>2 DEF IInv, Inbox, InboxKnown, PendingIsCurrent, Input

\* An inbox that stands still.
LEMMA InboxStill ==
  ASSUME IInv, UNCHANGED inputs, fence' = fence, issued \subseteq issued'
  PROVE  Inbox'
BY InboxShrinks DEF inputs, IInv, Inbox, TypeOKInputs

\* Admissions.
LEMMA PromptKeeps ==
  ASSUME IInv, NEW i \in UserInput, Prompt(i)
  PROVE  IInv'
<1>1. RowMoves
  BY RowKept DEF IInv, Types, TypeOKAutomation, Prompt, RowMoves
<1>2. Types'
  BY DEF IInv, Types, TypeOKAutomation, TypeJob, TypeRest, Prompt
<1>3. \A b \in Agent : Moves(b)
  BY DEF IInv, Audits, Stages, Prompt, Moves, Fits
<1>4. OneRunner' /\ AuditsMove /\ issued \subseteq issued'
  BY DEF IInv, OneRunner, Prompt, AuditsMove
<1>5. Inbox'
  <2>1. i \in Input /\ NumberAdmission(i)
    BY DEF Prompt, ProjectAdmitted, Input
  <2>2. seq' \in [Input -> Nat] /\ SeqBounded'
    BY <2>1, Numbered DEF IInv, Inbox
  <2>3. TypeOKInputs'
    BY <2>2 DEF IInv, Inbox, TypeOKInputs, Prompt, ProjectAdmitted
  <2>4. \A r \in Reservation : inbox'[r] # "pending" /\ (inbox[r] = "absent" => inbox'[r] = "absent")
    BY ClassAssumption DEF IInv, Inbox, TypeOKInputs, Prompt, ProjectAdmitted, Retired, Input
  <2> QED BY <2>2, <2>3, <2>4 DEF IInv, Inbox, InboxKnown, PendingIsCurrent, Prompt
<1> QED BY <1>1, <1>2, <1>3, <1>4, <1>5, AuditsKept DEF IInv

LEMMA AdmitHostKeeps ==
  ASSUME IInv, NEW i \in HostInput, AdmitHost(i)
  PROVE  IInv'
<1>1. RowMoves
  BY RowKept DEF IInv, Types, TypeOKAutomation, AdmitHost, RowMoves
<1>2. Types'
  BY DEF IInv, Types, TypeOKAutomation, TypeJob, TypeRest, AdmitHost, humans
<1>3. \A b \in Agent : Moves(b)
  BY DEF IInv, Audits, Stages, AdmitHost, Moves, Fits
<1>4. OneRunner' /\ AuditsMove /\ issued \subseteq issued'
  BY DEF IInv, OneRunner, AdmitHost, AuditsMove
<1>5. Inbox'
  <2>1. i \in Input /\ NumberAdmission(i) /\ \A j \in UserInput \cup Reservation : j # i
    BY ClassAssumption DEF AdmitHost, AdmitSynthetic, Input
  <2>2. seq' \in [Input -> Nat] /\ SeqBounded' /\ \A j \in UserInput : seq'[j] = seq[j]
    BY <2>1, Numbered DEF IInv, Inbox, Input
  <2>3. LatestUserSeq' = LatestUserSeq
    BY <2>2, FrontierKept
  <2>4. TypeOKInputs' /\ \A r \in Reservation : inbox'[r] = inbox[r]
    BY <2>1, <2>2 DEF IInv, Inbox, TypeOKInputs, AdmitHost, AdmitSynthetic, Input
  <2> QED BY <2>2, <2>3, <2>4 DEF IInv, Inbox, InboxKnown, PendingIsCurrent, AdmitHost
<1> QED BY <1>1, <1>2, <1>3, <1>4, <1>5, AuditsKept DEF IInv

\* People and the Goal's life.
LEMMA CancelForUserKeeps ==
  ASSUME IInv, NEW i \in UserInput, CancelForUser(i)
  PROVE  IInv'
<1>1. RowMoves
  BY RowKept DEF IInv, Types, TypeOKAutomation, CancelForUser, RowMoves
<1>2. Types'
  BY <1>1 DEF IInv, Types, TypeOKAutomation, TypeJob, TypeRest, CancelForUser, NoRow, Rows
<1>3. \A b \in Agent : Moves(b)
  BY DEF IInv, Audits, Stages, CancelForUser, Moves, Fits
<1>4. OneRunner' /\ AuditsMove /\ issued \subseteq issued'
  BY DEF IInv, OneRunner, CancelForUser, AuditsMove
<1>5. Inbox'
  BY InboxStill DEF CancelForUser
<1> QED BY <1>1, <1>2, <1>3, <1>4, <1>5, AuditsKept DEF IInv

LEMMA ReviseType ==
  ASSUME IInv, NEW s, Revise(s)
  PROVE  /\ TypeJob'
         /\ \A b \in Agent : job'[b].at = job[b].at /\ job'[b].mine = job[b].mine
<1>1. \A a \in Agent : job[a] \in Jobs
  BY DEF IInv, Types, TypeJob
<1>2. \A a \in Agent : (job[a].revised \/ (goal # s /\ job[a].at # "off")) \in BOOLEAN
  OBVIOUS
<1>3. ASSUME NEW j \in Jobs, NEW x \in BOOLEAN
      PROVE  [j EXCEPT !.revised = x] \in Jobs /\ [j EXCEPT !.revised = x].at = j.at /\ [j EXCEPT !.revised = x].mine = j.mine
  BY DEF Jobs
<1> QED BY <1>1, <1>2, <1>3, Zenon DEF Revise, TypeJob

LEMMA ReactivateBlockedKeeps ==
  ASSUME IInv, NEW i \in UserInput, ReactivateBlocked(i)
  PROVE  IInv'
<1>1. RowMoves
  BY RowKept DEF IInv, Types, TypeOKAutomation, ReactivateBlocked, RowMoves
<1>2. TypeJob' /\ \A b \in Agent : job'[b].at = job[b].at /\ job'[b].mine = job[b].mine
  BY ReviseType DEF ReactivateBlocked
<1>3. Types'
  BY <1>2 DEF IInv, Types, TypeOKAutomation, TypeRest, ReactivateBlocked, Revise
<1>4. \A b \in Agent : Moves(b)
  BY <1>2 DEF IInv, Audits, Stages, Moves, Fits
<1>5. OneRunner' /\ AuditsMove /\ issued \subseteq issued'
  BY <1>2, RunnerAssumption DEF IInv, OneRunner, ReactivateBlocked, AuditsMove
<1>6. Inbox'
  BY InboxStill DEF ReactivateBlocked
<1> QED BY <1>1, <1>3, <1>4, <1>5, <1>6, AuditsKept DEF IInv

LEMMA TransitionKeeps ==
  ASSUME IInv, NEW t \in {"active", "paused", "blocked", "verifying", "ended"}, Transition(t)
  PROVE  IInv'
<1>1. RowMoves
  BY RowKept DEF IInv, Types, TypeOKAutomation, Transition, RowMoves
<1>2. TypeJob' /\ \A b \in Agent : job'[b].at = job[b].at /\ job'[b].mine = job[b].mine
  BY ReviseType DEF Transition
<1>3. TypeRest'
  BY RunnerAssumption DEF IInv, Types, TypeRest, Transition
<1>4. Types'
  BY <1>2, <1>3 DEF IInv, Types, TypeOKAutomation, Transition, Revise
<1>5. \A b \in Agent : Moves(b)
  BY <1>2 DEF IInv, Audits, Stages, Moves, Fits
<1>6. OneRunner' /\ AuditsMove /\ issued \subseteq issued'
  BY <1>2, RunnerAssumption DEF IInv, OneRunner, Transition, AuditsMove
<1>7. Inbox'
  BY InboxStill DEF Transition
<1> QED BY <1>1, <1>4, <1>5, <1>6, <1>7, AuditsKept DEF IInv

LEMMA CancelForTransitionKeeps ==
  ASSUME IInv, CancelForTransition
  PROVE  IInv'
<1>1. RowMoves
  BY RowKept DEF IInv, Types, TypeOKAutomation, CancelForTransition, RowMoves
<1>2. Types'
  BY DEF IInv, Types, TypeOKAutomation, TypeJob, TypeRest, CancelForTransition, NoRow, Rows
<1>3. \A b \in Agent : Moves(b)
  BY DEF IInv, Audits, Stages, CancelForTransition, Moves, Fits
<1>4. OneRunner' /\ AuditsMove /\ issued \subseteq issued'
  BY DEF IInv, OneRunner, CancelForTransition, AuditsMove
<1>5. Inbox'
  BY InboxStill DEF CancelForTransition
<1> QED BY <1>1, <1>2, <1>3, <1>4, <1>5, AuditsKept DEF IInv

LEMMA AskForAuditKeeps ==
  ASSUME IInv, AskForAudit \/ RepairRequest
  PROVE  IInv'
<1> USE DEF AskForAudit, RepairRequest
<1>1. Kept(row, row')
  BY RequestKept DEF IInv, Types, TypeOKAutomation
<1>2. Types'
  BY <1>1, RunnerAssumption DEF IInv, Types, TypeOKAutomation, TypeJob, TypeRest, humans, Kept, Shrunk
<1>3. \A b \in Agent : Moves(b)
  BY DEF IInv, Audits, Stages, Moves, Fits
<1>4. OneRunner' /\ AuditsMove /\ issued \subseteq issued'
  BY DEF IInv, OneRunner, AuditsMove
<1>5. Inbox'
  BY InboxStill
<1> QED BY <1>1, <1>2, <1>3, <1>4, <1>5, AuditsKept DEF IInv, RowMoves

\* Starts and crashes.
LEMMA BootKeeps ==
  ASSUME IInv, NEW p \in Process, Boot(p)
  PROVE  IInv'
<1>1. Kept(row, row')
  BY SweepKept DEF IInv, Types, TypeOKAutomation, Boot
<1>2. Types'
  BY <1>1 DEF IInv, Types, TypeOKAutomation, TypeJob, TypeRest, Boot, humans, Kept, Shrunk
<1>3. \A b \in Agent : Moves(b)
  BY DEF IInv, Audits, Stages, Boot, Moves, Fits
<1>4. OneRunner' /\ AuditsMove /\ issued \subseteq issued'
  BY DEF IInv, OneRunner, Boot, AuditsMove
<1>5. Inbox'
  BY InboxStill DEF Boot
<1> QED BY <1>1, <1>2, <1>3, <1>4, <1>5, AuditsKept DEF IInv, RowMoves

LEMMA OffType == Off \in Jobs /\ Off.at = "off" /\ Off.mine = None
BY DEF Off, Jobs, NoLane

LEMMA CrashKeeps ==
  ASSUME IInv, NEW p \in Process, Crash(p)
  PROVE  IInv'
<1>1. RowMoves
  BY RowKept DEF IInv, Types, TypeOKAutomation, Crash, RowMoves
<1>2. \A b \in Agent : job'[b] = Off \/ job'[b] = job[b]
  BY DEF Crash
<1>3. TypeJob'
  BY OffType DEF IInv, Types, TypeJob, Crash
<1>4. TypeRest'
  BY DEF IInv, Types, TypeRest, Crash
<1>5. Types'
  BY <1>3, <1>4 DEF IInv, Types, TypeOKAutomation, Crash
<1>6. \A b \in Agent : Moves(b)
  BY <1>2, OffType DEF IInv, Audits, Stages, Moves, Fits, Before
<1>7. OneRunner' /\ AuditsMove /\ issued \subseteq issued'
  BY <1>2, OffType, RunnerAssumption DEF IInv, OneRunner, Crash, AuditsMove
<1>8. Inbox'
  BY InboxStill DEF Crash
<1> QED BY <1>1, <1>5, <1>6, <1>7, <1>8, AuditsKept DEF IInv

-----------------------------------------------------------------------------
(* One agent moves.                                                         *)

\* The others stay as they are.
LEMMA SetStep ==
  ASSUME IInv, NEW a \in Agent, NEW j \in Jobs, Set(a, j), Fits(a, j),
         a \in Runner /\ j.at # "off" => job[a].at # "off" \/ ~Working
  PROVE  TypeJob' /\ (\A b \in Agent : Moves(b)) /\ OneRunner'
<1>1. job \in [Agent -> Jobs] /\ job'[a] = j /\ \A b \in Agent : b # a => job'[b] = job[b]
  BY DEF IInv, Types, TypeJob, Set
<1>2. TypeJob'
  BY <1>1 DEF TypeJob, Set
<1>3. \A b \in Agent : Moves(b)
  BY <1>1 DEF IInv, Audits, Stages, Moves, Fits
<1>4. OneRunner'
  BY <1>1, RunnerAssumption DEF IInv, OneRunner, Working, At
<1> QED BY <1>2, <1>3, <1>4

\* A step of an agent that leaves the inbox, the audits begun and the reservations made.
LEMMA AgentStep ==
  ASSUME IInv, NEW a \in Agent, NEW j \in Jobs, Set(a, j), Fits(a, j), RowMoves, row' \in Rows,
         a \in Runner /\ j.at # "off" => job[a].at # "off" \/ ~Working,
         UNCHANGED <<goal, fence, issued, proc, humans, audited>>, Inbox'
  PROVE  IInv'
<1>1. TypeJob' /\ (\A b \in Agent : Moves(b)) /\ OneRunner'
  BY SetStep
<1>2. AuditsMove /\ issued \subseteq issued'
  BY DEF AuditsMove
<1>3. Types'
  BY <1>1 DEF IInv, Types, TypeOKAutomation, TypeRest, humans
<1> QED BY <1>1, <1>2, <1>3, AuditsKept DEF IInv

\* What is known of an agent.
LEMMA JobFacts ==
  ASSUME IInv, NEW a \in Agent
  PROVE  /\ job[a] \in Jobs /\ job[a].mine \in Reservation \cup {None} /\ row \in Rows
         /\ None \notin Reservation /\ LatestUserSeq \in Nat /\ LatestPromotedUserSeq \in Nat
         /\ fence \in [Reservation -> Nat] /\ Home(a) \in Process
         /\ (job[a].at \in Before => a \in Runner) /\ (a \in Runner => a \in Agent)
BY FrontierType, AgentAssumption, RunnerAssumption
   DEF IInv, Types, TypeJob, TypeOKAutomation, Inbox, Audits, Stages, Jobs, Home

\* A runner gives up what it holds before its audit.
LEMMA GiveUpMoves ==
  ASSUME IInv, NEW a \in Agent, job[a].at \in Before, row' = Release(row, job[a].mine, Home(a))
  PROVE  RowMoves /\ row' \in Rows
<1>1. row \in Rows
  BY JobFacts
<1>2. CASE row' = row
  BY <1>1, <1>2, RowKept DEF RowMoves
<1>3. CASE row' # row
  BY <1>1, <1>3, ReleaseShrinks DEF RowMoves, Shrunk
<1> QED BY <1>2, <1>3

LEMMA KeptMoves ==
  ASSUME Kept(row, row')
  PROVE  RowMoves /\ row' \in Rows
BY DEF Kept, Shrunk, RowMoves

LEMMA LaneOfType ==
  ASSUME IInv, NEW a \in Agent
  PROVE  LaneOf(a) \in 0..NoLane
BY JobFacts, NextLaneType DEF LaneOf, Jobs

LEMMA LoopType == Loop \in Jobs /\ Loop.at = "loop" /\ Loop.mine = None
<1>1. Off \in Jobs
  BY OffType
<1> QED BY <1>1, OffType DEF Loop, Jobs

\* An agent that recovers an audit begins at it.
AuditOf(m, l, from, n) ==
  [Off EXCEPT !.at = "audit", !.mine = m, !.lane = l, !.source = from, !.cut = n]

LEMMA AuditOfType ==
  ASSUME NEW m \in Reservation \cup {None}, NEW l \in 0..NoLane,
         NEW from \in {"recovery", "automatic"}, NEW n \in Nat
  PROVE  /\ AuditOf(m, l, from, n) \in Jobs
         /\ AuditOf(m, l, from, n).at = "audit" /\ AuditOf(m, l, from, n).mine = m
BY OffType DEF AuditOf, Jobs

\* A drain starts.
LEMMA StartDrainKeeps ==
  ASSUME IInv, NEW a \in Agent, StartDrain(a)
  PROVE  IInv'
<1>1. /\ job[a] \in Jobs /\ row \in Rows /\ Home(a) \in Process /\ fence \in [Reservation -> Nat]
      /\ None \notin Reservation
  BY JobFacts
<1>2. Inbox'
  BY InboxStill DEF StartDrain
<1>3. CASE StartRecovery(a)
  <2> DEFINE j == AuditOf(row.res, NextLane, IF row.res = None THEN "recovery" ELSE "automatic",
                          IF row.res = None THEN 0 ELSE fence[row.res])
  <2>1. j \in Jobs /\ j.at = "audit" /\ j.mine = row.res
    <3>1. row.res \in Reservation \cup {None}
      BY <1>1 DEF Rows
    <3>2. (IF row.res = None THEN 0 ELSE fence[row.res]) \in Nat
      BY <1>1, <3>1
    <3>3. (IF row.res = None THEN "recovery" ELSE "automatic") \in {"recovery", "automatic"}
      OBVIOUS
    <3> QED BY <3>1, <3>2, <3>3, NextLaneType, AuditOfType
  <2>2. Kept(row, row')
    BY <1>1, <1>3, RecoveryClaimKept DEF StartRecovery, Recoverable
  <2>3. Set(a, j)
    BY <1>3 DEF StartRecovery, AuditOf
  <2> HIDE DEF j
  <2>4. Fits(a, j)
    BY <1>3, <2>1 DEF StartRecovery, StartDrain, Fits, Before
  <2> QED BY <1>2, <2>1, <2>2, <2>3, <2>4, KeptMoves, AgentStep DEF StartDrain
<1>4. CASE StartCycle(a)
  <2>1. Kept(row, row')
    BY <1>1, <1>4, RowKept, ClaimKept DEF StartCycle
  <2>2. \E j \in Jobs :
          /\ Set(a, j)
          /\ j.at \in {"off", "loop"} /\ (j.mine = None \/ j.mine = Won)
    <3> DEFINE Fresh(m) == [Off EXCEPT !.at = "loop", !.mine = m, !.lane = NextLane]
    <3>1. ASSUME NEW m \in Reservation \cup {None}
          PROVE  Fresh(m) \in Jobs /\ Fresh(m).at = "loop" /\ Fresh(m).mine = m
      BY NextLaneType DEF Off, Jobs
    <3>2. Won \in Reservation \cup {None}
      BY <1>1 DEF Won, Rows
    <3>3. [Off EXCEPT !.at = "loop", !.lane = NextLane] \in Jobs
          /\ [Off EXCEPT !.at = "loop", !.lane = NextLane].at = "loop"
          /\ [Off EXCEPT !.at = "loop", !.lane = NextLane].mine = None
      BY NextLaneType DEF Off, Jobs
    <3>4. \/ Set(a, Off) \/ Set(a, Fresh(Won)) \/ Set(a, [Off EXCEPT !.at = "loop", !.lane = NextLane])
      BY <1>4 DEF StartCycle
    <3> HIDE DEF Fresh
    <3> QED BY <3>1, <3>2, <3>3, <3>4, OffType
  <2>3. PICK j \in Jobs : Set(a, j) /\ j.at \in {"off", "loop"} /\ (j.mine = None \/ j.mine = Won)
    BY <2>2
  <2>4. Fits(a, j)
    BY <2>3 DEF Fits, Before, Won, StartDrain
  <2> QED BY <1>2, <2>1, <2>3, <2>4, KeptMoves, AgentStep DEF StartDrain
<1> QED BY <1>3, <1>4 DEF StartDrain

LEMMA TakeInputKeeps ==
  ASSUME IInv, NEW a \in Agent, TakeInput(a)
  PROVE  IInv'
<1> DEFINE j == [Off EXCEPT !.at = "promote", !.source = LaneClass(LaneOf(a)), !.lane = LaneOf(a),
                            !.cut = LatestUserSeq]
<1>1. j \in Jobs /\ j.at = "promote" /\ j.mine = None
  BY JobFacts, LaneOfType DEF TakeInput, Off, Jobs
<1>2. job[a].at = "loop" /\ a \in Runner
  BY JobFacts DEF TakeInput, At, Before
<1>3. RowMoves /\ row' \in Rows
  <2>1. CASE row' = NoRow
    BY <2>1, JobFacts, RowKept, KeptMoves
  <2>2. CASE row' = Release(row, job[a].mine, Home(a))
    BY <1>2, <2>2, GiveUpMoves DEF Before
  <2> QED BY <2>1, <2>2 DEF TakeInput
<1>4. Set(a, j) /\ Fits(a, j)
  BY <1>1, <1>2 DEF TakeInput, Fits, Before
<1>5. Inbox'
  BY InboxStill DEF TakeInput
<1> HIDE DEF j
<1> QED BY <1>1, <1>2, <1>3, <1>4, <1>5, AgentStep DEF TakeInput

LEMMA TakeContinuationKeeps ==
  ASSUME IInv, NEW a \in Agent, TakeContinuation(a)
  PROVE  IInv'
<1>1. job[a].at = "loop" /\ a \in Runner
  BY JobFacts DEF TakeContinuation, At, Before
<1>2. Kept(row, row')
  <2>1. row' \in {row, Claim(Home(a)), RequeueClaim(Claim(Home(a)), Home(a))}
    BY DEF TakeContinuation
  <2>2. Kept(row, Claim(Home(a))) /\ Claim(Home(a)) \in Rows
    BY JobFacts, ClaimKept DEF Kept, Shrunk
  <2>3. Kept(row, RequeueClaim(Claim(Home(a)), Home(a)))
    BY <2>2, RequeueKept, KeptTwice
  <2> QED BY <2>1, <2>2, <2>3, JobFacts, RowKept
<1>3. \E j \in Jobs :
        /\ Set(a, j)
        /\ \/ j.at = "off" /\ j.mine = None
           \/ j.at = "loop" /\ j.mine = job[a].mine
           \/ j.at = "materialize" /\ j.mine = job[a].mine /\ j.mine # None
           \/ j.at = "materialize" /\ j.mine = Won /\ j.mine # None
  <2>0. NoLane \in 0..NoLane /\ job[a] \in Jobs
    BY JobFacts DEF NoLane
  <2>1. [job[a] EXCEPT !.at = "materialize", !.lane = NoLane] \in Jobs
    BY <2>0 DEF Jobs
  <2>2. Won \in Reservation \cup {None}
    BY JobFacts DEF Won, Rows
  <2>3. [job[a] EXCEPT !.at = "materialize", !.mine = Won, !.lane = NoLane] \in Jobs
    BY <2>0, <2>2 DEF Jobs
  <2>4. [job[a] EXCEPT !.lane = NoLane] \in Jobs
    BY <2>0 DEF Jobs
  <2>5. CASE job[a].mine # None
    <3>1. Set(a, [job[a] EXCEPT !.at = "materialize", !.lane = NoLane])
      BY <2>5 DEF TakeContinuation
    <3>2. LET j == [job[a] EXCEPT !.at = "materialize", !.lane = NoLane]
          IN  j.at = "materialize" /\ j.mine = job[a].mine
      BY <2>0 DEF Jobs
    <3> QED BY <2>1, <2>5, <3>1, <3>2
  <2>6. CASE job[a].mine = None /\ Won # None
    <3>1. Set(a, [job[a] EXCEPT !.at = "materialize", !.mine = Won, !.lane = NoLane])
      BY <2>6 DEF TakeContinuation
    <3>2. LET j == [job[a] EXCEPT !.at = "materialize", !.mine = Won, !.lane = NoLane]
          IN  j.at = "materialize" /\ j.mine = Won
      BY <2>0 DEF Jobs
    <3> QED BY <2>3, <2>6, <3>1, <3>2
  <2>7. CASE job[a].mine = None /\ Won = None
    BY <1>1, <2>4, <2>7, JobFacts, OffType DEF TakeContinuation, Jobs
  <2> QED BY <2>5, <2>6, <2>7
<1>4. PICK j \in Jobs :
        /\ Set(a, j)
        /\ \/ j.at = "off" /\ j.mine = None
           \/ j.at = "loop" /\ j.mine = job[a].mine
           \/ j.at = "materialize" /\ j.mine = job[a].mine /\ j.mine # None
           \/ j.at = "materialize" /\ j.mine = Won /\ j.mine # None
  BY <1>3
<1>5. Fits(a, j)
  BY <1>1, <1>4 DEF Fits, Before, Won
<1>6. Inbox'
  <2>1. CASE UNCHANGED inputs
    BY <2>1, InboxStill DEF TakeContinuation
  <2>2. CASE RevokeFirst(AutomaticLane)
    <3>1. \A i \in Input : inbox'[i] = inbox[i] \/ (inbox[i] = "pending" /\ inbox'[i] = "revoked")
      BY <2>2 DEF RevokeFirst, FirstPending, Pending
    <3>2. TypeOKInputs'
      BY <2>2 DEF RevokeFirst, IInv, Inbox, TypeOKInputs
    <3> QED BY <2>2, <3>1, <3>2, InboxShrinks DEF RevokeFirst, TakeContinuation
  <2> QED BY <2>1, <2>2 DEF TakeContinuation
<1> QED BY <1>1, <1>2, <1>4, <1>5, <1>6, KeptMoves, AgentStep DEF TakeContinuation

\* A step that only moves an agent on, with the reservation it has.
LEMMA MovesOn ==
  ASSUME IInv, NEW a \in Agent, NEW j \in Jobs, Set(a, j),
         \/ j.mine = job[a].mine /\ (j.at \in Before => job[a].at \in Before)
         \/ j.mine = None /\ (j.at \in Before => a \in Runner),
         j.at # "materialize", job[a].at # "off", RowMoves, row' \in Rows,
         UNCHANGED <<goal, fence, issued, proc, humans, audited>>, Inbox'
  PROVE  IInv'
<1>1. Fits(a, j)
  BY JobFacts DEF Fits
<1> QED BY <1>1, AgentStep

\* materialize's cut is the fence of its reservation.
LEMMA MaterializeKeeps ==
  ASSUME IInv, NEW a \in Agent, Materialize(a)
  PROVE  IInv'
<1> DEFINE r == job[a].mine
           run(s) == [job[a] EXCEPT !.at = s, !.source = "automatic", !.lane = AutomaticLane, !.cut = fence[r]]
<1>1. job[a].at = "materialize" /\ a \in Runner /\ r \in Reservation /\ r \in issued
  BY JobFacts DEF Materialize, At, Before, IInv, Audits, Stages, Known
<1>2. \A s \in {"dispatch", "promote"} : run(s) \in Jobs /\ run(s).at = s /\ run(s).mine = r
  <2>1. fence[r] \in Nat /\ job[a] \in Jobs /\ AutomaticLane \in 0..NoLane
    BY <1>1, JobFacts DEF NoLane, AutomaticLane
  <2> QED BY <2>1 DEF Jobs
<1>3. RowMoves /\ row' \in Rows
  BY JobFacts, RowKept, KeptMoves DEF Materialize
<1>4. Inbox'
  <2>1. CASE UNCHANGED inputs
    BY <2>1, InboxStill DEF Materialize
  <2>2. CASE Fenced(r) /\ AdmitSynthetic(r)
    <3>1. r \in Input /\ NumberAdmission(r) /\ \A j \in UserInput : j # r
      BY <1>1, <2>2, ClassAssumption DEF AdmitSynthetic, Input
    <3>2. seq' \in [Input -> Nat] /\ SeqBounded' /\ \A j \in UserInput : seq'[j] = seq[j]
      BY <3>1, Numbered DEF IInv, Inbox, Input
    <3>3. LatestUserSeq' = LatestUserSeq
      BY <3>2, FrontierKept
    <3>4. TypeOKInputs' /\ \A i \in Input : i # r => inbox'[i] = inbox[i]
      BY <2>2, <3>1, <3>2 DEF IInv, Inbox, TypeOKInputs, AdmitSynthetic
    <3>5. fence' = fence /\ issued' = issued
      BY DEF Materialize
    <3>6. InboxKnown'
      BY <1>1, <3>4, <3>5 DEF IInv, Inbox, InboxKnown, Input
    <3>7. PendingIsCurrent'
      BY <2>2, <3>3, <3>4, <3>5 DEF IInv, Inbox, PendingIsCurrent, Input, Fenced
    <3> QED BY <3>2, <3>4, <3>6, <3>7 DEF Inbox
  <2> QED BY <2>1, <2>2 DEF Materialize
<1>5. Set(a, run("dispatch")) \/ Set(a, run("promote")) \/ Set(a, Loop)
  BY DEF Materialize
<1>6. UNCHANGED <<goal, fence, issued, proc, humans, audited>>
  BY DEF Materialize
<1> HIDE DEF run
<1> QED BY <1>1, <1>2, <1>3, <1>4, <1>5, <1>6, LoopType, MovesOn DEF Before

LEMMA UnspentKeeps ==
  ASSUME IInv, NEW a \in Agent, Unspent(a), job[a].at \in Before,
         UNCHANGED <<inputs, goal, fence, issued, proc, humans, audited>>
  PROVE  IInv'
<1>1. RowMoves /\ row' \in Rows
  <2>1. CASE row' = NoRow
    BY <2>1, JobFacts, RowKept, KeptMoves
  <2>2. CASE row' = Release(row, job[a].mine, Home(a))
    BY <2>2, GiveUpMoves
  <2> QED BY <2>1, <2>2 DEF Unspent
<1>2. Inbox'
  BY InboxStill
<1>3. Set(a, Loop) /\ a \in Runner
  BY JobFacts DEF Unspent
<1>4. Fits(a, Loop)
  BY <1>3, LoopType DEF Fits, Before
<1> QED BY <1>1, <1>2, <1>3, <1>4, LoopType, AgentStep DEF Before

LEMMA PromoteKeeps ==
  ASSUME IInv, NEW a \in Agent, Promote(a)
  PROVE  IInv'
<1>1. job[a].at = "promote"
  BY DEF Promote, At
<1>2. CASE Unspent(a) /\ UNCHANGED inputs
  BY <1>1, <1>2, UnspentKeeps DEF Promote, Before
<1>3. CASE PromoteLane(job[a].lane) /\ Set(a, [job[a] EXCEPT !.at = "dispatch"]) /\ UNCHANGED row
  <2> DEFINE j == [job[a] EXCEPT !.at = "dispatch"]
  <2>1. j \in Jobs /\ j.at = "dispatch" /\ j.mine = job[a].mine
    BY JobFacts DEF Jobs
  <2>2. \A i \in Input : inbox'[i] = inbox[i] \/ (inbox[i] = "pending" /\ inbox'[i] = "promoted")
    BY <1>3 DEF PromoteLane, Selected, FirstPending, Pending
  <2>3. TypeOKInputs'
    BY <1>3 DEF PromoteLane, IInv, Inbox, TypeOKInputs
  <2>4. Inbox'
    BY <1>3, <2>2, <2>3, InboxShrinks DEF PromoteLane, Promote
  <2>5. RowMoves /\ row' \in Rows
    BY <1>3, JobFacts, RowKept, KeptMoves
  <2> HIDE DEF j
  <2>6. UNCHANGED <<goal, fence, issued, proc, humans, audited>>
    BY DEF Promote
  <2> QED BY <1>1, <1>3, <2>1, <2>4, <2>5, <2>6, MovesOn DEF Before, j
<1> QED BY <1>2, <1>3 DEF Promote

LEMMA EvaluatingType ==
  ASSUME NEW j \in Jobs
  PROVE  Evaluating(j) \in Jobs /\ Evaluating(j).at = "audit" /\ Evaluating(j).mine = j.mine
<1>1. Off \in Jobs
  BY OffType
<1> QED BY <1>1 DEF Evaluating, Jobs

LEMMA DispatchKeeps ==
  ASSUME IInv, NEW a \in Agent, Dispatch(a)
  PROVE  IInv'
<1>1. job[a].at = "dispatch"
  BY DEF Dispatch, At
<1>2. CASE Unspent(a)
  BY <1>1, <1>2, UnspentKeeps DEF Dispatch, Before
<1>3. CASE (Set(a, [job[a] EXCEPT !.at = "turn"]) \/ Set(a, Evaluating(job[a]))) /\ UNCHANGED row
  <2>1. /\ [job[a] EXCEPT !.at = "turn"] \in Jobs
        /\ [job[a] EXCEPT !.at = "turn"].at = "turn" /\ [job[a] EXCEPT !.at = "turn"].mine = job[a].mine
    BY JobFacts DEF Jobs
  <2>2. Inbox'
    BY InboxStill DEF Dispatch
  <2>3. RowMoves /\ row' \in Rows
    BY <1>3, JobFacts, RowKept, KeptMoves
  <2>4. UNCHANGED <<goal, fence, issued, proc, humans, audited>>
    BY DEF Dispatch
  <2>5. PICK j \in Jobs : Set(a, j) /\ j.mine = job[a].mine /\ j.at \in {"turn", "audit"}
    BY <1>3, <2>1, JobFacts, EvaluatingType
  <2> QED BY <1>1, <2>2, <2>3, <2>4, <2>5, MovesOn DEF Before
<1> QED BY <1>2, <1>3 DEF Dispatch

LEMMA EndTurnKeeps ==
  ASSUME IInv, NEW a \in Agent, EndTurn(a)
  PROVE  IInv'
<1> DEFINE Spent(k, n) == [k EXCEPT !.spent = TRUE, !.cut = n]
           j == Spent(job[a], Frontier(a))
<1>1. job[a].at = "turn"
  BY DEF EndTurn, At
<1>2. j \in Jobs /\ j.mine = job[a].mine /\ j.source = job[a].source
  <2>1. Frontier(a) \in Nat
    BY JobFacts DEF Frontier, Jobs
  <2>2. ASSUME NEW k \in Jobs, NEW n \in Nat
        PROVE  /\ Spent(k, n) \in Jobs
               /\ Spent(k, n).mine = k.mine /\ Spent(k, n).source = k.source
    BY DEF Jobs
  <2> HIDE DEF Spent
  <2> QED BY <2>1, <2>2, JobFacts
<1>3. \/ Set(a, [j EXCEPT !.at = "dispatch"])
      \/ Set(a, [j EXCEPT !.at = "promote", !.lane = SteerLane(j.source)])
      \/ Set(a, Evaluating(j))
  BY <1>2 DEF EndTurn
<1> HIDE DEF j
<1>4. \A s \in {"dispatch", "promote"} : [j EXCEPT !.at = s] \in Jobs /\ [j EXCEPT !.at = s].at = s /\ [j EXCEPT !.at = s].mine = j.mine
  BY <1>2 DEF Jobs
<1>5. LET k == [j EXCEPT !.at = "promote", !.lane = SteerLane(j.source)]
      IN  k \in Jobs /\ k.at = "promote" /\ k.mine = j.mine
  <2>1. SteerLane(j.source) \in 0..NoLane
    BY DEF SteerLane, NoLane
  <2> QED BY <1>2, <2>1 DEF Jobs
<1>6. \E k \in Jobs : Set(a, k) /\ k.mine = job[a].mine /\ k.at \in {"dispatch", "promote", "audit"}
  <2>1. CASE Set(a, [j EXCEPT !.at = "dispatch"])
    BY <1>2, <1>4, <2>1
  <2>2. CASE Set(a, [j EXCEPT !.at = "promote", !.lane = SteerLane(j.source)])
    BY <1>2, <1>5, <2>2
  <2>3. CASE Set(a, Evaluating(j))
    BY <1>2, <2>3, EvaluatingType
  <2> QED BY <1>3, <2>1, <2>2, <2>3
<1>7. Inbox' /\ UNCHANGED <<goal, fence, issued, proc, humans, audited>>
  BY InboxStill DEF EndTurn
<1>8. RowMoves /\ row' \in Rows
  BY JobFacts, RowKept, KeptMoves DEF EndTurn
<1> QED BY <1>1, <1>6, <1>7, <1>8, MovesOn DEF Before

-----------------------------------------------------------------------------
(* Audits.                                                                  *)

LEMMA StartAuditKeeps ==
  ASSUME IInv, NEW a \in Agent, StartAudit(a)
  PROVE  IInv'
<1> DEFINE j == [Off EXCEPT !.at = "audit", !.mine = row.res,
                   !.source = IF row.res = None THEN "recovery" ELSE "automatic",
                   !.cut = IF row.res = None THEN LatestPromotedUserSeq ELSE fence[row.res]]
<1>1. Inbox' /\ UNCHANGED <<goal, fence, issued, proc, humans, audited>>
  BY InboxStill DEF StartAudit
<1>2. Off \in Jobs /\ row.res \in Reservation \cup {None}
      /\ (IF row.res = None THEN LatestPromotedUserSeq ELSE fence[row.res]) \in Nat
  BY OffType, JobFacts DEF Rows
<1>3. j \in Jobs /\ j.at = "audit" /\ j.mine = row.res
  BY <1>2 DEF Jobs
<1>4. Kept(row, row') /\ Marked(row')
  BY JobFacts, RecoveryClaimKept DEF StartAudit, Recoverable
<1>5. Set(a, j)
  BY DEF StartAudit
<1> HIDE DEF j
<1>6. \A c \in Runner : job'[c].at = "off"
  BY <1>5, RunnerAssumption DEF StartAudit, Working, At, IInv, Types, TypeJob, Set
<1>7. Fits(a, j)
  BY <1>3, <1>4, <1>6 DEF Fits, Before, StartAudit
<1> QED BY <1>1, <1>3, <1>4, <1>5, <1>7, KeptMoves, AgentStep DEF StartAudit

LEMMA JudgeType ==
  ASSUME IInv, NEW a \in Agent, NEW v \in Verdicts \cup {"unaudited"}, Judge(a, v)
  PROVE  \E j \in Jobs : Set(a, j) /\ j.at = "settle" /\ j.mine = job[a].mine
<1>1. Authorized(a) \in Nat
  BY JobFacts DEF Authorized, Jobs
<1>2. (v # "complete" /\ Ahead(a)) \in BOOLEAN
  OBVIOUS
<1> DEFINE Judged(m, l, x, n, r) ==
             [Off EXCEPT !.at = "settle", !.mine = m, !.lane = l, !.verdict = v,
                !.ahead = x, !.cut = n, !.revised = r]
<1>3. ASSUME NEW x \in BOOLEAN, NEW n \in Nat
      PROVE  LET j == Judged(job[a].mine, job[a].lane, x, n, job[a].revised)
             IN  j \in Jobs /\ j.at = "settle" /\ j.mine = job[a].mine
  <2>1. ASSUME NEW m \in Reservation \cup {None}, NEW l \in 0..NoLane, NEW r \in BOOLEAN
        PROVE  LET j == Judged(m, l, x, n, r)
               IN  j \in Jobs /\ j.at = "settle" /\ j.mine = m
    <3> DEFINE i == [Off EXCEPT !.at = "settle", !.mine = m, !.lane = l, !.verdict = v]
    <3>1. i \in Jobs /\ i.at = "settle" /\ i.mine = m
      BY OffType DEF Jobs
    <3>2. Judged(m, l, x, n, r) = [i EXCEPT !.ahead = x, !.cut = n, !.revised = r]
      OBVIOUS
    <3> HIDE DEF i, Judged
    <3> QED BY <3>1, <3>2 DEF Jobs
  <2> HIDE DEF Judged
  <2>2. job[a].mine \in Reservation \cup {None} /\ job[a].lane \in 0..NoLane /\ job[a].revised \in BOOLEAN
    BY JobFacts DEF Jobs
  <2> QED BY <2>1, <2>2
<1>4. (IF v = "continue" THEN Authorized(a) ELSE 0) \in Nat
  BY <1>1
<1> QED BY <1>2, <1>3, <1>4, Zenon DEF Judge

LEMMA JudgeKeeps ==
  ASSUME IInv, NEW a \in Agent, FailUnaudited(a) \/ Answer(a)
  PROVE  IInv'
<1>1. PICK v \in Verdicts \cup {"unaudited"} : Judge(a, v)
  BY DEF FailUnaudited, Answer
<1>2. PICK j \in Jobs : Set(a, j) /\ j.at = "settle" /\ j.mine = job[a].mine
  BY <1>1, JudgeType
<1>3. job[a].at \in {"audit", "auditing"} /\ UNCHANGED <<inputs, goal, row, fence, issued, proc, humans, audited>>
  BY DEF FailUnaudited, Answer, At
<1>4. Inbox'
  BY <1>3, InboxStill
<1>5. RowMoves /\ row' \in Rows
  BY <1>3, JobFacts, RowKept, KeptMoves
<1> QED BY <1>2, <1>3, <1>4, <1>5, MovesOn DEF Before

\* Leaving an audit keeps what is kept by the row it leaves.
LEMMA LeaveFacts ==
  ASSUME IInv, NEW a \in Agent, NEW w, Kept(row, w), LeaveAudit(a, w)
  PROVE  /\ Kept(row, row')
         /\ \E j \in Jobs : Set(a, j) /\ j.mine = None /\ j.at \in {"off", "loop"} /\ (j.at = "loop" => a \in Runner)
<1>1. w \in Rows
  BY DEF Kept, Shrunk
<1>2. Kept(row, row')
  BY <1>1, RecoveryKept, KeptTwice DEF LeaveAudit
<1>3. [Loop EXCEPT !.lane = job[a].lane] \in Jobs
      /\ [Loop EXCEPT !.lane = job[a].lane].at = "loop" /\ [Loop EXCEPT !.lane = job[a].lane].mine = None
  BY JobFacts, LoopType DEF Jobs
<1> QED BY <1>2, <1>3, OffType DEF LeaveAudit, Rest

LEMMA LeaveKeeps ==
  ASSUME IInv, NEW a \in Agent, NEW w, Kept(row, w), LeaveAudit(a, w), job[a].at # "off",
         UNCHANGED <<inputs, goal, fence, issued, proc, humans, audited>>
  PROVE  IInv'
<1>1. Inbox'
  BY InboxStill
<1>2. PICK j \in Jobs : Set(a, j) /\ j.mine = None /\ j.at \in {"off", "loop"} /\ (j.at = "loop" => a \in Runner)
  BY LeaveFacts
<1>3. Kept(row, row')
  BY LeaveFacts
<1> QED BY <1>1, <1>2, <1>3, KeptMoves, MovesOn DEF Before

LEMMA StartLeaseKeeps ==
  ASSUME IInv, NEW a \in Agent, StartLease(a)
  PROVE  IInv'
<1>1. job[a].at = "audit" /\ UNCHANGED <<inputs, goal, fence, issued, proc, humans>>
  BY DEF StartLease, At
<1>2. CASE ~MayBegin(job[a].mine, Home(a))
  <2>1. LeaveAudit(a, row) /\ UNCHANGED audited
    BY <1>2 DEF StartLease
  <2> QED BY <1>1, <2>1, JobFacts, RowKept, LeaveKeeps
<1>3. CASE MayBegin(job[a].mine, Home(a))
  <2> DEFINE j == [job[a] EXCEPT !.at = "auditing"]
  <2>1. /\ row' = BeginAudit(a) /\ Set(a, j)
        /\ audited' = audited \cup ({row.res} \ {None})
    BY <1>3 DEF StartLease
  <2>2. j \in Jobs /\ j.at = "auditing" /\ j.mine = job[a].mine
    BY JobFacts DEF Jobs
  <2> HIDE DEF j
  <2>3. row' \in Rows /\ row'.res = row.res /\ (row.res # None => Marked(row') /\ row.res = job[a].mine)
    <3>1. row \in Rows /\ Home(a) # None
      BY JobFacts, AgentAssumption
    <3>2. row' \in Rows /\ row'.res = row.res /\ row'.lease = a /\ row'.owner = row.owner
      BY <2>1, <3>1 DEF BeginAudit, Rows
    <3>3. row.res # None => row.res = job[a].mine /\ row.owner = Home(a)
      BY <1>3 DEF MayBegin, NoRow
    <3> QED BY <3>1, <3>2, <3>3 DEF Marked
  <2>4. RowMoves
    BY <2>3 DEF RowMoves, Kept, Shrunk
  <2>5. Fits(a, j)
    BY <2>2 DEF Fits, Before
  <2>6. TypeJob' /\ (\A b \in Agent : Moves(b)) /\ OneRunner'
    BY <1>1, <2>1, <2>2, <2>5, SetStep
  <2>7. \A b \in Runner : job'[b].at \in Before /\ row.res # None => job'[b].mine # row.res
    <3> SUFFICES ASSUME NEW b \in Runner, job'[b].at \in Before, row.res # None, job'[b].mine = row.res
                 PROVE  FALSE
      OBVIOUS
    <3>1. b # a /\ job'[b] = job[b] /\ b \in Agent
      BY <2>1, <2>2, RunnerAssumption DEF Set, Before, IInv, Types, TypeJob
    <3>2. a \notin Runner
      BY <1>1, <3>1 DEF IInv, OneRunner, Before
    <3> QED BY <2>3, <3>1, <3>2 DEF IInv, Audits, Apart
  <2>8. AuditsMove /\ issued \subseteq issued'
    BY <1>1, <2>1, <2>3, <2>7 DEF AuditsMove
  <2>9. audited' \subseteq Reservation
    BY <2>1, JobFacts DEF IInv, Types, TypeRest, Rows
  <2>10. Types'
    BY <1>1, <2>3, <2>6, <2>9 DEF IInv, Types, TypeOKAutomation, TypeRest, humans
  <2>11. Inbox'
    BY <1>1, InboxStill
  <2> QED BY <2>4, <2>6, <2>8, <2>10, <2>11, AuditsKept DEF IInv
<1> QED BY <1>2, <1>3

LEMMA SettleKeeps ==
  ASSUME IInv, NEW a \in Agent, Settle(a)
  PROVE  IInv'
<1>1. job[a].at = "settle" /\ UNCHANGED <<inputs, goal, fence, issued, proc, humans, audited>>
  BY DEF Settle, At
<1>2. CASE LeaveAudit(a, row) \/ LeaveAudit(a, NoRow)
  BY <1>1, <1>2, JobFacts, RowKept, LeaveKeeps
<1>3. CASE ~(LeaveAudit(a, row) \/ LeaveAudit(a, NoRow))
  <2>1. PICK s \in {"reconcile", "insert", "retry"} : Set(a, [job[a] EXCEPT !.at = s]) /\ row' = row
    BY <1>3 DEF Settle
  <2>2. [job[a] EXCEPT !.at = s] \in Jobs /\ [job[a] EXCEPT !.at = s].at = s
        /\ [job[a] EXCEPT !.at = s].mine = job[a].mine
    BY JobFacts DEF Jobs
  <2>3. Inbox'
    BY <1>1, InboxStill
  <2>4. RowMoves /\ row' \in Rows
    BY <2>1, JobFacts, RowKept, KeptMoves
  <2> QED BY <1>1, <2>1, <2>2, <2>3, <2>4, MovesOn DEF Before
<1> QED BY <1>2, <1>3

LEMMA RetryKeeps ==
  ASSUME IInv, NEW a \in Agent, Retry(a)
  PROVE  IInv'
<1>1. job[a].at \in {"retry", "insert"} /\ UNCHANGED <<inputs, goal, fence, issued, proc, humans, audited>>
  BY DEF Retry, At
<1>2. LeaveAudit(a, row) \/ LeaveAudit(a, Failed(row)) \/ (row = NoRow /\ LeaveAudit(a, Failed(NoRow)))
  BY DEF Retry
<1> QED BY <1>1, <1>2, JobFacts, RowKept, FailedKept, LeaveKeeps

LEMMA ReconcileKeeps ==
  ASSUME IInv, NEW a \in Agent, Reconcile(a)
  PROVE  IInv'
<1>1. job[a].at = "reconcile" /\ UNCHANGED <<inputs, fence, issued, proc, humans, audited>>
  BY DEF Reconcile, At
<1>2. CASE job[a].revised
  <2>1. LeaveAudit(a, DeferAudit(row, a)) /\ UNCHANGED goal
    BY <1>2 DEF Reconcile
  <2> QED BY <1>1, <2>1, JobFacts, DeferKept, LeaveKeeps
<1>3. CASE ~job[a].revised
  <2> DEFINE s == IF job[a].verdict = "complete" THEN "ended"
                  ELSE IF job[a].verdict = "blocked" THEN "blocked" ELSE "active"
             k(b) == job[b].revised \/ (goal # s /\ job[b].at # "off")
  <2>1. /\ goal' = s /\ row' = row
        /\ job' = [b \in Agent |-> IF b = a THEN [job[a] EXCEPT !.at = "conclude"]
                                   ELSE [job[b] EXCEPT !.revised = k(b)]]
    BY <1>3 DEF Reconcile
  <2>2. goal' \in {"active", "verifying", "blocked", "paused", "ended"}
    BY <2>1
  <2> HIDE DEF s
  <2>3. \A b \in Agent : k(b) \in BOOLEAN
    OBVIOUS
  <2> HIDE DEF k
  <2> DEFINE Told(j, x) == [j EXCEPT !.revised = x]
  <2>4. ASSUME NEW j \in Jobs
        PROVE  /\ [j EXCEPT !.at = "conclude"] \in Jobs /\ [j EXCEPT !.at = "conclude"].at = "conclude"
               /\ [j EXCEPT !.at = "conclude"].mine = j.mine
    BY DEF Jobs
  <2>4a. ASSUME NEW j \in Jobs, NEW x \in BOOLEAN
        PROVE  Told(j, x) \in Jobs /\ Told(j, x).at = j.at /\ Told(j, x).mine = j.mine
    BY DEF Jobs
  <2>5. \A b \in Agent : job[b] \in Jobs
    BY DEF IInv, Types, TypeJob
  <2>6. ASSUME NEW b \in Agent
        PROVE  /\ job'[b] \in Jobs /\ job'[b].mine = job[b].mine
               /\ job'[b].at = IF b = a THEN "conclude" ELSE job[b].at
    <3>1. CASE b = a
      <4>1. job'[b] = [job[a] EXCEPT !.at = "conclude"]
        BY <2>1, <3>1
      <4> QED BY <2>4, <2>5, <3>1, <4>1
    <3>2. CASE b # a
      <4>1. job'[b] = Told(job[b], k(b))
        BY <2>1, <3>2
      <4> HIDE DEF Told
      <4> QED BY <2>3, <2>5, <2>4a, <3>2, <4>1
    <3> QED BY <3>1, <3>2
  <2>7. TypeJob'
    BY <2>1, <2>6 DEF TypeJob
  <2>8. \A b \in Agent : Moves(b)
    BY <2>6 DEF IInv, Audits, Stages, Moves, Fits, Before
  <2>9. OneRunner'
    BY <1>1, <2>6, RunnerAssumption DEF IInv, OneRunner
  <2>10. Inbox'
    BY <1>1, InboxStill
  <2>11. RowMoves /\ row' \in Rows
    BY <2>1, JobFacts, RowKept, KeptMoves
  <2>12. Types'
    BY <1>1, <2>2, <2>7, <2>11 DEF IInv, Types, TypeOKAutomation, TypeRest, humans
  <2> QED BY <1>1, <2>8, <2>9, <2>10, <2>11, <2>12, AuditsKept DEF IInv, AuditsMove
<1> QED BY <1>2, <1>3

LEMMA ConcludeKeeps ==
  ASSUME IInv, NEW a \in Agent, Conclude(a)
  PROVE  IInv'
<1>1. job[a].at = "conclude" /\ UNCHANGED <<inputs, goal, proc, humans, audited>>
  BY DEF Conclude, At
<1>2. CASE LeaveAudit(a, NoRow) /\ UNCHANGED <<fence, issued>>
  BY <1>1, <1>2, JobFacts, RowKept, LeaveKeeps
<1>3. ASSUME NEW r \in Reservation \ issued, LeaveAudit(a, [NoRow EXCEPT !.res = r]),
             fence' = [fence EXCEPT ![r] = job[a].cut], issued' = issued \cup {r}
      PROVE  IInv'
  <2> DEFINE w == [NoRow EXCEPT !.res = r]
  <2>1. row' = w /\ w \in Rows /\ w.res = r
    <3>1. w \in Rows /\ w.res = r /\ w.request = "none"
      BY DEF NoRow, Rows
    <3> HIDE DEF w
    <3>2. row' = w
      BY <1>3, <3>1 DEF LeaveAudit, ReleaseAuditRecovery, w
    <3> QED BY <3>1, <3>2
  <2> HIDE DEF w
  <2>2. RowMoves
    BY <1>3, <2>1 DEF RowMoves
  <2>3. [Loop EXCEPT !.lane = job[a].lane] \in Jobs
        /\ [Loop EXCEPT !.lane = job[a].lane].at = "loop" /\ [Loop EXCEPT !.lane = job[a].lane].mine = None
    BY JobFacts, LoopType DEF Jobs
  <2>4. PICK j \in Jobs : Set(a, j) /\ j.mine = None /\ j.at \in {"off", "loop"} /\ (j.at = "loop" => a \in Runner)
    BY <1>3, <2>3, OffType DEF LeaveAudit, Rest
  <2>5. Fits(a, j)
    BY <2>4 DEF Fits, Before
  <2>6. TypeJob' /\ (\A b \in Agent : Moves(b)) /\ OneRunner'
    BY <1>1, <2>4, <2>5, SetStep
  <2>7. fence' \in [Reservation -> Nat] /\ \A q \in issued : fence'[q] = fence[q]
    BY <1>3, JobFacts DEF Jobs
  <2>8. Types'
    BY <1>1, <1>3, <2>1, <2>6, <2>7 DEF IInv, Types, TypeOKAutomation, TypeRest, humans
  <2>9. Inbox'
    <3>1. UNCHANGED <<inbox, seq>>
      BY <1>1 DEF inputs
    <3>2. LatestUserSeq' = LatestUserSeq
      BY <3>1, FrontierKept
    <3>3. TypeOKInputs' /\ SeqBounded'
      BY <3>1 DEF IInv, Inbox, TypeOKInputs, SeqBounded
    <3> QED BY <1>3, <2>7, <3>1, <3>2, <3>3 DEF IInv, Inbox, InboxKnown, PendingIsCurrent
  <2>10. AuditsMove /\ issued \subseteq issued'
    BY <1>1, <1>3 DEF AuditsMove
  <2> QED BY <2>2, <2>6, <2>8, <2>9, <2>10, AuditsKept DEF IInv
<1> QED BY <1>2, <1>3 DEF Conclude

LEMMA InterruptKeeps ==
  ASSUME IInv, NEW a \in Agent, Interrupt(a)
  PROVE  IInv'
<1>1. job[a].at # "off" /\ Set(a, Off) /\ UNCHANGED <<inputs, goal, fence, issued, proc, humans, audited>>
  BY DEF Interrupt, At
<1>2. Inbox'
  BY <1>1, InboxStill
<1>3. row \in Rows /\ Home(a) \in Process
  BY JobFacts
<1>4. RowMoves /\ row' \in Rows
  <2>1. CASE a \notin Runner
    <3>1. row' = ReleaseAuditRecovery(DeferAudit(row, a), job[a].mine, Home(a))
      BY <2>1 DEF Interrupt, Finalize
    <3>2. Kept(row, DeferAudit(row, a)) /\ DeferAudit(row, a) \in Rows
      BY <1>3, DeferKept DEF Kept, Shrunk
    <3> QED BY <3>1, <3>2, RecoveryKept, KeptTwice, KeptMoves
  <2>2. CASE a \in Runner /\ ~Carrying(a)
    <3>1. row' = RequeueClaim(DeferAudit(row, a), Home(a))
      BY <2>2 DEF Interrupt, Finalize
    <3>2. Kept(row, DeferAudit(row, a)) /\ DeferAudit(row, a) \in Rows
      BY <1>3, DeferKept DEF Kept, Shrunk
    <3> QED BY <3>1, <3>2, RequeueKept, KeptTwice, KeptMoves
  <2>3. CASE a \in Runner /\ Carrying(a)
    <3> DEFINE v == Release(row, job[a].mine, Home(a))
    <3>1. row' = RequeueClaim(v, Home(a))
      BY <2>3 DEF Interrupt, Finalize
    <3>2. Shrunk(row, v) /\ (row.res = job[a].mine \/ v = row)
      BY <1>3, ReleaseShrinks
    <3>3. Kept(v, row')
      BY <3>1, <3>2, RequeueKept DEF Shrunk
    <3>4. Shrunk(row, row')
      BY <3>2, <3>3 DEF Kept, Shrunk
    <3>5. CASE v = row
      BY <3>3, <3>5, KeptMoves
    <3>6. CASE row.res = job[a].mine
      BY <2>3, <3>4, <3>6 DEF RowMoves, Carrying, Before, Shrunk
    <3> QED BY <3>2, <3>5, <3>6
  <2> QED BY <2>1, <2>2, <2>3
<1> QED BY <1>1, <1>2, <1>4, OffType, MovesOn DEF Before

-----------------------------------------------------------------------------
(* Theorems.                                                                *)

LEMMA InitIInv == Init => IInv
<1> SUFFICES ASSUME Init PROVE IInv
  OBVIOUS
<1> USE DEF Init, InitInputs, InitAutomation
<1>1. Types
  <2>1. TypeOKAutomation
    BY DEF TypeOKAutomation, NoRow, Rows
  <2>2. TypeJob
    BY OffType DEF TypeJob
  <2>3. changes \in 0..MaxChange
    BY RunnerAssumption
  <2>4. proc \in [Process -> {"new", "up", "dead"}] /\ asks \in [UserInput -> {"new", "cancel", "reopen", "done"}]
    OBVIOUS
  <2>5. owed \in BOOLEAN /\ audited \subseteq Reservation
    OBVIOUS
  <2> QED BY <2>1, <2>2, <2>3, <2>4, <2>5 DEF Types, TypeRest
<1>2. Inbox
  <2>1. Cardinality(Input) \in Nat
    BY ClassAssumption, FS_CardinalityType
  <2> QED BY <2>1 DEF Inbox, TypeOKInputs, SeqBounded, InboxKnown, PendingIsCurrent, Input
<1>3. OneRunner /\ Audits
  BY OffType, RunnerAssumption, AgentAssumption
     DEF OneRunner, Audits, Known, Stages, AuditIsMarked, Apart, NotAudited, Before, NoRow
<1> QED BY <1>1, <1>2, <1>3 DEF IInv

LEMMA NextIInv ==
  ASSUME IInv, [Next]_everything
  PROVE  IInv'
<1>1. CASE Human
  BY <1>1, PromptKeeps, CancelForUserKeeps, ReactivateBlockedKeeps, AdmitHostKeeps, TransitionKeeps,
     CancelForTransitionKeeps, AskForAuditKeeps DEF Human
<1>2. ASSUME NEW a \in Agent, Run(a) PROVE IInv'
  BY <1>2, StartDrainKeeps, TakeInputKeeps, TakeContinuationKeeps, MaterializeKeeps, PromoteKeeps,
     DispatchKeeps, EndTurnKeeps DEF Run
<1>3. ASSUME NEW a \in Agent, Audit(a) PROVE IInv'
  BY <1>3, StartAuditKeeps, JudgeKeeps, StartLeaseKeeps, SettleKeeps, RetryKeeps, ReconcileKeeps,
     ConcludeKeeps DEF Audit
<1>4. ASSUME NEW a \in Agent, Interrupt(a) PROVE IInv'
  BY <1>4, InterruptKeeps
<1>5. ASSUME NEW p \in Process, Boot(p) \/ Crash(p) PROVE IInv'
  BY <1>5, BootKeeps, CrashKeeps
<1>6. CASE UNCHANGED everything
  <2> USE <1>6 DEF everything, humans
  <2>1. Inbox'
    BY InboxStill
  <2>2. RowMoves
    BY JobFacts, RowKept DEF RowMoves, IInv, Types, TypeOKAutomation
  <2>3. Types' /\ OneRunner' /\ (\A b \in Agent : Moves(b))
    BY DEF IInv, Types, TypeOKAutomation, TypeJob, TypeRest, OneRunner, Audits, Stages, Moves, Fits
  <2> QED BY <2>1, <2>2, <2>3, AuditsKept DEF IInv, AuditsMove
<1> QED BY <1>1, <1>2, <1>3, <1>4, <1>5, <1>6 DEF Next

\* The inductive invariant holds in every reachable state.
THEOREM Invariance == Spec => []IInv
<1>1. IInv /\ [Next]_everything => IInv'
  BY NextIInv
<1> QED BY InitIInv, <1>1, PTL DEF Spec

\* The states of the inbox, the row, the agents and the prompts (TypeOK of GoalCycle).
THEOREM TypeCorrect == Spec => []TypeOK
<1>1. IInv => TypeOK
  BY DEF IInv, Types, Inbox, TypeOK, TypeJob, TypeRest
<1> QED BY Invariance, <1>1, PTL

\* A cycle whose audit has begun is never executed again (requeueClaim, deferAudit, claim and
\* the sweep at start, automation.ts).
THEOREM AuditedOnce == Spec => []AuditedNeverRuns
<1>1. IInv => AuditedNeverRuns
  BY DEF IInv, Audits, NotAudited, AuditedNeverRuns, Carrying, Before
<1> QED BY Invariance, <1>1, PTL

\* An automatic input is promoted only for the user frontier its reservation was authorized
\* for (projectAdmitted and verifyLatestUserSeq, input.ts).
THEOREM FrontierHolds == Spec => ContinuationIsCurrent
<1>1. IInv => \A r \in Reservation : inbox[r] = "pending" => fence[r] = LatestUserSeq
  BY DEF IInv, Inbox, PendingIsCurrent
<1>2. IInv /\ [Next]_everything =>
        [\A r \in Reservation : inbox[r] = "pending" /\ inbox'[r] = "promoted" => fence[r] = LatestUserSeq]_everything
  BY <1>1
<1> QED BY Invariance, <1>2, PTL DEF Spec, ContinuationIsCurrent

-----------------------------------------------------------------------------
(* What a process that runs holds is worked on.                             *)

\* An agent that holds the audit cursor of the row, or its request with the claim.
HoldsLease(a) ==
  /\ row.lease = a /\ job[a].mine = row.res
  /\ job[a].at \in AuditStages \ {"insert"} /\ job[a].verdict # "unaudited"
HoldsRequest(a) ==
  /\ row.lease = None /\ row.request # "none" /\ job[a].mine = row.res
  /\ \/ job[a].at = "audit"
     \/ job[a].at \in {"settle", "retry"} /\ job[a].verdict = "unaudited"

\* A runner tends a claim of its process until it ends; an audit of the host only the
\* one it holds.
Tends(a) ==
  /\ Home(a) = row.owner
  /\ IF a \in Runner THEN ~At(a, "off") ELSE HoldsLease(a) \/ HoldsRequest(a)

Tended ==
  /\ row.owner # None => row.res # None /\ row.lease # Cut /\ proc[row.owner] # "new"
  /\ \A a \in Agent : ~At(a, "off") => proc[Home(a)] = "up"
  /\ \A a \in Agent : job[a].at \in {"audit", "auditing"} => job[a].verdict # "unaudited"
  /\ row.owner # None /\ proc[row.owner] = "up" => \E a \in Agent : Tends(a)
  /\ row.lease \in Agent /\ row.res # None =>
       row.owner = Home(row.lease) /\ (proc[row.owner] = "up" => HoldsLease(row.lease))

\* What a step does to the row: it stays, with whoever tends it; nobody holds it
\* afterwards; or its agent does.
Stands(a) == row' = row /\ (Tends(a) => Tends(a)') /\ (HoldsLease(a) => HoldsLease(a)')
Unheld(w) == w.owner = None /\ (w.lease \in Agent => w.res = None)
Takes(a) ==
  /\ row'.owner = Home(a) /\ row'.res # None /\ Tends(a)'
  /\ row'.lease = None \/ (row'.lease = a /\ HoldsLease(a)')

SameWork(b) == job'[b].at = job[b].at /\ job'[b].mine = job[b].mine /\ job'[b].verdict = job[b].verdict

\* A step of one agent that does so keeps the row tended.
LEMMA TendStep ==
  ASSUME IInv, Tended, NEW a \in Agent, proc' = proc, \A b \in Agent : b # a => SameWork(b),
         job'[a].at # "off" => proc[Home(a)] = "up",
         job'[a].at \in {"audit", "auditing"} => job'[a].verdict # "unaudited",
         Stands(a) \/ Unheld(row') \/ Takes(a)
  PROVE  Tended'
<1> USE DEF Tended, SameWork, At, Home
<1>1. Home(a) \in Process /\ None \notin Process /\ None # Cut /\ None \notin Agent /\ Cut \notin Agent
  BY AgentAssumption
<1>2. \A b \in Agent : b # a /\ row' = row => (HoldsLease(b)' <=> HoldsLease(b)) /\ (Tends(b)' <=> Tends(b))
  BY DEF HoldsLease, HoldsRequest, Tends
<1>3. CASE Stands(a)
  BY <1>2, <1>3 DEF Stands
<1>4. CASE Unheld(row')
  BY <1>1, <1>4 DEF Unheld
<1>5. CASE Takes(a)
  <2>1. proc[Home(a)] = "up"
    BY <1>5 DEF Takes, Tends, HoldsLease, HoldsRequest, AuditStages
  <2> QED BY <1>1, <1>5, <2>1 DEF Takes
<1> QED BY <1>3, <1>4, <1>5

\* What the steps of an agent start from.
LEMMA TendFacts ==
  ASSUME IInv, Tended, NEW a \in Agent, NEW j, Set(a, j)
  PROVE  job'[a] = j /\ \A b \in Agent : b # a => SameWork(b)
BY DEF IInv, Types, TypeJob, Set, SameWork

\* What the statements of the row do to a claim.
LEMMA ReleaseUnholds ==
  ASSUME NEW w \in Rows, NEW r, NEW p
  PROVE  Release(w, r, p) = w \/ Unheld(Release(w, r, p))
<1>1. None \notin Agent /\ Cut \notin Agent
  BY AgentAssumption
<1>2. CASE w.res = r /\ r # None /\ w.owner = p
  <2>1. Release(w, r, p).owner = None /\ Release(w, r, p).lease \in {None, Cut}
    BY <1>2 DEF Release, Rows
  <2> QED BY <1>1, <2>1 DEF Unheld
<1>3. CASE ~(w.res = r /\ r # None /\ w.owner = p)
  BY <1>3 DEF Release
<1> QED BY <1>2, <1>3

Claims(w, p) == w.res # None /\ w.owner = p /\ w.lease = None
LEMMA ClaimWins ==
  ASSUME row \in Rows, NEW p \in Process
  PROVE  IF Won = None THEN Claim(p) \in {row, NoRow} ELSE Claims(Claim(p), p)
<1>1. CASE Claimable /\ Current
  <2>1. row.res # None BY <1>1 DEF Claimable
  <2>2. Claim(p) = [row EXCEPT !.owner = p, !.lease = None] BY <1>1 DEF Claim
  <2>3. Claims(Claim(p), p) BY <2>1, <2>2 DEF Rows, Claims
  <2> QED BY <1>1, <2>1, <2>3 DEF Won
<1>2. CASE ~(Claimable /\ Current)
  BY <1>2 DEF Claim, Won
<1> QED BY <1>1, <1>2

LEMMA NoRowUnheld == Unheld(NoRow)
BY DEF NoRow, Unheld

\* An agent that leaves its audit gives back what it has.
LEMMA LeaveTends ==
  ASSUME IInv, Tended, NEW a \in Agent, ~At(a, "off"), NEW w, LeaveAudit(a, w), proc' = proc,
         \/ Unheld(w)
         \/ w = row /\ ~HoldsLease(a) /\ (Tends(a) => a \in Runner \/ HoldsRequest(a))
  PROVE  Tended'
<1>1. /\ job'[a] = Rest(a) /\ \A b \in Agent : b # a => SameWork(b)
      /\ Rest(a).verdict = "none" /\ Rest(a).at = (IF a \in Runner THEN "loop" ELSE "off")
  BY TendFacts DEF LeaveAudit, Rest, Loop, Off
<1>2. proc[Home(a)] = "up"
  BY DEF Tended
<1>3. CASE Unheld(w)
  <2>1. Home(a) # None BY AgentAssumption DEF Home
  <2>2. row' = w BY <1>3, <2>1 DEF LeaveAudit, ReleaseAuditRecovery, Unheld
  <2> QED BY <1>1, <1>2, <1>3, <2>2, TendStep
<1>4. CASE w = row /\ ~HoldsLease(a) /\ a \in Runner
  <2>1. row' = row BY <1>4 DEF LeaveAudit
  <2>2. Stands(a) BY <1>1, <1>4, <2>1 DEF Stands, Tends, At, HoldsRequest, Home
  <2> QED BY <1>1, <1>2, <2>2, TendStep
<1>5. CASE w = row /\ ~HoldsLease(a) /\ a \notin Runner /\ ~Tends(a)
  <2>1. row' = row \/ Unheld(row')
    <3>1. row \in Rows BY JobFacts
    <3>2. row' = ReleaseAuditRecovery(row, job[a].mine, Home(a)) BY <1>5 DEF LeaveAudit
    <3>3. None \notin Agent BY AgentAssumption
    <3> QED BY <3>1, <3>2, <3>3 DEF ReleaseAuditRecovery, Unheld, Rows
  <2>2. row' = row => Stands(a) BY <1>5 DEF Stands
  <2> QED BY <1>1, <1>2, <2>1, <2>2, TendStep
<1>6. CASE w = row /\ a \notin Runner /\ Tends(a) /\ HoldsRequest(a)
  <2>1. row \in Rows /\ None \notin Agent /\ Home(a) # None BY JobFacts, AgentAssumption DEF Home
  <2>2. row.res # None /\ row.res = job[a].mine /\ row.owner = Home(a)
    BY <1>6, <2>1 DEF Tends, Tended, HoldsRequest
  <2>3. row' = [row EXCEPT !.owner = None]
    BY <1>6, <2>2 DEF LeaveAudit, ReleaseAuditRecovery, HoldsRequest
  <2>4. Unheld(row') BY <1>6, <2>1, <2>3 DEF Unheld, Rows, HoldsRequest
  <2> QED BY <1>1, <1>2, <2>4, TendStep
<1> QED BY <1>3, <1>4, <1>5, <1>6

\* A runner before its audit, which goes on or gives up what it carries.
LEMMA RunnerTends ==
  ASSUME IInv, Tended, NEW a \in Agent, a \in Runner, NEW j, Set(a, j), proc' = proc,
         job[a].at \in Before, j.at \in Before \/ (j.at = "audit" /\ j.verdict # "unaudited"),
         row' = row \/ row' = NoRow \/ row' = Release(row, job[a].mine, Home(a))
  PROVE  Tended'
<1>1. job'[a] = j /\ \A b \in Agent : b # a => SameWork(b)
  BY TendFacts
<1>2. proc[Home(a)] = "up"
  BY DEF Tended, Before, At
<1>3. row' = row => Stands(a)
  BY <1>1 DEF Stands, Tends, HoldsLease, HoldsRequest, AuditStages, At, Before, Home
<1>4. row' = row \/ Unheld(row')
  <2>1. row \in Rows BY JobFacts
  <2> QED BY <2>1, ReleaseUnholds, NoRowUnheld
<1> QED BY <1>1, <1>2, <1>3, <1>4, TendStep DEF Before

LEMMA StartDrainTends ==
  ASSUME IInv, Tended, NEW a \in Agent, StartDrain(a)
  PROVE  Tended'
<1>1. /\ a \in Runner /\ proc[Home(a)] = "up" /\ job[a].at = "off" /\ proc' = proc
      /\ row \in Rows /\ Home(a) # None /\ Home(a) \in Process /\ None \notin Agent /\ Cut \notin Agent
  BY JobFacts, AgentAssumption DEF StartDrain, Working, At
<1>2. ~HoldsLease(a) /\ ~Tends(a)
  BY <1>1 DEF HoldsLease, Tends, At, AuditStages
<1>3. row' = row => Stands(a)
  BY <1>2 DEF Stands
<1>4. CASE StartRecovery(a)
  <2> DEFINE j == [Off EXCEPT !.at = "audit", !.mine = row.res, !.lane = NextLane,
                     !.source = IF row.res = None THEN "recovery" ELSE "automatic",
                     !.cut = IF row.res = None THEN 0 ELSE fence[row.res]]
  <2>1. Set(a, j) /\ j.at = "audit" /\ j.verdict = "none"
    BY <1>4 DEF StartRecovery, Off
  <2> HIDE DEF j
  <2>2. job'[a] = j /\ \A b \in Agent : b # a => SameWork(b)
    BY <2>1, TendFacts
  <2>3. row' = row \/ Takes(a)
    BY <1>1, <1>4, <2>1, <2>2 DEF StartRecovery, Recoverable, ClaimAuditRecovery, Takes, Tends, At, Rows, Home
  <2> QED BY <1>1, <1>3, <2>1, <2>2, <2>3, TendStep
<1>5. CASE StartCycle(a)
  <2>1. \E j : /\ Set(a, j) /\ j.verdict = "none" /\ j.at \in {"loop", "off"}
               /\ row' \in {row, NoRow} \/ (j.at = "loop" /\ Claims(row', Home(a)))
    <3> DEFINE Fresh(m) == [Off EXCEPT !.at = "loop", !.mine = m, !.lane = NextLane]
    <3>1. \A m : Fresh(m).at = "loop" /\ Fresh(m).verdict = "none"
      BY DEF Off
    <3>2. [Off EXCEPT !.at = "loop", !.lane = NextLane].at = "loop"
          /\ [Off EXCEPT !.at = "loop", !.lane = NextLane].verdict = "none"
      BY DEF Off
    <3>3. \/ Set(a, Off) /\ row' \in {row, NoRow}
          \/ Set(a, Fresh(Won)) /\ (row' \in {row, NoRow} \/ Claims(row', Home(a)))
          \/ Set(a, [Off EXCEPT !.at = "loop", !.lane = NextLane]) /\ row' \in {row, NoRow}
      <4>1. IF Won = None THEN Claim(Home(a)) \in {row, NoRow} ELSE Claims(Claim(Home(a)), Home(a))
        BY <1>1, ClaimWins
      <4> QED BY <1>5, <4>1, Zenon DEF StartCycle
    <3>4. Off.at = "off" /\ Off.verdict = "none"
      BY DEF Off
    <3> HIDE DEF Fresh
    <3> QED BY <3>1, <3>2, <3>3, <3>4, Zenon
  <2>2. PICK j : /\ Set(a, j) /\ j.verdict = "none" /\ j.at \in {"loop", "off"}
                 /\ row' \in {row, NoRow} \/ (j.at = "loop" /\ Claims(row', Home(a)))
    BY <2>1
  <2>3. job'[a] = j /\ \A b \in Agent : b # a => SameWork(b)
    BY <2>2, TendFacts
  <2>4. row' = row \/ Unheld(row') \/ Takes(a)
    BY <1>1, <2>2, <2>3, NoRowUnheld DEF Claims, Takes, Tends, At, Home
  <2> QED BY <1>1, <1>3, <2>2, <2>3, <2>4, TendStep
<1> QED BY <1>4, <1>5 DEF StartDrain

LEMMA TakeInputTends ==
  ASSUME IInv, Tended, NEW a \in Agent, TakeInput(a)
  PROVE  Tended'
<1> DEFINE j == [Off EXCEPT !.at = "promote", !.source = LaneClass(LaneOf(a)), !.lane = LaneOf(a),
                            !.cut = LatestUserSeq]
<1>1. Set(a, j) /\ j.at = "promote"
  BY DEF TakeInput, Off
<1> HIDE DEF j
<1>2. job[a].at = "loop" /\ a \in Runner /\ proc' = proc
  BY JobFacts DEF TakeInput, At, Before
<1>3. row' = NoRow \/ row' = Release(row, job[a].mine, Home(a))
  BY DEF TakeInput
<1> QED BY <1>1, <1>2, <1>3, RunnerTends DEF Before

LEMMA TakeContinuationTends ==
  ASSUME IInv, Tended, NEW a \in Agent, TakeContinuation(a)
  PROVE  Tended'
<1>1. /\ job[a].at = "loop" /\ a \in Runner /\ proc' = proc /\ job[a] \in Jobs
      /\ row \in Rows /\ Home(a) # None /\ Home(a) \in Process /\ None \notin Agent /\ Cut \notin Agent
  BY JobFacts, AgentAssumption DEF TakeContinuation, At, Before
<1>2. CASE job[a].mine # None
  <2>1. Set(a, [job[a] EXCEPT !.at = "materialize", !.lane = NoLane]) /\ row' = row
    BY <1>2 DEF TakeContinuation
  <2>2. [job[a] EXCEPT !.at = "materialize", !.lane = NoLane].at = "materialize"
    BY <1>1 DEF Jobs
  <2> QED BY <1>1, <2>1, <2>2, RunnerTends DEF Before
<1>3. CASE job[a].mine = None /\ Won # None
  <2> DEFINE j == [job[a] EXCEPT !.at = "materialize", !.mine = Won, !.lane = NoLane]
  <2>1. Set(a, j) /\ j.at = "materialize"
    BY <1>1, <1>3 DEF TakeContinuation, Jobs
  <2>2. Claims(row', Home(a))
    <3>1. row' = Claim(Home(a)) BY <1>3 DEF TakeContinuation
    <3> QED BY <1>1, <1>3, <3>1, ClaimWins
  <2> HIDE DEF j
  <2>3. job'[a] = j /\ \A b \in Agent : b # a => SameWork(b)
    BY <2>1, TendFacts
  <2>4. Takes(a)
    BY <1>1, <2>1, <2>2, <2>3 DEF Claims, Takes, Tends, At, Home
  <2>5. proc[Home(a)] = "up"
    BY <1>1 DEF Tended, At
  <2> QED BY <1>1, <2>1, <2>3, <2>4, <2>5, TendStep
<1>4. CASE job[a].mine = None /\ Won = None
  <2>1. Claim(Home(a)) = row \/ Claim(Home(a)) = NoRow
    BY <1>1, <1>4, ClaimWins
  <2>2. CASE LaneOf(a) = AutomaticLane
    <3>1. Set(a, [job[a] EXCEPT !.lane = NoLane]) /\ row' = Claim(Home(a))
      BY <1>4, <2>2 DEF TakeContinuation
    <3>2. [job[a] EXCEPT !.lane = NoLane].at = "loop"
      BY <1>1 DEF Jobs
    <3> QED BY <1>1, <2>1, <3>1, <3>2, RunnerTends DEF Before
  <2>3. CASE LaneOf(a) # AutomaticLane
    <3>1. Set(a, Off) /\ row' = RequeueClaim(Claim(Home(a)), Home(a))
      BY <1>4, <2>3 DEF TakeContinuation
    <3>2. job'[a] = Off /\ \A b \in Agent : b # a => SameWork(b)
      BY <3>1, TendFacts
    <3>3. Unheld(row') \/ (row' = row /\ row.owner # Home(a))
      BY <1>1, <2>1, <3>1 DEF RequeueClaim, NoRow, Unheld, Rows, Tended
    <3>4. row' = row /\ row.owner # Home(a) => Stands(a)
      BY <1>1 DEF Stands, Tends, HoldsLease, AuditStages
    <3> QED BY <1>1, <3>2, <3>3, <3>4, OffType, TendStep
  <2> QED BY <2>2, <2>3
<1> QED BY <1>2, <1>3, <1>4

LEMMA MaterializeTends ==
  ASSUME IInv, Tended, NEW a \in Agent, Materialize(a)
  PROVE  Tended'
<1>1. /\ job[a].at = "materialize" /\ a \in Runner /\ proc' = proc /\ job[a] \in Jobs
      /\ Loop.at = "loop"
  BY JobFacts, LoopType DEF Materialize, At, Before
<1>2. row' \in {row, NoRow}
  BY DEF Materialize
<1>3. \A s \in {"dispatch", "promote"} :
        [job[a] EXCEPT !.at = s, !.source = "automatic", !.lane = AutomaticLane, !.cut = fence[job[a].mine]].at = s
  BY <1>1 DEF Jobs
<1>4. \E j : Set(a, j) /\ j.at \in {"dispatch", "promote", "loop"}
  BY <1>1, <1>3, Zenon DEF Materialize
<1>5. PICK j : Set(a, j) /\ j.at \in {"dispatch", "promote", "loop"}
  BY <1>4
<1> QED BY <1>1, <1>2, <1>5, RunnerTends DEF Before

LEMMA UnspentTends ==
  ASSUME IInv, Tended, NEW a \in Agent, job[a].at \in Before, Unspent(a), proc' = proc
  PROVE  Tended'
BY JobFacts, LoopType, RunnerTends DEF Unspent, Before

LEMMA PromoteTends ==
  ASSUME IInv, Tended, NEW a \in Agent, Promote(a)
  PROVE  Tended'
<1>1. job[a].at = "promote" /\ a \in Runner /\ proc' = proc /\ job[a] \in Jobs
  BY JobFacts DEF Promote, At, Before
<1>2. [job[a] EXCEPT !.at = "dispatch"].at = "dispatch"
  BY <1>1 DEF Jobs
<1>3. Unspent(a) \/ (Set(a, [job[a] EXCEPT !.at = "dispatch"]) /\ row' = row)
  BY DEF Promote
<1> QED BY <1>1, <1>2, <1>3, UnspentTends, RunnerTends DEF Before

LEMMA DispatchTends ==
  ASSUME IInv, Tended, NEW a \in Agent, Dispatch(a)
  PROVE  Tended'
<1>1. job[a].at = "dispatch" /\ a \in Runner /\ proc' = proc /\ job[a] \in Jobs
  BY JobFacts DEF Dispatch, At, Before
<1>2. [job[a] EXCEPT !.at = "turn"].at = "turn"
  BY <1>1 DEF Jobs
<1>3. Evaluating(job[a]).at = "audit" /\ Evaluating(job[a]).verdict = "none"
  BY DEF Evaluating, Off
<1>4. Unspent(a) \/ (Set(a, [job[a] EXCEPT !.at = "turn"]) /\ row' = row) \/ (Set(a, Evaluating(job[a])) /\ row' = row)
  BY DEF Dispatch
<1> QED BY <1>1, <1>2, <1>3, <1>4, UnspentTends, RunnerTends DEF Before

LEMMA EndTurnTends ==
  ASSUME IInv, Tended, NEW a \in Agent, EndTurn(a)
  PROVE  Tended'
<1>1. job[a].at = "turn" /\ a \in Runner /\ proc' = proc /\ row' = row /\ job[a] \in Jobs
  BY JobFacts DEF EndTurn, At, Before
<1> DEFINE j == [job[a] EXCEPT !.spent = TRUE, !.cut = Frontier(a)]
<1>2. /\ [j EXCEPT !.at = "dispatch"].at = "dispatch"
      /\ [j EXCEPT !.at = "promote", !.lane = SteerLane(j.source)].at = "promote"
  BY <1>1 DEF Jobs
<1>3. Evaluating(j).at = "audit" /\ Evaluating(j).verdict = "none"
  BY DEF Evaluating, Off
<1>4. \/ Set(a, [j EXCEPT !.at = "dispatch"])
      \/ Set(a, [j EXCEPT !.at = "promote", !.lane = SteerLane(j.source)])
      \/ Set(a, Evaluating(j))
  BY <1>1 DEF EndTurn
<1> HIDE DEF j
<1> QED BY <1>1, <1>2, <1>3, <1>4, RunnerTends DEF Before

LEMMA StartAuditTends ==
  ASSUME IInv, Tended, NEW a \in Agent, StartAudit(a)
  PROVE  Tended'
<1> DEFINE j == [Off EXCEPT !.at = "audit", !.mine = row.res,
                   !.source = IF row.res = None THEN "recovery" ELSE "automatic",
                   !.cut = IF row.res = None THEN LatestPromotedUserSeq ELSE fence[row.res]]
<1>1. /\ a \notin Runner /\ proc[Home(a)] = "up" /\ job[a].at = "off" /\ proc' = proc
      /\ row \in Rows /\ Home(a) # None /\ Home(a) \in Process
  BY JobFacts, AgentAssumption DEF StartAudit, At
<1>2. Set(a, j) /\ j.at = "audit" /\ j.mine = row.res /\ j.verdict = "none"
  BY DEF StartAudit, Off
<1> HIDE DEF j
<1>3. job'[a] = j /\ \A b \in Agent : b # a => SameWork(b)
  BY <1>2, TendFacts
<1>4. row' = row \/ Takes(a)
  BY <1>1, <1>2, <1>3 DEF StartAudit, Recoverable, ClaimAuditRecovery, Takes, Tends, HoldsRequest, Rows, Home
<1>5. row' = row => Stands(a)
  BY <1>1 DEF Stands, Tends, HoldsLease, HoldsRequest, AuditStages
<1> QED BY <1>1, <1>2, <1>3, <1>4, <1>5, TendStep

LEMMA JudgeTends ==
  ASSUME IInv, Tended, NEW a \in Agent, FailUnaudited(a) \/ Answer(a)
  PROVE  Tended'
<1>1. PICK v \in Verdicts \cup {"unaudited"} : Judge(a, v) /\ (v = "unaudited" <=> job[a].at = "audit")
  BY DEF FailUnaudited, Answer, Verdicts, At
<1>2. \E j : Set(a, j) /\ j.at = "settle" /\ j.mine = job[a].mine /\ j.verdict = v
  <2> DEFINE j == [Off EXCEPT !.at = "settle", !.mine = job[a].mine, !.lane = job[a].lane, !.verdict = v,
                     !.ahead = v # "complete" /\ Ahead(a),
                     !.cut = IF v = "continue" THEN Authorized(a) ELSE 0, !.revised = job[a].revised]
  <2>1. Set(a, j)
    BY <1>1 DEF Judge
  <2>2. j.at = "settle" /\ j.mine = job[a].mine /\ j.verdict = v
    BY DEF Off
  <2> HIDE DEF j
  <2> QED BY <2>1, <2>2
<1>3. PICK j : Set(a, j) /\ j.at = "settle" /\ j.mine = job[a].mine /\ j.verdict = v
  BY <1>2
<1>4. job[a].at \in {"audit", "auditing"} /\ row' = row /\ proc' = proc
  BY DEF FailUnaudited, Answer, At
<1>5. job'[a] = j /\ \A b \in Agent : b # a => SameWork(b)
  BY <1>3, TendFacts
<1>6. Stands(a)
  BY <1>1, <1>3, <1>4, <1>5 DEF Stands, Tends, HoldsLease, HoldsRequest, AuditStages, At, Home
<1>7. proc[Home(a)] = "up"
  BY <1>4 DEF Tended, At
<1> QED BY <1>3, <1>4, <1>5, <1>6, <1>7, TendStep

LEMMA StartLeaseTends ==
  ASSUME IInv, Tended, NEW a \in Agent, StartLease(a)
  PROVE  Tended'
<1>1. job[a].at = "audit" /\ proc' = proc /\ ~At(a, "off") /\ job[a] \in Jobs /\ row \in Rows /\ proc[Home(a)] = "up"
  BY JobFacts DEF StartLease, At, Tended
<1>2. CASE ~MayBegin(job[a].mine, Home(a))
  <2>1. LeaveAudit(a, row) /\ ~HoldsLease(a)
    BY <1>1, <1>2 DEF StartLease, HoldsLease, AuditStages
  <2>2. Tends(a) => a \in Runner \/ HoldsRequest(a)
    BY <2>1 DEF Tends
  <2> QED BY <1>1, <2>1, <2>2, LeaveTends
<1>3. CASE MayBegin(job[a].mine, Home(a))
  <2> DEFINE j == [job[a] EXCEPT !.at = "auditing"]
  <2>1. row' = [row EXCEPT !.request = "none", !.lease = a] /\ Set(a, j)
    BY <1>3 DEF StartLease, BeginAudit
  <2>2. j.at = "auditing" /\ j.mine = job[a].mine /\ j.verdict = job[a].verdict /\ job[a].verdict # "unaudited"
    BY <1>1 DEF Jobs, Tended
  <2> HIDE DEF j
  <2>3. job'[a] = j /\ \A b \in Agent : b # a => SameWork(b)
    BY <2>1, TendFacts
  <2>4. row'.lease = a /\ row'.res = row.res /\ row'.owner = row.owner
    BY <1>1, <2>1 DEF Rows
  <2>5. CASE row.res = None
    BY <1>1, <2>2, <2>3, <2>4, <2>5, TendStep DEF Unheld, Tended
  <2>6. CASE row.res # None
    <3>1. row.res = job[a].mine /\ row.owner = Home(a)
      BY <1>3, <2>6 DEF MayBegin, NoRow
    <3>2. HoldsLease(a)'
      BY <2>2, <2>3, <2>4, <3>1 DEF HoldsLease, AuditStages
    <3>3. Takes(a)
      BY <2>2, <2>3, <2>4, <2>6, <3>1, <3>2 DEF Takes, Tends, At, Home
    <3> QED BY <1>1, <2>2, <2>3, <3>3, TendStep
  <2> QED BY <2>5, <2>6
<1> QED BY <1>2, <1>3

\* Who holds the cursor of a claimed reservation is not superseded, and neither is who
\* holds its request without having had a cursor.
LEMMA HolderIsCurrent ==
  ASSUME IInv, Tended, NEW a \in Agent, row.res # None
  PROVE  /\ HoldsLease(a) => Cursor(a) /\ row.lease = a /\ ~LostClaim(a)
         /\ Tends(a) /\ HoldsRequest(a) => ~LostClaim(a)
BY DEF Tended, HoldsLease, HoldsRequest, Tends, Cursor, LostClaim

LEMMA SettleTends ==
  ASSUME IInv, Tended, NEW a \in Agent, Settle(a)
  PROVE  Tended'
<1>1. job[a].at = "settle" /\ proc' = proc /\ ~At(a, "off") /\ job[a] \in Jobs /\ row \in Rows /\ proc[Home(a)] = "up"
  BY JobFacts DEF Settle, At, Tended
<1>2. CASE Superseded(a)
  <2>1. LeaveAudit(a, row)
    BY <1>2 DEF Settle
  <2>2. CASE row.res = None
    <3>1. row.owner = None BY <2>2 DEF Tended
    <3> QED BY <1>1, <2>1, <2>2, <3>1, LeaveTends DEF Unheld
  <2>3. CASE row.res # None
    <3>1. ~HoldsLease(a)
      BY <1>2, <2>3, HolderIsCurrent DEF Superseded
    <3>2. Tends(a) => a \in Runner \/ HoldsRequest(a)
      BY <3>1 DEF Tends
    <3> QED BY <1>1, <2>1, <3>1, <3>2, LeaveTends
  <2> QED BY <2>2, <2>3
<1>3. CASE LeaveAudit(a, NoRow)
  BY <1>1, <1>3, NoRowUnheld, LeaveTends
<1>4. CASE ~Superseded(a) /\ ~LeaveAudit(a, NoRow)
  <2> DEFINE s == IF job[a].verdict \notin {"unaudited", "failed"} THEN "reconcile"
                  ELSE IF row = NoRow THEN "insert" ELSE "retry"
             j == [job[a] EXCEPT !.at = s]
  <2>1. Set(a, j) /\ row' = row
    BY <1>4 DEF Settle
  <2>2. j.at = s /\ j.mine = job[a].mine /\ j.verdict = job[a].verdict
    BY <1>1 DEF Jobs
  <2> HIDE DEF j
  <2>3. job'[a] = j /\ \A b \in Agent : b # a => SameWork(b)
    BY <2>1, TendFacts
  <2>4. s \in {"reconcile", "insert", "retry"} /\ (s = "insert" => row = NoRow)
        /\ (job[a].verdict = "unaudited" => s # "reconcile")
    OBVIOUS
  <2> HIDE DEF s
  <2>5. NoRow.lease = None /\ NoRow.request = "none" /\ None \notin Agent
    BY AgentAssumption DEF NoRow
  <2>6. HoldsLease(a) => HoldsLease(a)'
    BY <2>1, <2>2, <2>3, <2>4, <2>5 DEF HoldsLease, AuditStages
  <2>7. HoldsRequest(a) => HoldsRequest(a)'
    BY <1>1, <2>1, <2>2, <2>3, <2>4, <2>5 DEF HoldsRequest
  <2>8. Stands(a)
    BY <2>1, <2>2, <2>3, <2>4, <2>6, <2>7 DEF Stands, Tends, At, Home
  <2> QED BY <1>1, <2>2, <2>3, <2>4, <2>8, TendStep
<1> QED BY <1>2, <1>3, <1>4

LEMMA RetryTends ==
  ASSUME IInv, Tended, NEW a \in Agent, Retry(a)
  PROVE  Tended'
<1>1. /\ job[a].at \in {"retry", "insert"} /\ proc' = proc /\ ~At(a, "off") /\ row \in Rows
      /\ None \notin Agent
  BY JobFacts, AgentAssumption DEF Retry, At
<1>2. Unheld(Failed(row)) /\ Unheld(Failed(NoRow))
  BY <1>1 DEF Failed, NoRow, Rows, Unheld
<1>3. PICK w \in {row, Failed(row), Failed(NoRow)} :
        /\ LeaveAudit(a, w)
        /\ \/ Unheld(w)
           \/ row = NoRow \/ At(a, "insert")
           \/ Cursor(a) /\ row.lease # a
           \/ LostClaim(a)
  BY <1>2, Zenon DEF Retry
<1>4. CASE Unheld(w)
  BY <1>1, <1>3, <1>4, LeaveTends
<1>5. CASE w = row /\ ~Unheld(w) /\ row.res = None
  <2>1. Unheld(row) BY <1>5 DEF Unheld, Tended
  <2> QED BY <1>1, <1>3, <1>5, <2>1, LeaveTends
<1>6. CASE w = row /\ ~Unheld(w) /\ row.res # None
  <2>1. row # NoRow BY <1>6 DEF NoRow
  <2>2. ~HoldsLease(a)
    BY <1>3, <1>6, <2>1, HolderIsCurrent DEF HoldsLease, At
  <2>3. Tends(a) => a \in Runner \/ HoldsRequest(a)
    BY <2>2 DEF Tends
  <2> QED BY <1>1, <1>3, <1>6, <2>2, <2>3, LeaveTends
<1> QED BY <1>2, <1>3, <1>4, <1>5, <1>6

LEMMA ReconcileTends ==
  ASSUME IInv, Tended, NEW a \in Agent, Reconcile(a)
  PROVE  Tended'
<1>1. /\ job[a].at = "reconcile" /\ proc' = proc /\ ~At(a, "off") /\ job[a] \in Jobs /\ row \in Rows
      /\ proc[Home(a)] = "up" /\ None \notin Agent /\ job \in [Agent -> Jobs]
  BY JobFacts, AgentAssumption DEF Reconcile, At, Tended, IInv, Types, TypeJob
<1>2. CASE job[a].revised
  <2>1. LeaveAudit(a, DeferAudit(row, a))
    BY <1>2 DEF Reconcile
  <2>2. row.lease = a => Unheld(DeferAudit(row, a))
    BY <1>1 DEF DeferAudit, Unheld, Rows
  <2>3. row.lease # a => DeferAudit(row, a) = row
    BY DEF DeferAudit
  <2>4. row.lease # a => ~HoldsLease(a) /\ (Tends(a) => a \in Runner \/ HoldsRequest(a))
    BY DEF HoldsLease, Tends
  <2> QED BY <1>1, <2>1, <2>2, <2>3, <2>4, LeaveTends
<1>3. CASE ~job[a].revised
  <2> DEFINE s == IF job[a].verdict = "complete" THEN "ended"
                  ELSE IF job[a].verdict = "blocked" THEN "blocked" ELSE "active"
  <2>1. row' = row /\ job' = [b \in Agent |->
               IF b = a THEN [job[a] EXCEPT !.at = "conclude"]
               ELSE [job[b] EXCEPT !.revised = @ \/ (goal # s /\ job[b].at # "off")]]
    BY <1>3 DEF Reconcile
  <2> HIDE DEF s
  <2>2. job'[a] = [job[a] EXCEPT !.at = "conclude"]
    BY <2>1
  <2>3. job'[a].at = "conclude" /\ job'[a].mine = job[a].mine /\ job'[a].verdict = job[a].verdict
    BY <1>1, <2>2 DEF Jobs
  <2>4. \A b \in Agent : b # a => SameWork(b)
    BY <1>1, <2>1 DEF SameWork, Jobs
  <2>5. Stands(a)
    BY <1>1, <2>1, <2>3 DEF Stands, Tends, HoldsLease, HoldsRequest, AuditStages, At, Home
  <2> QED BY <1>1, <2>3, <2>4, <2>5, TendStep
<1> QED BY <1>2, <1>3

LEMMA ConcludeTends ==
  ASSUME IInv, Tended, NEW a \in Agent, Conclude(a)
  PROVE  Tended'
<1>1. ~At(a, "off") /\ proc' = proc
  BY DEF Conclude, At
<1>2. \E w : LeaveAudit(a, w) /\ Unheld(w)
  <2>1. \A r : Unheld([NoRow EXCEPT !.res = r])
    BY AgentAssumption DEF NoRow, Unheld
  <2> QED BY <2>1, NoRowUnheld, Zenon DEF Conclude
<1> QED BY <1>1, <1>2, LeaveTends

LEMMA InterruptTends ==
  ASSUME IInv, Tended, NEW a \in Agent, Interrupt(a)
  PROVE  Tended'
<1>1. /\ ~At(a, "off") /\ Set(a, Off) /\ proc' = proc /\ row' = Finalize(a, row)
      /\ row \in Rows /\ None \notin Agent /\ Cut \notin Agent /\ Home(a) # None
  BY JobFacts, AgentAssumption DEF Interrupt, Home
<1>2. job'[a] = Off /\ \A b \in Agent : b # a => SameWork(b)
  BY <1>1, TendFacts
<1>3. Unheld(DeferAudit(row, a)) \/ (DeferAudit(row, a) = row /\ row.lease # a)
  BY <1>1 DEF DeferAudit, Unheld, Rows
<1>4. ASSUME NEW w, Unheld(w)
      PROVE  RequeueClaim(w, Home(a)) = w /\ ReleaseAuditRecovery(w, job[a].mine, Home(a)) = w
  BY <1>1, <1>4 DEF Unheld, RequeueClaim, ReleaseAuditRecovery
<1>5. CASE a \in Runner
  <2>1. PICK w \in {row, Release(row, job[a].mine, Home(a)), DeferAudit(row, a)} : row' = RequeueClaim(w, Home(a))
    BY <1>1, <1>5 DEF Finalize
  <2>2. w = row \/ Unheld(w)
    BY <1>1, <1>3, ReleaseUnholds
  <2>3. Unheld(RequeueClaim(row, Home(a))) \/ (RequeueClaim(row, Home(a)) = row /\ row.owner # Home(a))
    BY <1>1 DEF RequeueClaim, Unheld, Rows, Tended
  <2>4. Unheld(row') \/ (row' = row /\ row.owner # Home(a))
    BY <1>4, <2>1, <2>2, <2>3
  <2>5. row' = row /\ row.owner # Home(a) /\ row.res # None => Stands(a)
    BY DEF Stands, Tends, HoldsLease, Tended
  <2>6. row' = row /\ row.res = None => Unheld(row')
    BY DEF Unheld, Tended
  <2> QED BY <1>1, <1>2, <2>4, <2>5, <2>6, OffType, TendStep
<1>6. CASE a \notin Runner
  <2>1. row' = ReleaseAuditRecovery(DeferAudit(row, a), job[a].mine, Home(a))
    BY <1>1, <1>6 DEF Finalize
  <2>2. CASE Unheld(DeferAudit(row, a))
    BY <1>1, <1>2, <1>4, <2>1, <2>2, OffType, TendStep
  <2>3. CASE DeferAudit(row, a) = row /\ row.lease # a
    <3>1. row' = ReleaseAuditRecovery(row, job[a].mine, Home(a)) /\ ~HoldsLease(a)
      BY <2>1, <2>3 DEF HoldsLease
    <3>2. Unheld(row') \/ (row' = row /\ ~(row.res = job[a].mine /\ job[a].mine # None
                                           /\ row.owner = Home(a) /\ row.request # "none" /\ row.lease = None))
      BY <1>1, <3>1 DEF ReleaseAuditRecovery, Unheld, Rows
    <3>3. CASE row.res # None /\ ~Unheld(row')
      <4>1. ~Tends(a) BY <1>6, <3>1, <3>2, <3>3 DEF Tends, HoldsRequest
      <4>2. Stands(a) BY <3>1, <3>2, <3>3, <4>1 DEF Stands
      <4> QED BY <1>1, <1>2, <4>2, OffType, TendStep
    <3>4. CASE row.res = None \/ Unheld(row')
      <4>1. row.res = None /\ row' = row => Unheld(row') BY DEF Unheld, Tended
      <4>2. Unheld(row') BY <3>2, <3>4, <4>1
      <4> QED BY <1>1, <1>2, <4>2, OffType, TendStep
    <3> QED BY <3>3, <3>4
  <2> QED BY <1>3, <2>2, <2>3
<1> QED BY <1>5, <1>6

\* People change the row and the revisions, but not who works on it.
LEMMA HumanTends ==
  ASSUME IInv, Tended, Human
  PROVE  Tended'
<1>1. job \in [Agent -> Jobs] /\ row \in Rows /\ None \notin Agent
  BY AgentAssumption DEF IInv, Types, TypeJob, TypeOKAutomation
<1>2. proc' = proc /\ \A a \in Agent : SameWork(a)
  <2>1. ASSUME NEW s, Revise(s) PROVE \A a \in Agent : SameWork(a)
    BY <1>1, <2>1 DEF Revise, SameWork, Jobs
  <2>2. proc' = proc /\ (job' = job \/ \E s : Revise(s))
    BY DEF Human, Prompt, CancelForUser, ReactivateBlocked, AdmitHost, Transition, CancelForTransition,
           AskForAudit, RepairRequest
  <2> QED BY <2>1, <2>2 DEF SameWork
<1>3. row' = row \/ Unheld(row')
  <2>1. row' \in {row, NoRow, RequestAudit}
    BY DEF Human, Prompt, CancelForUser, ReactivateBlocked, AdmitHost, Transition, CancelForTransition,
           AskForAudit, RepairRequest
  <2>2. RequestAudit = row \/ Unheld(RequestAudit)
    BY <1>1 DEF RequestAudit, NoRow, Unheld, Rows
  <2> QED BY <2>1, <2>2, NoRowUnheld
<1> QED BY <1>1, <1>2, <1>3
     DEF Tended, Unheld, SameWork, Tends, HoldsLease, HoldsRequest, At, Home

\* A new process takes what is held from everybody: the row is held by nobody.
LEMMA BootTends ==
  ASSUME IInv, Tended, NEW p \in Process, Boot(p)
  PROVE  Tended'
<1>1. /\ proc \in [Process -> {"new", "up", "dead"}] /\ row \in Rows /\ row' = Sweep(row, p)
      /\ proc[p] = "new" /\ proc' = [proc EXCEPT ![p] = "up"] /\ job' = job
      /\ None \notin Agent /\ ProcOf \in [Agent -> Process]
  BY AgentAssumption DEF Boot, IInv, Types, TypeRest, TypeOKAutomation
<1>2. Unheld(row')
  BY <1>1 DEF Sweep, Unheld, Rows, Tended
<1> QED BY <1>1, <1>2 DEF Tended, Unheld, At, Home

\* A process that dies leaves what it holds to nobody that runs.
LEMMA CrashTends ==
  ASSUME IInv, Tended, NEW p \in Process, Crash(p)
  PROVE  Tended'
<1>1. /\ proc \in [Process -> {"new", "up", "dead"}] /\ row' = row
      /\ proc' = [proc EXCEPT ![p] = "dead"] /\ ProcOf \in [Agent -> Process]
      /\ job' = [a \in Agent |-> IF Home(a) = p THEN Off ELSE job[a]]
  BY AgentAssumption DEF Crash, IInv, Types, TypeRest
<1>2. \A a \in Agent : Home(a) # p => (HoldsLease(a)' <=> HoldsLease(a)) /\ (Tends(a)' <=> Tends(a))
  BY <1>1 DEF HoldsLease, HoldsRequest, Tends, At, Home
<1>3. Off.at = "off"
  BY DEF Off
<1>4. row.owner # None => row.owner \in Process
  BY JobFacts DEF IInv, Types, TypeOKAutomation, Rows
<1> QED BY <1>1, <1>2, <1>3, <1>4 DEF Tended, Tends, At, Home

LEMMA NextTended ==
  ASSUME IInv, Tended, [Next]_everything
  PROVE  Tended'
<1>1. ASSUME NEW a \in Agent, Run(a) PROVE Tended'
  BY <1>1, StartDrainTends, TakeInputTends, TakeContinuationTends, MaterializeTends, PromoteTends,
     DispatchTends, EndTurnTends DEF Run
<1>2. ASSUME NEW a \in Agent, Audit(a) PROVE Tended'
  BY <1>2, StartAuditTends, JudgeTends, StartLeaseTends, SettleTends, RetryTends, ReconcileTends,
     ConcludeTends DEF Audit
<1>3. CASE UNCHANGED everything
  BY <1>3 DEF everything, Tended, Tends, HoldsLease, HoldsRequest, At, Home
<1> QED BY <1>1, <1>2, <1>3, HumanTends, InterruptTends, BootTends, CrashTends DEF Next

\* What a process that runs holds, somebody in it works on: no claim and no audit cursor
\* of a reservation is left behind by an interrupt, a lost claim, a retry or a new process
\* (release, releaseAuditRecovery, requeueClaim, deferAudit, automation.ts).
THEOREM NothingIsLeftBehind == Spec => []ClaimsAreTended
<1>1. Init => Tended
  BY AgentAssumption, OffType DEF Init, InitAutomation, NoRow, Tended, At
<1>2. IInv /\ Tended /\ [Next]_everything => Tended'
  BY NextTended
<1>3. IInv /\ Tended => ClaimsAreTended
  BY DEF Tended, Tends, HoldsLease, HoldsRequest, ClaimsAreTended, AuditStages, At
<1> QED BY <1>1, <1>2, <1>3, Invariance, PTL DEF Spec
=============================================================================
