------------------------- MODULE GoalContinuationProofs -------------------------
(***************************************************************************)
(* For any inputs, reservations, processes and agents: the automation of a *)
(* Goal implements ContinuationLife.                                       *)
(***************************************************************************)
EXTENDS GoalCycleProofs

\* A user's input that was admitted has a number, no higher than such inputs there are.
Counted ==
  \A i \in UserInput :
    /\ inbox[i] = "absent" => seq[i] = 0
    /\ seq[i] <= Cardinality({j \in UserInput : seq[j] > 0})

\* Nothing is authorized for a word that was not spoken.
FencesArePast == \A r \in Reservation : fence[r] <= LatestUserSeq
\* Nor remembered by an agent, and who promotes automatic input has a reservation.
Settled(j) ==
  /\ j.cut <= LatestUserSeq
  /\ j.at = "promote" /\ j.lane = AutomaticLane => j.mine # None

Past == Counted /\ FencesArePast /\ \A a \in Agent : Settled(job[a])

-----------------------------------------------------------------------------
(* The user's last word.                                                    *)

\* It is no lower than any input's number, and no higher than a bound of all.
LEMMA LastWord ==
  ASSUME TypeOKInputs, SeqBounded
  PROVE  /\ LatestUserSeq \in Nat /\ LatestPromotedUserSeq <= LatestUserSeq
         /\ \A i \in UserInput : seq[i] <= LatestUserSeq
         /\ \A m \in Nat : (\A i \in UserInput : seq[i] <= m) => LatestUserSeq <= m
<1>1. ASSUME NEW S \in SUBSET UserInput, NEW m \in Nat, \A i \in S : seq[i] <= m
      PROVE  Last(SeqOf(S)) \in 0..m /\ \A i \in S : seq[i] <= Last(SeqOf(S))
  <2>1. SeqOf(S) \in [S -> Nat] /\ \A i \in S : SeqOf(S)[i] = seq[i]
    BY DEF SeqOf, TypeOKInputs, Input
  <2>2. Last(SeqOf(S)) \in 0..m /\ \A i \in S : SeqOf(S)[i] <= Last(SeqOf(S))
    BY <1>1, <2>1, LastType
  <2> QED BY <2>1, <2>2
<1>2. 1 + Cardinality(Input) \in Nat
  BY ClassAssumption, FS_CardinalityType
<1>3. \A i \in UserInput : seq[i] <= 1 + Cardinality(Input)
  BY DEF SeqBounded, Input
<1>4. LatestUserSeq \in Nat /\ \A i \in UserInput : seq[i] <= LatestUserSeq
  BY <1>1, <1>2, <1>3 DEF LatestUserSeq
<1>5. \A m \in Nat : (\A i \in UserInput : seq[i] <= m) => LatestUserSeq <= m
  BY <1>1 DEF LatestUserSeq
<1>6. LatestPromotedUserSeq <= LatestUserSeq
  BY <1>1, <1>4 DEF LatestPromotedUserSeq
<1> QED BY <1>4, <1>5, <1>6

\* A prompt is a new last word.
LEMMA WordMoves ==
  ASSUME IInv, IInv', Past, NEW i \in UserInput, ProjectAdmitted(i)
  PROVE  LatestUserSeq' \in Nat /\ LatestUserSeq' > LatestUserSeq /\ Counted'
<1> DEFINE Spoken == {j \in UserInput : seq[j] > 0}
<1>1. IsFiniteSet(Spoken) /\ IsFiniteSet(UserInput)
  BY ClassAssumption, FS_Subset DEF Input
<1>2. i \notin Spoken /\ inbox[i] = "absent" /\ i \in Input
  <2>1. inbox[i] = "absent"
    BY DEF ProjectAdmitted, NumberAdmission
  <2>2. seq[i] = 0
    BY <2>1 DEF Past, Counted
  <2> QED BY <2>1, <2>2 DEF Input
<1>3. {j \in Input : Class(j) = Class(i) /\ seq[j] > 0} = Spoken
  BY ClassAssumption DEF Class, Input
<1>4. seq' = [seq EXCEPT ![i] = 1 + Cardinality(Spoken)]
  BY <1>3 DEF ProjectAdmitted, NumberAdmission
<1>5. Cardinality(Spoken) \in Nat
  BY <1>1, FS_CardinalityType
<1>6. seq'[i] = 1 + Cardinality(Spoken) /\ \A j \in UserInput : j # i => seq'[j] = seq[j]
  BY <1>2, <1>4 DEF IInv, Inbox, TypeOKInputs, Input
<1>7. {j \in UserInput : seq'[j] > 0} = Spoken \cup {i}
  BY <1>5, <1>6
<1> HIDE DEF Spoken
<1>8. Cardinality(Spoken \cup {i}) = Cardinality(Spoken) + 1
  BY <1>1, <1>2, FS_AddElement
<1>9. \A j \in UserInput : seq[j] <= Cardinality(Spoken) /\ seq[j] \in Nat
  BY DEF Past, Counted, Spoken, IInv, Inbox, TypeOKInputs, Input
<1>10. LatestUserSeq <= Cardinality(Spoken) /\ LatestUserSeq \in Nat
  BY <1>5, <1>9, LastWord DEF IInv, Inbox
<1>11. LatestUserSeq' \in Nat /\ seq'[i] <= LatestUserSeq'
  <2>1. LatestUserSeq' = Last([j \in UserInput |-> seq'[j]])
    BY DEF LatestUserSeq, SeqOf
  <2>2. [j \in UserInput |-> seq'[j]] \in [UserInput -> Nat] /\ 1 + Cardinality(Input) \in Nat
    BY ClassAssumption, FS_CardinalityType DEF IInv, Inbox, TypeOKInputs, Input
  <2>3. \A j \in UserInput : [k \in UserInput |-> seq'[k]][j] <= 1 + Cardinality(Input)
    BY DEF IInv, Inbox, SeqBounded, Input
  <2> QED BY <2>1, <2>2, <2>3, LastType
<1>12. \A j \in UserInput : inbox'[j] = "absent" => inbox[j] = "absent" /\ j # i
  BY ClassAssumption DEF ProjectAdmitted, Retired, IInv, Inbox, TypeOKInputs, Input
<1>13. Counted'
  BY <1>5, <1>6, <1>7, <1>8, <1>9, <1>12 DEF Counted, Past
<1> QED BY <1>5, <1>6, <1>10, <1>11, <1>13

-----------------------------------------------------------------------------
(* What a step does to the numbers.                                         *)

Carries(j) == IF j.at \in Before THEN j.mine ELSE None

LEMMA TaskIs == \A a \in Agent : Task(a) = Carries(job[a]) /\ (Task(a) # None => job[a].at \in Before)
BY DEF Task, Carries, Before

LEMMA TaskBecomes == \A a \in Agent : Task(a)' = Carries(job'[a])
BY DEF Task, Carries, Before

\* The users' inputs stay where they are, or are promoted.
UsersStill ==
  \A i \in UserInput : seq'[i] = seq[i] /\ (inbox'[i] = "absent" => inbox[i] = "absent")

LEMMA PastKept ==
  ASSUME IInv, Past, UsersStill, \A b \in Agent : Settled(job'[b]),
         \A r \in Reservation : fence'[r] = fence[r] \/ fence'[r] <= LatestUserSeq
  PROVE  Past' /\ LatestUserSeq' = LatestUserSeq
<1>1. LatestUserSeq' = LatestUserSeq
  BY FrontierKept DEF UsersStill
<1>2. {j \in UserInput : seq'[j] > 0} = {j \in UserInput : seq[j] > 0}
  BY DEF UsersStill
<1>3. Counted'
  BY <1>2 DEF Past, Counted, UsersStill
<1>4. FencesArePast'
  BY <1>1 DEF Past, FencesArePast
<1>5. \A b \in Agent : Settled(job[b])'
  BY <1>1 DEF Settled
<1> QED BY <1>1, <1>3, <1>4, <1>5 DEF Past

\* The agent takes nothing up.
Calm(b) == Settled(job'[b]) /\ (Carries(job'[b]) = Carries(job[b]) \/ Carries(job'[b]) = None)

Withdrawn(r) == inbox'[r] = inbox[r] \/ (inbox[r] = "pending" /\ inbox'[r] = "revoked")
Quiet ==
  /\ UNCHANGED <<fence, issued, audited>> /\ UsersStill
  /\ row'.res \in {row.res, None}
  /\ \A r \in Reservation : Withdrawn(r)
  /\ \A b \in Agent : Calm(b)

\* Such a step withdraws some work, or none.
LEMMA QuietStep ==
  ASSUME IInv, Past, Quiet
  PROVE  Past' /\ Lives!Next
<1> PICK S \in SUBSET Runner : S = {a \in Runner : Task(a)' # Task(a)}
  OBVIOUS
<1> PICK R \in SUBSET Reservation : R = {r \in Reservation : row.res = r /\ row'.res # r}
  OBVIOUS
<1> PICK I \in SUBSET Reservation : I = {r \in Reservation : inbox'[r] # inbox[r]}
  OBVIOUS
<1>1. Past' /\ LatestUserSeq' = LatestUserSeq
  BY PastKept DEF Quiet, Calm
<1>2. [a \in Runner |-> Task(a)]' = [a \in Runner |-> IF a \in S THEN None ELSE Task(a)]
  BY TaskIs, TaskBecomes, RunnerAssumption DEF Quiet, Calm
<1>3. [r \in Reservation |-> Life(r)]' =
        [r \in Reservation |-> IF r \in R /\ Life(r) \in {"open", "judged"} THEN "gone" ELSE Life(r)]
  BY JobFacts, AgentAssumption DEF Quiet, Life
<1>4. [r \in Reservation |-> inbox[r]]' =
        [r \in Reservation |-> IF r \in I /\ inbox[r] = "pending" THEN "revoked" ELSE inbox[r]]
  BY DEF Quiet, Withdrawn
<1>5. Lives!Withdraw
  BY <1>1, <1>2, <1>3, <1>4 DEF Lives!Withdraw, Lives!Closed, Lives!Revoked, Quiet
<1> QED BY <1>1, <1>5 DEF Lives!Next

\* One agent moves; the others are as they were.
LEMMA OneMoves ==
  ASSUME IInv, Past, NEW a \in Agent, NEW j, Set(a, j), Settled(j)
  PROVE  /\ \A b \in Agent : Settled(job'[b])
         /\ job'[a] = j /\ \A b \in Agent : b # a => job'[b] = job[b]
         /\ Carries(j) \in {Carries(job[a]), None} => \A b \in Agent : Calm(b)
<1>1. job'[a] = j /\ \A b \in Agent : b # a => job'[b] = job[b]
  BY DEF IInv, Types, TypeJob, Set
<1> QED BY <1>1 DEF Past, Calm

\* The row shrinks; agents do not move; the inbox may stand still.
LEMMA QuietAgent ==
  ASSUME IInv, Past, NEW a \in Agent, NEW j, Set(a, j), Settled(j), Carries(j) \in {Carries(job[a]), None},
         row'.res \in {row.res, None}, UNCHANGED <<inputs, fence, issued, audited>>
  PROVE  Past' /\ Lives!Next
<1>1. \A b \in Agent : Calm(b)
  BY OneMoves
<1>2. UsersStill /\ \A r \in Reservation : Withdrawn(r)
  BY DEF UsersStill, Withdrawn, inputs
<1> QED BY <1>1, <1>2, QuietStep DEF Quiet

-----------------------------------------------------------------------------
(* People, the host, starts and crashes.                                    *)

LEMMA PromptLives ==
  ASSUME IInv, IInv', Past, NEW i \in UserInput, Prompt(i)
  PROVE  Past' /\ Lives!Next
<1>1. ProjectAdmitted(i) /\ UNCHANGED <<row, fence, issued, audited, job>>
  BY DEF Prompt
<1>2. LatestUserSeq' \in Nat /\ LatestUserSeq' > LatestUserSeq /\ Counted'
  BY <1>1, WordMoves
<1>3. LatestUserSeq \in Nat
  BY JobFacts, LastWord DEF IInv, Inbox
<1>4. Past'
  <2>1. \A r \in Reservation : fence[r] \in Nat
    BY DEF IInv, Types, TypeOKAutomation
  <2>2. \A b \in Agent : job[b].cut \in Nat
    BY JobFacts DEF Jobs
  <2> QED BY <1>1, <1>2, <1>3, <2>1, <2>2 DEF Past, FencesArePast, Settled
<1>5. \A r \in Reservation : inbox'[r] = IF inbox[r] = "pending" THEN "revoked" ELSE inbox[r]
  BY <1>1, ClassAssumption DEF ProjectAdmitted, Retired, Input
<1>6. [r \in Reservation |-> inbox[r]]' =
        [r \in Reservation |-> IF r \in Reservation /\ inbox[r] = "pending" THEN "revoked" ELSE inbox[r]]
  BY <1>5
<1>7. [r \in Reservation |-> Life(r)]' = [r \in Reservation |-> Life(r)]
  BY <1>1 DEF Life
<1>8. [a \in Runner |-> Task(a)]' = [a \in Runner |-> Task(a)]
  BY <1>1 DEF Task
<1>9. Lives!Speak
  BY <1>1, <1>2, <1>6, <1>7, <1>8 DEF Lives!Speak, Lives!Revoked
<1> QED BY <1>4, <1>9 DEF Lives!Next

\* Steps of people that leave the agents what they have.
LEMMA StillAgents ==
  ASSUME IInv, Past, row'.res \in {row.res, None}, UNCHANGED <<fence, issued, audited>>,
         UsersStill, \A r \in Reservation : Withdrawn(r),
         \A b \in Agent : \/ job'[b] = job[b]
                          \/ /\ job'[b].at = job[b].at /\ job'[b].mine = job[b].mine
                             /\ job'[b].cut = job[b].cut /\ job'[b].lane = job[b].lane
  PROVE  Past' /\ Lives!Next
<1>1. \A b \in Agent : Calm(b)
  BY DEF Past, Calm, Settled, Carries
<1> QED BY <1>1, QuietStep DEF Quiet

LEMMA RevisedAgents ==
  ASSUME IInv, NEW s, Revise(s)
  PROVE  \A b \in Agent : /\ job'[b].at = job[b].at /\ job'[b].mine = job[b].mine
                          /\ job'[b].cut = job[b].cut /\ job'[b].lane = job[b].lane
<1>1. ASSUME NEW j \in Jobs, NEW x
      PROVE  /\ [j EXCEPT !.revised = x].at = j.at /\ [j EXCEPT !.revised = x].mine = j.mine
             /\ [j EXCEPT !.revised = x].cut = j.cut /\ [j EXCEPT !.revised = x].lane = j.lane
  BY DEF Jobs
<1>2. ASSUME NEW b \in Agent PROVE job[b] \in Jobs /\ \E x : job'[b] = [job[b] EXCEPT !.revised = x]
  BY JobFacts DEF Revise
<1>3. ASSUME NEW b \in Agent
      PROVE  /\ job'[b].at = job[b].at /\ job'[b].mine = job[b].mine
             /\ job'[b].cut = job[b].cut /\ job'[b].lane = job[b].lane
  <2>1. PICK x : job'[b] = [job[b] EXCEPT !.revised = x]
    BY <1>2
  <2> QED BY <1>1, <1>2, <2>1
<1> QED BY <1>3

LEMMA HumanLives ==
  ASSUME IInv, IInv', Past, Human
  PROVE  Past' /\ Lives!Next
<1>0. row \in Rows
  BY DEF IInv, Types, TypeOKAutomation
<1>1. ASSUME NEW i \in UserInput, Prompt(i) PROVE Past' /\ Lives!Next
  BY <1>1, PromptLives
<1>2. ASSUME NEW i \in UserInput, CancelForUser(i) PROVE Past' /\ Lives!Next
  BY <1>2, StillAgents DEF CancelForUser, NoRow, UsersStill, Withdrawn, inputs
<1>3. ASSUME NEW i \in UserInput, ReactivateBlocked(i) PROVE Past' /\ Lives!Next
  <2>1. \E s : Revise(s)
    BY <1>3 DEF ReactivateBlocked
  <2> QED BY <1>3, <2>1, RevisedAgents, StillAgents DEF ReactivateBlocked, UsersStill, Withdrawn, inputs
<1>4. ASSUME NEW i \in HostInput, AdmitHost(i) PROVE Past' /\ Lives!Next
  <2>1. i \in Input /\ i \notin UserInput \cup Reservation
    BY ClassAssumption DEF Input
  <2>2. \A j \in Input : j # i => seq'[j] = seq[j] /\ inbox'[j] = inbox[j]
    BY <1>4, <2>1 DEF AdmitHost, AdmitSynthetic, NumberAdmission, IInv, Inbox, TypeOKInputs
  <2>3. UsersStill /\ \A r \in Reservation : Withdrawn(r)
    BY <2>1, <2>2 DEF UsersStill, Withdrawn, Input
  <2> QED BY <1>4, <2>3, StillAgents DEF AdmitHost
<1>5. ASSUME NEW t, Transition(t) PROVE Past' /\ Lives!Next
  <2>1. Revise(t)
    BY <1>5 DEF Transition
  <2> QED BY <1>5, <2>1, RevisedAgents, StillAgents DEF Transition, UsersStill, Withdrawn, inputs
<1>6. CASE CancelForTransition
  BY <1>6, StillAgents DEF CancelForTransition, NoRow, UsersStill, Withdrawn, inputs
<1>7. CASE AskForAudit \/ RepairRequest
  <2>1. row' = RequestAudit /\ UNCHANGED <<inputs, fence, issued, job, audited>>
    BY <1>7 DEF AskForAudit, RepairRequest
  <2>2. row'.res \in {row.res, None}
    BY <1>0, <2>1, RequestKept DEF Kept, Shrunk
  <2> QED BY <2>1, <2>2, StillAgents DEF UsersStill, Withdrawn, inputs
<1> QED BY <1>1, <1>2, <1>3, <1>4, <1>5, <1>6, <1>7 DEF Human

LEMMA ProcessLives ==
  ASSUME IInv, Past, NEW p \in Process, Boot(p) \/ Crash(p)
  PROVE  Past' /\ Lives!Next
<1>0. row \in Rows
  BY DEF IInv, Types, TypeOKAutomation
<1>1. CASE Boot(p)
  <2>1. row'.res \in {row.res, None}
    BY <1>0, <1>1, SweepKept DEF Boot, Kept, Shrunk
  <2> QED BY <1>1, <2>1, StillAgents DEF Boot, UsersStill, Withdrawn, inputs
<1>2. CASE Crash(p)
  <2>1. \A b \in Agent : job'[b] = Off \/ job'[b] = job[b]
    BY <1>2 DEF Crash
  <2>2. LatestUserSeq \in Nat /\ Settled(Off) /\ Carries(Off) = None
    BY LastWord DEF Settled, Carries, Off, Before, IInv, Inbox
  <2>3. \A b \in Agent : Calm(b)
    BY <2>1, <2>2 DEF Calm, Past
  <2>4. UsersStill /\ \A r \in Reservation : Withdrawn(r)
    BY <1>2 DEF Crash, UsersStill, Withdrawn, inputs
  <2> QED BY <1>2, <2>3, <2>4, QuietStep DEF Crash, Quiet
<1> QED BY <1>1, <1>2

-----------------------------------------------------------------------------
(* The runner.                                                              *)

\* Where the agents stand and what the row carries; bounds of what may be remembered.
LEMMA CarryFacts ==
  ASSUME IInv, Past
  PROVE  /\ row \in Rows /\ row.res \in Reservation \cup {None} /\ None \notin Reservation
         /\ LatestUserSeq \in Nat /\ LatestPromotedUserSeq <= LatestUserSeq
         /\ \A a \in Agent : Settled(job[a]) /\ job[a] \in Jobs
         /\ row.res # None => fence[row.res] <= LatestUserSeq
         /\ Settled(Off) /\ Carries(Off) = None
         /\ \A w \in Rows : w.res \in Reservation \cup {None}
<1>1. LatestUserSeq \in Nat /\ LatestPromotedUserSeq <= LatestUserSeq
  BY LastWord DEF IInv, Inbox
<1>2. row \in Rows /\ None \notin Reservation
  BY AgentAssumption DEF IInv, Types, TypeOKAutomation
<1>3. \A w \in Rows : w.res \in Reservation \cup {None}
  BY DEF Rows
<1>4. \A a \in Agent : job[a] \in Jobs
  BY JobFacts
<1> QED BY <1>1, <1>2, <1>3, <1>4 DEF Past, FencesArePast, Settled, Carries, Off, Before

\* A claim that is won is taken up.
LEMMA TakeStep ==
  ASSUME IInv, Past, NEW a \in Runner, NEW j, Set(a, j), Settled(j), Carries(j) = row.res,
         Claimable, Current, \A b \in Runner : Carries(job[b]) = None, row'.res = row.res,
         UNCHANGED <<inputs, fence, issued, audited>>
  PROVE  Past' /\ Lives!Next
<1>1. a \in Agent /\ \A b \in Runner : b \in Agent
  BY RunnerAssumption
<1>2. /\ \A b \in Agent : Settled(job'[b])
      /\ job'[a] = j /\ \A b \in Agent : b # a => job'[b] = job[b]
  BY <1>1, OneMoves
<1>3. Past' /\ LatestUserSeq' = LatestUserSeq
  BY <1>2, PastKept DEF UsersStill, inputs
<1>4. PICK r \in Reservation : r = row.res
  BY CarryFacts DEF Claimable
<1>5. Life(r) = "open"
  BY <1>4 DEF Life, IInv, Audits, Known, AuditIsMarked, Marked, Claimable
<1>6. [q \in Reservation |-> Life(q)]' = [q \in Reservation |-> Life(q)]
  BY DEF Life
<1>7. [b \in Runner |-> Task(b)]' = [[b \in Runner |-> Task(b)] EXCEPT ![a] = r]
  <2>1. ASSUME NEW b \in Runner PROVE Task(b)' = IF b = a THEN r ELSE Task(b)
    BY <1>1, <1>2, <1>4, TaskIs, TaskBecomes
  <2> QED BY <2>1
<1>8. \A b \in Runner : [c \in Runner |-> Task(c)][b] = None
  BY <1>1, TaskIs
<1>9. [q \in Reservation |-> inbox[q]]' = [q \in Reservation |-> inbox[q]]
  BY DEF inputs
<1>10. [q \in Reservation |-> Life(q)][r] = "open"
  BY <1>5
<1>11. Lives!Take(a, r)
  BY <1>3, <1>4, <1>6, <1>7, <1>8, <1>9, <1>10 DEF Lives!Take, Lives!Current, Lives!Idle, Current
<1> QED BY <1>3, <1>11 DEF Lives!Next

LEMMA StartDrainLives ==
  ASSUME IInv, Past, NEW a \in Agent, StartDrain(a)
  PROVE  Past' /\ Lives!Next
<1>1. a \in Runner /\ UNCHANGED <<inputs, fence, issued, audited>>
  BY DEF StartDrain
<1>2. \A b \in Runner : Carries(job[b]) = None
  BY DEF StartDrain, Working, At, Carries, Before
<1>3. CASE StartRecovery(a)
  <2> DEFINE j == [Off EXCEPT !.at = "audit", !.mine = row.res, !.lane = NextLane,
                     !.source = IF row.res = None THEN "recovery" ELSE "automatic",
                     !.cut = IF row.res = None THEN 0 ELSE fence[row.res]]
  <2>1. Set(a, j)
    BY <1>3 DEF StartRecovery
  <2>2. Settled(j) /\ Carries(j) = None
    BY CarryFacts DEF Settled, Carries, Before, Off
  <2> HIDE DEF j
  <2>3. row'.res \in {row.res, None}
    BY <1>3, CarryFacts, JobFacts, RecoveryClaimKept DEF StartRecovery, Recoverable, Kept, Shrunk
  <2> QED BY <1>1, <2>1, <2>2, <2>3, QuietAgent
<1>4. CASE StartCycle(a)
  <2> DEFINE fresh == [Off EXCEPT !.at = "loop", !.mine = Won, !.lane = NextLane]
  <2>1. Settled(fresh) /\ Carries(fresh) = Won
    BY CarryFacts DEF Settled, Carries, Before, Off
  <2>2. Settled([Off EXCEPT !.at = "loop", !.lane = NextLane])
        /\ Carries([Off EXCEPT !.at = "loop", !.lane = NextLane]) = None
    BY CarryFacts DEF Settled, Carries, Before, Off
  <2>3. CASE Won # None /\ row' = Claim(Home(a)) /\ Set(a, fresh)
    <3>1. Claimable /\ Current /\ Won = row.res
      BY <2>3 DEF Won
    <3>2. row'.res = row.res
      BY <2>3, <3>1, CarryFacts DEF Claim, Rows
    <3> HIDE DEF fresh
    <3> QED BY <1>1, <1>2, <2>1, <2>3, <3>1, <3>2, TakeStep
  <2>4. CASE /\ row' \in {Claim(Home(a)), NoRow, row}
             /\ Set(a, Off) \/ Set(a, [Off EXCEPT !.at = "loop", !.lane = NextLane]) \/ (Won = None /\ Set(a, fresh))
    <3>1. row'.res \in {row.res, None}
      BY <2>4, JobFacts, RowKept, ClaimKept DEF Kept, Shrunk
    <3>2. PICK j : Set(a, j) /\ Settled(j) /\ Carries(j) = None
      <4> HIDE DEF fresh
      <4> QED BY <2>1, <2>2, <2>4, CarryFacts
    <3> QED BY <1>1, <3>1, <3>2, QuietAgent
  <2>5. \/ Won # None /\ row' = Claim(Home(a)) /\ Set(a, fresh)
        \/ /\ row' \in {Claim(Home(a)), NoRow, row}
           /\ Set(a, Off) \/ Set(a, [Off EXCEPT !.at = "loop", !.lane = NextLane]) \/ (Won = None /\ Set(a, fresh))
    BY <1>4 DEF StartCycle
  <2> QED BY <2>3, <2>4, <2>5
<1> QED BY <1>3, <1>4 DEF StartDrain

LEMMA TakeInputLives ==
  ASSUME IInv, Past, NEW a \in Agent, TakeInput(a)
  PROVE  Past' /\ Lives!Next
<1> DEFINE j == [Off EXCEPT !.at = "promote", !.source = LaneClass(LaneOf(a)), !.lane = LaneOf(a),
                            !.cut = LatestUserSeq]
<1>1. Set(a, j) /\ LaneClass(LaneOf(a)) \in {"user", "host"} /\ UNCHANGED <<inputs, fence, issued, audited>>
  BY DEF TakeInput
<1>2. LaneOf(a) # AutomaticLane
  BY <1>1 DEF LaneClass, AutomaticLane
<1>3. Settled(j) /\ Carries(j) = None
  BY <1>2, CarryFacts DEF Settled, Carries, Before, Off
<1> HIDE DEF j
<1>4. row'.res \in {row.res, None}
  BY CarryFacts, ReleaseShrinks DEF TakeInput, NoRow, Shrunk
<1> QED BY <1>1, <1>3, <1>4, QuietAgent

LEMMA TakeContinuationLives ==
  ASSUME IInv, Past, NEW a \in Agent, TakeContinuation(a)
  PROVE  Past' /\ Lives!Next
<1>1. job[a].at = "loop" /\ a \in Runner /\ job[a] \in Jobs /\ UNCHANGED <<fence, issued, audited>>
  BY JobFacts DEF TakeContinuation, At, Before
<1>2. /\ Settled(job[a]) /\ Carries(job[a]) = job[a].mine
      /\ \A b \in Runner : b # a => Carries(job[b]) = None
  BY <1>1, CarryFacts DEF Carries, Before, IInv, OneRunner
<1>3. /\ Settled([job[a] EXCEPT !.at = "materialize", !.lane = NoLane])
      /\ Carries([job[a] EXCEPT !.at = "materialize", !.lane = NoLane]) = job[a].mine
  BY <1>1, <1>2 DEF Settled, Carries, Before, Jobs
<1>4. /\ Settled([job[a] EXCEPT !.lane = NoLane])
      /\ Carries([job[a] EXCEPT !.lane = NoLane]) = job[a].mine
  BY <1>1, <1>2 DEF Settled, Carries, Before, Jobs
<1>5. /\ Settled([job[a] EXCEPT !.at = "materialize", !.mine = Won, !.lane = NoLane])
      /\ Carries([job[a] EXCEPT !.at = "materialize", !.mine = Won, !.lane = NoLane]) = Won
  BY <1>1, <1>2 DEF Settled, Carries, Before, Jobs
<1>6. row \in Rows /\ Claim(Home(a)) \in Rows /\ Claim(Home(a)).res \in {row.res, None}
  BY JobFacts, ClaimKept DEF Kept, Shrunk
<1>7. CASE job[a].mine # None
  BY <1>1, <1>2, <1>3, <1>7, QuietAgent DEF TakeContinuation
<1>8. CASE job[a].mine = None /\ Won # None
  <2>1. Claimable /\ Current /\ Won = row.res
    BY <1>8 DEF Won
  <2>2. row' = Claim(Home(a)) /\ UNCHANGED inputs
        /\ Set(a, [job[a] EXCEPT !.at = "materialize", !.mine = Won, !.lane = NoLane])
    BY <1>8 DEF TakeContinuation
  <2>3. row'.res = row.res
    BY <1>6, <2>1, <2>2 DEF Claim, Rows
  <2> QED BY <1>1, <1>2, <1>5, <1>8, <2>1, <2>2, <2>3, TakeStep
<1>9. CASE job[a].mine = None /\ Won = None /\ LaneOf(a) = AutomaticLane
  <2>1. row' = Claim(Home(a)) /\ RevokeFirst(AutomaticLane) /\ Set(a, [job[a] EXCEPT !.lane = NoLane])
    BY <1>9 DEF TakeContinuation
  <2>2. \A r \in Reservation : Withdrawn(r)
    BY <2>1 DEF RevokeFirst, FirstPending, Pending, Withdrawn, Input
  <2>3. UsersStill
    BY <2>1 DEF RevokeFirst, UsersStill, Input
  <2>4. \A b \in Agent : Calm(b)
    BY <1>2, <1>4, <2>1, OneMoves
  <2> QED BY <1>1, <1>6, <2>1, <2>2, <2>3, <2>4, QuietStep DEF Quiet
<1>10. CASE job[a].mine = None /\ Won = None /\ LaneOf(a) # AutomaticLane
  <2>1. row' = RequeueClaim(Claim(Home(a)), Home(a)) /\ Set(a, Off) /\ UNCHANGED inputs
    BY <1>10 DEF TakeContinuation
  <2>2. row'.res \in {row.res, None}
    BY <1>6, <2>1, RequeueKept DEF Kept, Shrunk
  <2> QED BY <1>1, <2>1, <2>2, CarryFacts, QuietAgent
<1> QED BY <1>7, <1>8, <1>9, <1>10

LEMMA LoopFacts == ASSUME IInv, Past PROVE Settled(Loop) /\ Carries(Loop) = None
BY CarryFacts DEF Settled, Carries, Loop, Off, Before

\* The input of a continuation is admitted for the word it was made for, or its
\* reservation is given up.
LEMMA MaterializeLives ==
  ASSUME IInv, Past, NEW a \in Agent, Materialize(a)
  PROVE  Past' /\ Lives!Next
<1> DEFINE r == job[a].mine
           run(s) == [job[a] EXCEPT !.at = s, !.source = "automatic", !.lane = AutomaticLane, !.cut = fence[r]]
<1>1. job[a].at = "materialize" /\ a \in Runner /\ r \in Reservation /\ job[a] \in Jobs
      /\ UNCHANGED <<fence, issued, audited>>
  BY JobFacts DEF Materialize, At, Before, IInv, Audits, Stages, Known
<1>2. Carries(job[a]) = r /\ r # None /\ fence[r] <= LatestUserSeq
  BY <1>1, CarryFacts DEF Carries, Before, Past, FencesArePast
<1>3. \A s \in {"dispatch", "promote"} : Settled(run(s)) /\ Carries(run(s)) = r
  BY <1>1, <1>2 DEF Settled, Carries, Before, Jobs
<1> HIDE DEF run
<1>4. CASE UNCHANGED inputs /\ row' \in {row, NoRow} /\ \E s \in {"dispatch", "promote"} : Set(a, run(s)) \/ Set(a, Loop)
  <2>1. row'.res \in {row.res, None}
    BY <1>4 DEF NoRow
  <2> QED BY <1>1, <1>2, <1>3, <1>4, <2>1, LoopFacts, QuietAgent
<1>5. CASE inbox[r] = "absent" /\ Fenced(r) /\ AdmitSynthetic(r) /\ Set(a, run("promote")) /\ row' = row
  <2>1. r \in Input /\ r \notin UserInput /\ a \in Agent /\ \A b \in Runner : b \in Agent
    BY <1>1, ClassAssumption, RunnerAssumption DEF Input
  <2>2. \A j \in Input : j # r => seq'[j] = seq[j] /\ inbox'[j] = inbox[j]
    BY <1>5, <2>1 DEF AdmitSynthetic, NumberAdmission, IInv, Inbox, TypeOKInputs
  <2>3. inbox'[r] = "pending"
    BY <1>5, <2>1 DEF AdmitSynthetic, IInv, Inbox, TypeOKInputs
  <2>4. UsersStill
    BY <2>1, <2>2 DEF UsersStill, Input
  <2>5. /\ \A b \in Agent : Settled(job'[b]) /\ Carries(job'[b]) = Carries(job[b])
    BY <1>2, <1>3, <1>5, OneMoves
  <2>6. Past' /\ LatestUserSeq' = LatestUserSeq
    BY <1>1, <2>4, <2>5, PastKept
  <2>7. [q \in Reservation |-> inbox[q]]' = [[q \in Reservation |-> inbox[q]] EXCEPT ![r] = "pending"]
    BY <1>1, <2>2, <2>3 DEF Input
  <2>8. [q \in Reservation |-> Life(q)]' = [q \in Reservation |-> Life(q)]
    BY <1>1, <1>5 DEF Life
  <2>9. [b \in Runner |-> Task(b)]' = [b \in Runner |-> Task(b)]
    BY <2>1, <2>5, TaskIs, TaskBecomes
  <2>10. [b \in Runner |-> Task(b)][a] = r /\ [q \in Reservation |-> inbox[q]][r] = "absent"
    BY <1>1, <1>2, <1>5, TaskIs
  <2>11. fence[r] = LatestUserSeq /\ UNCHANGED fence
    BY <1>1, <1>5 DEF Fenced
  <2> HIDE DEF r
  <2>12. Lives!Admit(a)
    BY <1>2, <2>6, <2>7, <2>8, <2>9, <2>10, <2>11 DEF Lives!Admit, Lives!Current
  <2> QED BY <1>1, <2>6, <2>12 DEF Lives!Next
<1>6. \/ UNCHANGED inputs /\ row' \in {row, NoRow} /\ \E s \in {"dispatch", "promote"} : Set(a, run(s)) \/ Set(a, Loop)
      \/ inbox[r] = "absent" /\ Fenced(r) /\ AdmitSynthetic(r) /\ Set(a, run("promote")) /\ row' = row
  BY DEF Materialize, run
<1> QED BY <1>4, <1>5, <1>6

LEMMA UnspentLives ==
  ASSUME IInv, Past, NEW a \in Agent, Unspent(a), UNCHANGED <<inputs, fence, issued, audited>>
  PROVE  Past' /\ Lives!Next
<1>1. row'.res \in {row.res, None} /\ Set(a, Loop)
  BY CarryFacts, ReleaseShrinks DEF Unspent, NoRow, Shrunk
<1> QED BY <1>1, LoopFacts, QuietAgent

\* Automatic input is selected by its own lane only.
LEMMA SelectedAutomatic ==
  ASSUME NEW l \in 0..NoLane, NEW r \in Reservation, r \in Selected(l)
  PROVE  l = AutomaticLane /\ inbox[r] = "pending"
<1>1. Lane(r) = 4 /\ \A c : SteerLane(c) \in {0, 2}
  BY DEF Lane, AutomaticLane, SteerLane
<1> QED BY <1>1 DEF Selected, FirstPending, Pending, AutomaticLane

\* What waits is promoted by a runner that works on a continuation, for the word it was
\* made for.
LEMMA PromoteLives ==
  ASSUME IInv, Past, NEW a \in Agent, Promote(a)
  PROVE  Past' /\ Lives!Next
<1>1. job[a].at = "promote" /\ a \in Runner /\ job[a] \in Jobs /\ UNCHANGED <<fence, issued, audited>>
  BY JobFacts DEF Promote, At, Before
<1>2. CASE Unspent(a) /\ UNCHANGED inputs
  BY <1>1, <1>2, UnspentLives
<1>3. CASE PromoteLane(job[a].lane) /\ Set(a, [job[a] EXCEPT !.at = "dispatch"]) /\ UNCHANGED row
  <2> DEFINE j == [job[a] EXCEPT !.at = "dispatch"]
             l == job[a].lane
  <2>1. Settled(job[a]) /\ Carries(job[a]) = job[a].mine /\ l \in 0..NoLane
    BY <1>1, CarryFacts DEF Carries, Before, Jobs
  <2>2. Settled(j) /\ Carries(j) = job[a].mine
    BY <1>1, <2>1 DEF Settled, Carries, Before, Jobs
  <2> HIDE DEF j
  <2>3. \A b \in Agent : Calm(b) /\ Carries(job'[b]) = Carries(job[b])
    BY <1>3, <2>1, <2>2, OneMoves DEF j
  <2>4. \A i \in Input : inbox'[i] = IF i \in Selected(l) THEN "promoted" ELSE inbox[i]
    BY <1>3 DEF PromoteLane
  <2>5. UsersStill
    BY <1>3, <2>4 DEF PromoteLane, UsersStill, Input
  <2>6. CASE \A r \in Reservation : r \notin Selected(l)
    <3>1. \A r \in Reservation : Withdrawn(r)
      BY <2>4, <2>6 DEF Withdrawn, Input
    <3> QED BY <1>1, <1>3, <2>3, <2>5, <3>1, QuietStep DEF Quiet
  <2>7. CASE \E r \in Reservation : r \in Selected(l)
    <3>1. PICK R \in SUBSET Reservation : R = {r \in Reservation : r \in Selected(l)}
      OBVIOUS
    <3>2. l = AutomaticLane /\ \A r \in R : inbox[r] = "pending" /\ fence[r] = LatestUserSeq
      BY <2>1, <2>7, <3>1, SelectedAutomatic DEF IInv, Inbox, PendingIsCurrent
    <3>3. Task(a) # None
      BY <1>1, <2>1, <3>2, TaskIs DEF Settled
    <3>4. Past' /\ LatestUserSeq' = LatestUserSeq
      BY <1>1, <2>3, <2>5, PastKept DEF Calm
    <3>5. [r \in Reservation |-> inbox[r]]' = [r \in Reservation |-> IF r \in R THEN "promoted" ELSE inbox[r]]
      BY <2>4, <3>1 DEF Input
    <3>6. [r \in Reservation |-> Life(r)]' = [r \in Reservation |-> Life(r)]
      BY <1>1, <1>3 DEF Life
    <3>7. [b \in Runner |-> Task(b)]' = [b \in Runner |-> Task(b)]
      BY <2>3, RunnerAssumption, TaskIs, TaskBecomes
    <3>8. [b \in Runner |-> Task(b)][a] # None
      BY <1>1, <3>3
    <3>9. Lives!Promote(R)
      BY <1>1, <3>2, <3>4, <3>5, <3>6, <3>7, <3>8 DEF Lives!Promote, Lives!Current, Lives!Idle
    <3> QED BY <3>4, <3>9 DEF Lives!Next
  <2> QED BY <2>6, <2>7
<1> QED BY <1>2, <1>3 DEF Promote

LEMMA DispatchLives ==
  ASSUME IInv, Past, NEW a \in Agent, Dispatch(a)
  PROVE  Past' /\ Lives!Next
<1>1. job[a].at = "dispatch" /\ job[a] \in Jobs /\ UNCHANGED <<inputs, fence, issued, audited>>
  BY JobFacts DEF Dispatch, At
<1>2. Settled(job[a]) /\ Carries(job[a]) = job[a].mine
  BY <1>1, CarryFacts DEF Carries, Before
<1>3. CASE Set(a, [job[a] EXCEPT !.at = "turn"]) /\ UNCHANGED row
  <2>1. Settled([job[a] EXCEPT !.at = "turn"]) /\ Carries([job[a] EXCEPT !.at = "turn"]) = job[a].mine
    BY <1>1, <1>2 DEF Settled, Carries, Before, Jobs
  <2> QED BY <1>1, <1>2, <1>3, <2>1, QuietAgent
<1>4. CASE Set(a, Evaluating(job[a])) /\ UNCHANGED row
  <2>1. Settled(Evaluating(job[a])) /\ Carries(Evaluating(job[a])) = None
    BY <1>2 DEF Settled, Carries, Before, Evaluating, Off
  <2> QED BY <1>1, <1>4, <2>1, QuietAgent
<1>5. CASE Unspent(a)
  BY <1>1, <1>5, UnspentLives
<1> QED BY <1>3, <1>4, <1>5 DEF Dispatch

\* A turn ends: the frontier of a user's cycle is the last word as it is.
LEMMA EndTurnLives ==
  ASSUME IInv, Past, NEW a \in Agent, EndTurn(a)
  PROVE  Past' /\ Lives!Next
<1> DEFINE j == [job[a] EXCEPT !.spent = TRUE, !.cut = Frontier(a)]
<1>1. job[a].at = "turn" /\ job[a] \in Jobs /\ UNCHANGED <<inputs, row, fence, issued, audited>>
  BY JobFacts DEF EndTurn, At
<1>2. Settled(job[a]) /\ Carries(job[a]) = job[a].mine /\ LatestUserSeq \in Nat
  BY <1>1, CarryFacts DEF Carries, Before
<1>3. Frontier(a) <= LatestUserSeq
  BY <1>2 DEF Frontier, Settled
<1>4. j.cut = Frontier(a) /\ j.mine = job[a].mine /\ j.at = "turn" /\ j.source = job[a].source
  BY <1>1 DEF Jobs
<1>5. Settled([j EXCEPT !.at = "dispatch"]) /\ Carries([j EXCEPT !.at = "dispatch"]) = job[a].mine
  BY <1>1, <1>3 DEF Settled, Carries, Before, Jobs
<1>6. SteerLane(j.source) # AutomaticLane
  BY DEF SteerLane, AutomaticLane
<1>7. Settled([j EXCEPT !.at = "promote", !.lane = SteerLane(j.source)])
      /\ Carries([j EXCEPT !.at = "promote", !.lane = SteerLane(j.source)]) = job[a].mine
  BY <1>1, <1>3, <1>6 DEF Settled, Carries, Before, Jobs
<1>8. Settled(Evaluating(j)) /\ Carries(Evaluating(j)) = None
  BY <1>3, <1>4 DEF Settled, Carries, Before, Evaluating, Off
<1>9. \/ Set(a, [j EXCEPT !.at = "dispatch"]) \/ Set(a, [j EXCEPT !.at = "promote", !.lane = SteerLane(j.source)])
      \/ Set(a, Evaluating(j))
  BY DEF EndTurn
<1> HIDE DEF j
<1> QED BY <1>1, <1>2, <1>5, <1>7, <1>8, <1>9, QuietAgent

-----------------------------------------------------------------------------
(* Audits.                                                                  *)

LEMMA StartAuditLives ==
  ASSUME IInv, Past, NEW a \in Agent, StartAudit(a)
  PROVE  Past' /\ Lives!Next
<1> DEFINE j == [Off EXCEPT !.at = "audit", !.mine = row.res,
                   !.source = IF row.res = None THEN "recovery" ELSE "automatic",
                   !.cut = IF row.res = None THEN LatestPromotedUserSeq ELSE fence[row.res]]
<1>1. Set(a, j) /\ UNCHANGED <<inputs, fence, issued, audited>>
  BY DEF StartAudit
<1>2. Settled(j) /\ Carries(j) = None
  BY CarryFacts DEF Settled, Carries, Before, Off
<1> HIDE DEF j
<1>3. row'.res \in {row.res, None}
  BY CarryFacts, JobFacts, RecoveryClaimKept DEF StartAudit, Recoverable, Kept, Shrunk
<1> QED BY <1>1, <1>2, <1>3, QuietAgent

LEMMA JudgeLives ==
  ASSUME IInv, Past, NEW a \in Agent, FailUnaudited(a) \/ Answer(a)
  PROVE  Past' /\ Lives!Next
<1>1. PICK v : Judge(a, v)
  BY DEF FailUnaudited, Answer
<1>2. UNCHANGED <<inputs, row, fence, issued, audited>>
  BY DEF FailUnaudited, Answer
<1>3. Authorized(a) <= LatestUserSeq /\ LatestUserSeq \in Nat
  BY CarryFacts DEF Authorized, Settled
<1> DEFINE j == [Off EXCEPT !.at = "settle", !.mine = job[a].mine, !.lane = job[a].lane, !.verdict = v,
                   !.ahead = v # "complete" /\ Ahead(a), !.cut = IF v = "continue" THEN Authorized(a) ELSE 0,
                   !.revised = job[a].revised]
<1>4. j.at = "settle" /\ j.cut = IF v = "continue" THEN Authorized(a) ELSE 0
  BY DEF Off
<1>5. Set(a, j)
  BY <1>1 DEF Judge
<1> HIDE DEF j
<1>6. Settled(j) /\ Carries(j) = None
  BY <1>3, <1>4 DEF Settled, Carries, Before
<1> QED BY <1>2, <1>5, <1>6, QuietAgent

\* An agent leaves its audit.
LEMMA LeaveLives ==
  ASSUME IInv, Past, NEW a \in Agent, NEW w, Kept(row, w), LeaveAudit(a, w),
         UNCHANGED <<inputs, fence, issued, audited>>
  PROVE  Past' /\ Lives!Next
<1>1. Kept(row, row')
  BY LeaveFacts
<1>2. Settled(Off) /\ Carries(Off) = None
      /\ Settled([Loop EXCEPT !.lane = job[a].lane]) /\ Carries([Loop EXCEPT !.lane = job[a].lane]) = None
  BY CarryFacts DEF Settled, Carries, Loop, Off, Before
<1>3. PICK j : Set(a, j) /\ Settled(j) /\ Carries(j) = None
  BY <1>2 DEF LeaveAudit, Rest
<1> QED BY <1>1, <1>3, QuietAgent DEF Kept, Shrunk

\* The audit of a reservation begins when no runner works on it.
LEMMA StartLeaseLives ==
  ASSUME IInv, IInv', Past, NEW a \in Agent, StartLease(a)
  PROVE  Past' /\ Lives!Next
<1>1. job[a].at = "audit" /\ job[a] \in Jobs /\ UNCHANGED <<inputs, fence, issued>>
  BY JobFacts DEF StartLease, At
<1>2. CASE ~MayBegin(job[a].mine, Home(a))
  <2>1. LeaveAudit(a, row) /\ UNCHANGED audited
    BY <1>2 DEF StartLease
  <2> QED BY <1>1, <2>1, CarryFacts, RowKept, LeaveLives
<1>3. CASE MayBegin(job[a].mine, Home(a))
  <2> DEFINE j == [job[a] EXCEPT !.at = "auditing"]
  <2>1. row' = BeginAudit(a) /\ audited' = audited \cup ({row.res} \ {None}) /\ Set(a, j)
    BY <1>3 DEF StartLease
  <2>2. Settled(j) /\ Carries(j) = None /\ Carries(job[a]) = None
    BY <1>1, CarryFacts DEF Settled, Carries, Before, Jobs
  <2> HIDE DEF j
  <2>3. row'.res = row.res
    BY <2>1, CarryFacts DEF BeginAudit, Rows
  <2>4. CASE row.res = None \/ row.res \in audited
    <3>1. UNCHANGED audited
      BY <2>1, <2>4
    <3> QED BY <1>1, <2>1, <2>2, <2>3, <3>1, QuietAgent
  <2>5. CASE row.res # None /\ row.res \notin audited
    <3>1. PICK r \in Reservation : r = row.res /\ r \in issued
      BY <2>5, CarryFacts DEF IInv, Audits, Known
    <3>2. \A b \in Agent : Settled(job'[b]) /\ Carries(job'[b]) = Carries(job[b])
      BY <2>1, <2>2, OneMoves
    <3>3. Past' /\ LatestUserSeq' = LatestUserSeq
      BY <1>1, <3>2, PastKept DEF UsersStill, inputs
    <3>4. [q \in Reservation |-> Life(q)]' = [[q \in Reservation |-> Life(q)] EXCEPT ![r] = "judged"]
      BY <1>1, <2>1, <2>3, <2>5, <3>1, CarryFacts DEF Life
    <3>5. [q \in Reservation |-> Life(q)][r] = "open"
      BY <2>5, <3>1 DEF Life
    <3>6. \A b \in Agent : Carries(job'[b]) # r
      BY <2>1, <2>5, <3>1, CarryFacts DEF Carries, IInv, Audits, NotAudited
    <3>7. \A b \in Runner : [c \in Runner |-> Task(c)][b] # r
      BY <3>2, <3>6, RunnerAssumption, TaskIs
    <3>8. [b \in Runner |-> Task(b)]' = [b \in Runner |-> Task(b)]
      BY <3>2, RunnerAssumption, TaskIs, TaskBecomes
    <3>9. [q \in Reservation |-> inbox[q]]' = [q \in Reservation |-> inbox[q]]
      BY <1>1 DEF inputs
    <3>10. Lives!Judge(r)
      BY <1>1, <3>3, <3>4, <3>5, <3>7, <3>8, <3>9 DEF Lives!Judge
    <3> QED BY <3>3, <3>10 DEF Lives!Next
  <2> QED BY <2>4, <2>5
<1> QED BY <1>2, <1>3

LEMMA SettleLives ==
  ASSUME IInv, Past, NEW a \in Agent, Settle(a)
  PROVE  Past' /\ Lives!Next
<1>1. job[a].at = "settle" /\ job[a] \in Jobs /\ UNCHANGED <<inputs, fence, issued, audited>>
  BY JobFacts DEF Settle, At
<1>2. CASE LeaveAudit(a, row) \/ LeaveAudit(a, NoRow)
  BY <1>1, <1>2, CarryFacts, RowKept, LeaveLives
<1>3. CASE ~(LeaveAudit(a, row) \/ LeaveAudit(a, NoRow))
  <2>1. PICK s \in {"reconcile", "insert", "retry"} : Set(a, [job[a] EXCEPT !.at = s]) /\ row' = row
    BY <1>3 DEF Settle
  <2>2. Settled([job[a] EXCEPT !.at = s]) /\ Carries([job[a] EXCEPT !.at = s]) = None
    BY <1>1, CarryFacts DEF Settled, Carries, Before, Jobs
  <2> QED BY <1>1, <2>1, <2>2, QuietAgent
<1> QED BY <1>2, <1>3

LEMMA RetryLives ==
  ASSUME IInv, Past, NEW a \in Agent, Retry(a)
  PROVE  Past' /\ Lives!Next
<1>1. UNCHANGED <<inputs, fence, issued, audited>>
  BY DEF Retry
<1>2. LeaveAudit(a, row) \/ LeaveAudit(a, Failed(row)) \/ (row = NoRow /\ LeaveAudit(a, Failed(NoRow)))
  BY DEF Retry
<1> QED BY <1>1, <1>2, CarryFacts, RowKept, FailedKept, LeaveLives

LEMMA ReconcileLives ==
  ASSUME IInv, Past, NEW a \in Agent, Reconcile(a)
  PROVE  Past' /\ Lives!Next
<1>1. job[a].at = "reconcile" /\ job[a] \in Jobs /\ UNCHANGED <<inputs, fence, issued, audited>>
  BY JobFacts DEF Reconcile, At
<1>2. CASE job[a].revised
  <2>1. LeaveAudit(a, DeferAudit(row, a))
    BY <1>2 DEF Reconcile
  <2> QED BY <1>1, <2>1, CarryFacts, DeferKept, LeaveLives
<1>3. CASE ~job[a].revised
  <2>1. ASSUME NEW j \in Jobs, NEW x
        PROVE  /\ [j EXCEPT !.at = "conclude"].at = "conclude" /\ [j EXCEPT !.at = "conclude"].cut = j.cut
               /\ [j EXCEPT !.revised = x].at = j.at /\ [j EXCEPT !.revised = x].mine = j.mine
               /\ [j EXCEPT !.revised = x].cut = j.cut /\ [j EXCEPT !.revised = x].lane = j.lane
    BY DEF Jobs
  <2>2. row' = row
    BY <1>3 DEF Reconcile
  <2>3. ASSUME NEW b \in Agent PROVE Calm(b)
    <3>1. \/ job'[b] = [job[b] EXCEPT !.at = "conclude"]
          \/ \E x : job'[b] = [job[b] EXCEPT !.revised = x]
      BY <1>3, <2>3 DEF Reconcile
    <3>2. job[b] \in Jobs /\ Settled(job[b])
      BY CarryFacts
    <3>3. CASE job'[b] = [job[b] EXCEPT !.at = "conclude"]
      BY <2>1, <3>2, <3>3 DEF Calm, Settled, Carries, Before
    <3>4. CASE \E x : job'[b] = [job[b] EXCEPT !.revised = x]
      <4>1. PICK x : job'[b] = [job[b] EXCEPT !.revised = x]
        BY <3>4
      <4>2. /\ job'[b].at = job[b].at /\ job'[b].mine = job[b].mine
            /\ job'[b].cut = job[b].cut /\ job'[b].lane = job[b].lane
        BY <2>1, <3>2, <4>1
      <4> QED BY <3>2, <4>2 DEF Calm, Settled, Carries
    <3> QED BY <3>1, <3>3, <3>4
  <2>4. UsersStill /\ \A r \in Reservation : Withdrawn(r)
    BY <1>1 DEF UsersStill, Withdrawn, inputs
  <2> QED BY <1>1, <2>2, <2>3, <2>4, QuietStep DEF Quiet
<1> QED BY <1>2, <1>3

\* A verdict to go on makes one reservation, for a word that was spoken, in place of any
\* other.
LEMMA ConcludeLives ==
  ASSUME IInv, Past, NEW a \in Agent, Conclude(a)
  PROVE  Past' /\ Lives!Next
<1>1. job[a].at = "conclude" /\ job[a] \in Jobs /\ UNCHANGED <<inputs, audited>>
  BY JobFacts DEF Conclude, At
<1>2. CASE LeaveAudit(a, NoRow) /\ UNCHANGED <<fence, issued>>
  BY <1>1, <1>2, CarryFacts, RowKept, LeaveLives
<1>3. ASSUME NEW r \in Reservation \ issued, LeaveAudit(a, [NoRow EXCEPT !.res = r]),
             fence' = [fence EXCEPT ![r] = job[a].cut], issued' = issued \cup {r}
      PROVE  Past' /\ Lives!Next
  <2> DEFINE w == [NoRow EXCEPT !.res = r]
  <2>1. row'.res = r
    <3>1. w.res = r /\ w.request = "none"
      BY DEF NoRow
    <3> HIDE DEF w
    <3>2. row' = w
      BY <1>3, <3>1 DEF LeaveAudit, ReleaseAuditRecovery, w
    <3> QED BY <3>1, <3>2
  <2>2. Settled([Loop EXCEPT !.lane = job[a].lane]) /\ Carries([Loop EXCEPT !.lane = job[a].lane]) = None
    BY CarryFacts DEF Settled, Carries, Loop, Off, Before
  <2>3. PICK j : Set(a, j) /\ Settled(j) /\ Carries(j) = None
    BY <1>3, <2>2, CarryFacts DEF LeaveAudit, Rest
  <2>4. Carries(job[a]) = None /\ job[a].cut <= LatestUserSeq /\ job[a].cut \in Nat /\ LatestUserSeq \in Nat
    BY <1>1, CarryFacts DEF Carries, Before, Settled, Jobs
  <2>5. \A b \in Agent : Settled(job'[b]) /\ Carries(job'[b]) = Carries(job[b])
    BY <2>3, <2>4, OneMoves
  <2>6. fence'[r] = job[a].cut /\ \A q \in Reservation : q # r => fence'[q] = fence[q]
    BY <1>3, JobFacts
  <2>7. Past' /\ LatestUserSeq' = LatestUserSeq
    <3>1. \A q \in Reservation : fence'[q] = fence[q] \/ fence'[q] <= LatestUserSeq
      BY <2>4, <2>6
    <3>2. UsersStill
      BY <1>1 DEF UsersStill, inputs
    <3> QED BY <2>5, <3>1, <3>2, PastKept
  <2>8. [q \in Reservation |-> Life(q)]' =
          [[q \in Reservation |-> IF q \in Reservation /\ Life(q) \in {"open", "judged"} THEN "gone" ELSE Life(q)]
             EXCEPT ![r] = "open"]
    <3>1. r \notin audited'
      BY <1>1 DEF IInv, Audits, Known
    <3>2. ASSUME NEW q \in Reservation
          PROVE  Life(q)' = IF q = r THEN "open"
                            ELSE IF Life(q) \in {"open", "judged"} THEN "gone" ELSE Life(q)
      BY <1>1, <1>3, <2>1, <3>1 DEF Life
    <3> QED BY <3>2
  <2>9. [q \in Reservation |-> Life(q)][r] = "unmade"
    BY DEF Life
  <2>10. [b \in Runner |-> Task(b)]' = [b \in Runner |-> Task(b)]
    BY <2>5, RunnerAssumption, TaskIs, TaskBecomes
  <2>11. [q \in Reservation |-> inbox[q]]' = [q \in Reservation |-> inbox[q]]
    BY <1>1 DEF inputs
  <2>12. \E n \in 0..LatestUserSeq : fence' = [fence EXCEPT ![r] = n]
    <3>1. job[a].cut \in 0..LatestUserSeq
      BY <2>4
    <3> QED BY <1>3, <3>1
  <2>13. Lives!Reserve(r)
    BY <2>7, <2>8, <2>9, <2>10, <2>11, <2>12 DEF Lives!Reserve, Lives!Closed
  <2> QED BY <2>7, <2>13 DEF Lives!Next
<1> QED BY <1>2, <1>3 DEF Conclude

LEMMA InterruptLives ==
  ASSUME IInv, Past, NEW a \in Agent, Interrupt(a)
  PROVE  Past' /\ Lives!Next
<1>1. Set(a, Off) /\ row' = Finalize(a, row) /\ UNCHANGED <<inputs, fence, issued, audited>>
  BY DEF Interrupt
<1>2. row \in Rows /\ DeferAudit(row, a) \in Rows /\ DeferAudit(row, a).res \in {row.res, None}
  BY JobFacts, DeferKept DEF Kept, Shrunk
<1>3. Release(row, job[a].mine, Home(a)) \in Rows /\ Release(row, job[a].mine, Home(a)).res \in {row.res, None}
  BY <1>2, ReleaseShrinks DEF Shrunk
<1>4. \A w \in Rows : RequeueClaim(w, Home(a)).res \in {w.res, None}
                      /\ ReleaseAuditRecovery(w, job[a].mine, Home(a)).res \in {w.res, None}
  BY RequeueKept, RecoveryKept DEF Kept, Shrunk
<1>5. row'.res \in {row.res, None}
  BY <1>1, <1>2, <1>3, <1>4 DEF Finalize
<1> QED BY <1>1, <1>5, CarryFacts, QuietAgent

-----------------------------------------------------------------------------
(* The refinement.                                                          *)

LEMMA InitPast == Init => Past
<1> SUFFICES ASSUME Init PROVE Past
  OBVIOUS
<1>1. IInv
  BY InitIInv
<1>2. LatestUserSeq \in Nat
  BY <1>1, LastWord DEF IInv, Inbox
<1>3. Counted
  <2>1. {j \in UserInput : seq[j] > 0} = {}
    BY DEF Init, InitInputs, Input
  <2>2. Cardinality({j \in UserInput : seq[j] > 0}) = 0
    BY <2>1, FS_EmptySet
  <2> QED BY <2>2 DEF Counted, Init, InitInputs, Input
<1> QED BY <1>2, <1>3 DEF Past, FencesArePast, Settled, Init, InitAutomation, Off

LEMMA NextLives ==
  ASSUME IInv, IInv', Past, [Next]_everything
  PROVE  Past' /\ [Lives!Next]_Lives!continuation
<1>1. CASE Human
  BY <1>1, HumanLives
<1>2. ASSUME NEW a \in Agent, Run(a) PROVE Past' /\ Lives!Next
  BY <1>2, StartDrainLives, TakeInputLives, TakeContinuationLives, MaterializeLives, PromoteLives,
     DispatchLives, EndTurnLives DEF Run
<1>3. ASSUME NEW a \in Agent, Audit(a) PROVE Past' /\ Lives!Next
  BY <1>3, StartAuditLives, JudgeLives, StartLeaseLives, SettleLives, RetryLives, ReconcileLives,
     ConcludeLives DEF Audit
<1>4. ASSUME NEW a \in Agent, Interrupt(a) PROVE Past' /\ Lives!Next
  BY <1>4, InterruptLives
<1>5. ASSUME NEW p \in Process, Boot(p) \/ Crash(p) PROVE Past' /\ Lives!Next
  BY <1>5, ProcessLives
<1>6. CASE UNCHANGED everything
  BY <1>6, StillAgents DEF everything, humans, UsersStill, Withdrawn, inputs
<1> QED BY <1>1, <1>2, <1>3, <1>4, <1>5, <1>6 DEF Next

\* Every claim, lease, audit, sweep and crash is a step in the life of a reservation as
\* ContinuationLife has it, or none of it (automation.ts, input.ts, runner/llm.ts).
THEOREM ContinuationRefinement == Spec => ContinuationSpec
<1>1. Init => Lives!Init
  <2> SUFFICES ASSUME Init PROVE Lives!Init
    OBVIOUS
  <2>1. LatestUserSeq = 0
    <3>1. TypeOKInputs /\ SeqBounded
      BY InitIInv DEF IInv, Inbox
    <3>2. \A i \in UserInput : seq[i] <= 0
      BY DEF Init, InitInputs, Input
    <3> QED BY <3>1, <3>2, LastWord
  <2>2. \A a \in Runner : Task(a) = None
    BY RunnerAssumption DEF Init, Task, Off
  <2>3. \A r \in Reservation : Life(r) = "unmade" /\ inbox[r] = "absent"
    BY DEF Init, InitAutomation, InitInputs, Life, Input
  <2> QED BY <2>1, <2>2, <2>3 DEF Lives!Init, Init, InitAutomation
<1>2. IInv /\ IInv' /\ Past /\ [Next]_everything => Past' /\ [Lives!Next]_Lives!continuation
  BY NextLives
<1>3. Init => Past
  BY InitPast
<1> QED BY <1>1, <1>2, <1>3, Invariance, PTL DEF Spec, ContinuationSpec, Lives!Spec

-----------------------------------------------------------------------------
(* What that says of the runners.                                           *)

\* At most one runner works on automatic work, whatever it is.
OneWorker == \A a, b \in Runner : Task(a) # None /\ Task(b) # None => a = b

\* A runner takes up a reservation that is open, made for the user's last word, and when
\* no runner works on any; what was judged, given up, promoted or revoked stays so.
WorkIsFenced ==
  /\ \A a \in Runner, r \in Reservation : Task(a)' = r /\ Task(a) # r =>
       /\ Life(r) = "open" /\ fence[r] = LatestUserSeq
       /\ \A b \in Runner : Task(b) = None
  /\ \A r \in Reservation :
       /\ Life(r) = "judged" => Life(r)' \in {"judged", "gone"}
       /\ Life(r) = "gone" => Life(r)' = "gone"
       /\ inbox[r] \in {"promoted", "revoked"} => inbox'[r] = inbox[r]

\* What a step in the life of reservations does to who works on what, and to them.
LEMMA LifeSteps ==
  ASSUME [Lives!Next]_Lives!continuation, None \notin Reservation
  PROVE  /\ \/ \A a \in Runner : Task(a)' \in {Task(a), None}
            \/ /\ \A b \in Runner : Task(b) = None
               /\ \E a \in Runner, r \in Reservation :
                    /\ Life(r) = "open" /\ fence[r] = LatestUserSeq /\ Task(a)' = r
                    /\ \A b \in Runner : b # a => Task(b)' = None
         /\ \A r \in Reservation :
              /\ Life(r) = "judged" => Life(r)' \in {"judged", "gone"}
              /\ Life(r) = "gone" => Life(r)' = "gone"
              /\ inbox[r] \in {"promoted", "revoked"} => inbox'[r] = inbox[r]
<1> DEFINE task == [a \in Runner |-> Task(a)]
           life == [r \in Reservation |-> Life(r)]
           input == [r \in Reservation |-> inbox[r]]
           Stays == task' = task
           Lasts == \A r \in Reservation : life'[r] = life[r] \/ life'[r] = "gone" \/ life[r] = "open" \/ life[r] = "unmade"
           Sticks == \A r \in Reservation : input[r] \in {"promoted", "revoked"} => input'[r] = input[r]
<1>1. /\ \A a \in Runner : task[a] = Task(a) /\ task'[a] = Task(a)'
      /\ \A r \in Reservation : life[r] = Life(r) /\ life'[r] = Life(r)' /\ input[r] = inbox[r] /\ input'[r] = inbox'[r]
  OBVIOUS
<1>2. CASE Lives!Speak \/ UNCHANGED Lives!continuation
  <2>1. task' = task /\ life' = life /\ Sticks
    BY <1>2 DEF Lives!Speak, Lives!Revoked, Lives!continuation
  <2> QED BY <1>1, <2>1
<1>3. CASE Lives!Withdraw
  <2>1. /\ \A a \in Runner : task'[a] \in {task[a], None}
        /\ \A r \in Reservation : life'[r] \in {life[r], "gone"}
        /\ Sticks
    BY <1>3 DEF Lives!Withdraw, Lives!Closed, Lives!Revoked
  <2> QED BY <1>1, <2>1
<1>4. ASSUME NEW r \in Reservation, Lives!Reserve(r) \/ Lives!Judge(r)
      PROVE  /\ task' = task /\ input' = input
             /\ \A q \in Reservation : life'[q] \in {life[q], "gone"} \/ life[q] \in {"unmade", "open"}
  BY <1>4 DEF Lives!Reserve, Lives!Judge, Lives!Closed
<1>5. ASSUME NEW a \in Runner, Lives!Admit(a)
      PROVE  task' = task /\ life' = life /\ Sticks
  BY <1>5 DEF Lives!Admit
<1>6. ASSUME NEW R \in SUBSET Reservation, Lives!Promote(R)
      PROVE  task' = task /\ life' = life /\ Sticks
  BY <1>6 DEF Lives!Promote
<1>7. ASSUME NEW a \in Runner, NEW r \in Reservation, Lives!Take(a, r)
      PROVE  /\ \A b \in Runner : task[b] = None
             /\ life[r] = "open" /\ fence[r] = LatestUserSeq /\ task'[a] = r
             /\ \A b \in Runner : b # a => task'[b] = None
             /\ life' = life /\ input' = input
  BY <1>7 DEF Lives!Take, Lives!Current, Lives!Idle
<1> HIDE DEF task, life, input
<1>8. CASE \E r \in Reservation : Lives!Reserve(r) \/ Lives!Judge(r)
  BY <1>1, <1>4, <1>8
<1>9. CASE \E a \in Runner : Lives!Admit(a)
  BY <1>1, <1>5, <1>9
<1>10. CASE \E R \in SUBSET Reservation : Lives!Promote(R)
  BY <1>1, <1>6, <1>10
<1>11. CASE \E a \in Runner, r \in Reservation : Lives!Take(a, r)
  BY <1>1, <1>7, <1>11
<1> QED BY <1>2, <1>3, <1>8, <1>9, <1>10, <1>11 DEF Lives!Next

\* In whatever process they are and whatever stops them, two runners are never on
\* automatic work at once: a cycle is executed by one (claim).
THEOREM OneRunnerWorks == Spec => []OneWorker
<1>1. Init => OneWorker
  BY RunnerAssumption DEF Init, OneWorker, Task, Off
<1>2. OneWorker /\ [Lives!Next]_Lives!continuation => OneWorker'
  BY LifeSteps, AgentAssumption DEF OneWorker
<1> QED BY <1>1, <1>2, ContinuationRefinement, PTL DEF Spec, ContinuationSpec, Lives!Spec

\* Automatic work begins only for the user's last word, and ends for good.
THEOREM WorkBeginsFenced == Spec => [][WorkIsFenced]_everything
<1>1. [Lives!Next]_Lives!continuation => WorkIsFenced
  BY LifeSteps, AgentAssumption DEF WorkIsFenced
<1> QED BY <1>1, ContinuationRefinement, PTL DEF ContinuationSpec, Lives!Spec
=============================================================================
