-------------------------- MODULE SessionDrainProofs --------------------------
(***************************************************************************)
(* For any processes, prompts, operators and entries: the owner row names  *)
(* exactly the drain that runs the Session, a pause that has returned      *)
(* leaves its process quiet, no input is stranded as long as no operator   *)
(* intervenes, and the composition implements RunCoordinator.              *)
(***************************************************************************)
EXTENDS SessionDrain, TLAPS

Place == {"free", "starting", "draining", "unwinding", "cancelled"}
Stage == {"none", "admit", "gate", "turn", "release", "over"}

\* The types the argument needs.
Types ==
  /\ place \in [Entry -> Place]
  /\ stage \in [Entry -> Stage]
  /\ owner \in Entry \cup {None}

\* A drain has a stage only while its fiber runs it.
Begun == \A e \in Entry : place[e] \in {"free", "starting", "cancelled"} => stage[e] = "none"

IInv == Types /\ Begun /\ OwnerRuns

\* How a step of a coordinator that does not end a drain moves entry g.
Moves(g) ==
  \/ place'[g] = place[g]
  \/ place[g] = "free" /\ place'[g] = "starting"
  \/ place[g] = "starting" /\ place'[g] = "cancelled"
  \/ place'[g] = "unwinding"

\* Nothing is owned or begun at first.
LEMMA InitIInv == Init => IInv
BY NoneAssumption DEF Init, C!Init, IInv, Types, Begun, OwnerRuns, Place, Stage

\* A wake starts at most a free entry.
LEMMA WakeMoves ==
  ASSUME Types, NEW p \in Proc, C!Wake(p)
  PROVE  place' \in [Entry -> Place] /\ \A g \in Entry : Moves(g)
<1>1. CASE active[p] = None
  <2>1. PICK e \in Entry : C!StartEntry(p, e, FALSE)
    BY <1>1 DEF C!Wake, C!RequestDrain
  <2> QED BY <2>1 DEF C!StartEntry, C!Live, Types, Place, Moves
<1>2. CASE active[p] # None
  BY <1>2 DEF C!Wake, C!RequestDrain, Types, Moves
<1> QED BY <1>1, <1>2

\* An interrupt cancels what has not begun and unwinds the rest.
LEMMA InterruptMoves ==
  ASSUME Types, NEW c \in Operator, NEW p \in Proc, C!Interrupt(c, p)
  PROVE  place' \in [Entry -> Place] /\ \A g \in Entry : Moves(g)
BY DEF C!Interrupt, C!Stop, Types, Place, Moves

\* The end of an execution frees or restarts its entry, and may start a free one.
LEMMA SettleMoves ==
  ASSUME Types, NEW e \in Entry, NEW x, C!Settle(e, x)
  PROVE  /\ place' \in [Entry -> Place]
         /\ place'[e] \in {"free", "starting"}
         /\ \A g \in Entry : g # e => Moves(g)
<1>1. CASE C!Restart(e)
  BY <1>1 DEF C!Restart, Types, Place, Moves
<1>2. CASE C!Succeed(e, x)
  <2>1. PICK s \in Entry :
          ~C!Live(s) /\ place' = [place EXCEPT ![s] = "starting", ![e] = "free"]
    BY <1>2 DEF C!Succeed
  <2> QED BY <2>1 DEF C!Live, Types, Place, Moves
<1>3. CASE C!Leave(e, x)
  BY <1>3 DEF C!Leave, Types, Place, Moves
<1> QED BY <1>1, <1>2, <1>3 DEF C!Settle

\* A step of the callers leaves the drains and the owner row alone.
LEMMA CallersKeep ==
  ASSUME IInv, UNCHANGED <<drains, owner>>,
         place' \in [Entry -> Place], \A g \in Entry : Moves(g)
  PROVE  IInv'
<1>1. stage' = stage /\ owner' = owner
  BY DEF drains
<1>2. Types' /\ OwnerRuns'
  BY <1>1 DEF IInv, Types, OwnerRuns
<1>3. Begun'
  BY <1>1 DEF IInv, Begun, Moves
<1> QED BY <1>2, <1>3 DEF IInv

\* A drain that takes a step of its own, within its fiber.
LEMMA OwnStep ==
  ASSUME IInv, NEW e \in Entry, NEW s \in Stage, GoTo(e, s), place' = place,
         place[e] \in {"draining", "unwinding"},
         owner' \in Entry \cup {None},
         owner' = e <=> s \in {"gate", "turn", "release"},
         \A g \in Entry : g # e => (owner' = g <=> owner = g)
  PROVE  IInv'
<1>1. Types'
  BY DEF IInv, Types, GoTo
<1>2. Begun'
  BY DEF IInv, Types, Begun, GoTo
<1>3. OwnerRuns'
  BY DEF IInv, Types, OwnerRuns, GoTo
<1> QED BY <1>1, <1>2, <1>3 DEF IInv

\* A drain begins without the row.
LEMMA BeginKeeps == ASSUME IInv, NEW e \in Entry, BeginDrain(e) PROVE IInv'
<1>1. /\ place[e] = "starting" /\ place' = [place EXCEPT ![e] = "draining"]
      /\ stage' = [stage EXCEPT ![e] = "admit"] /\ owner' = owner
  BY DEF BeginDrain, C!Begin, GoTo, database
<1>2. owner # e
  BY <1>1 DEF IInv, Begun, OwnerRuns
<1>3. Types'
  BY <1>1 DEF IInv, Types, Place, Stage
<1>4. Begun' /\ OwnerRuns'
  BY <1>1, <1>2 DEF IInv, Types, Begun, OwnerRuns
<1> QED BY <1>3, <1>4 DEF IInv

\* A drain ends after it has given up the row.
LEMMA EndKeeps == ASSUME IInv, NEW e \in Entry, EndDrain(e) PROVE IInv'
<1>1. PICK x : C!Settle(e, x)
  BY DEF EndDrain
<1>2. stage[e] \in {"over", "none"} /\ stage' = [stage EXCEPT ![e] = "none"] /\ owner' = owner
  BY DEF EndDrain, GoTo, database, IInv, Begun
<1>3. /\ place' \in [Entry -> Place]
      /\ place'[e] \in {"free", "starting"}
      /\ \A g \in Entry : g # e => Moves(g)
  BY <1>1, SettleMoves DEF IInv
<1>4. owner # e
  BY <1>2 DEF IInv, OwnerRuns
<1>5. Types'
  BY <1>2, <1>3 DEF IInv, Types, Stage
<1>6. Begun'
  BY <1>2, <1>3 DEF IInv, Types, Begun, Moves
<1>7. OwnerRuns'
  BY <1>2, <1>4 DEF IInv, Types, OwnerRuns
<1> QED BY <1>5, <1>6, <1>7 DEF IInv

\* A drain takes the row only when nobody has it, and gives up its own only.
LEMMA DrainKeeps == ASSUME IInv, NEW e \in Entry, Drain(e) PROVE IInv'
<1> USE NoneAssumption
<1>1. CASE BeginDrain(e)
  BY <1>1, BeginKeeps
<1>2. CASE Acquire(e)
  <2>1. place' = place /\ place[e] = "draining"
    BY <1>2 DEF Acquire, coordinators
  <2>2. owner # e
    BY <1>2 DEF Acquire, IInv, OwnerRuns
  <2>3. CASE owner = None /\ owner' = e /\ GoTo(e, "gate")
    BY <2>1, <2>3, OwnStep DEF Stage
  <2>4. CASE GoTo(e, "over") /\ owner' = owner
    BY <2>1, <2>2, <2>4, OwnStep DEF Stage, IInv, Types
  <2> QED BY <1>2, <2>3, <2>4 DEF Acquire
<1>3. CASE Gate(e)
  <2>1. place' = place /\ place[e] = "draining" /\ owner' = owner
    BY <1>3 DEF Gate, coordinators, database
  <2>2. owner = e /\ owner \in Entry \cup {None}
    BY <1>3 DEF Gate, IInv, Types, OwnerRuns
  <2>3. PICK s \in {"turn", "release"} : GoTo(e, s)
    BY <1>3 DEF Gate
  <2> QED BY <2>1, <2>2, <2>3, OwnStep DEF Stage
<1>4. CASE Promote(e)
  <2>1. UNCHANGED <<drains, owner, place>>
    BY <1>4 DEF Promote, coordinators
  <2> QED BY <2>1, CallersKeep DEF IInv, Types, Moves
<1>5. CASE RunnerEnds(e)
  <2>1. place' = place /\ place[e] = "draining" /\ owner' = owner /\ GoTo(e, "release")
    BY <1>5 DEF RunnerEnds, coordinators, database
  <2>2. owner = e /\ owner \in Entry \cup {None}
    BY <1>5 DEF RunnerEnds, IInv, Types, OwnerRuns
  <2> QED BY <2>1, <2>2, OwnStep DEF Stage
<1>6. CASE ReleaseIfDrained(e)
  <2>1. place' = place /\ place[e] = "draining"
    BY <1>6 DEF ReleaseIfDrained, coordinators
  <2>2. owner = e
    BY <1>6 DEF ReleaseIfDrained, IInv, OwnerRuns
  <2>3. CASE GoTo(e, "gate") /\ owner' = owner
    BY <2>1, <2>2, <2>3, OwnStep DEF Stage
  <2>4. CASE owner' = None /\ GoTo(e, "over")
    BY <2>1, <2>2, <2>4, OwnStep DEF Stage
  <2> QED BY <1>6, <2>3, <2>4 DEF ReleaseIfDrained, ReleaseOrContinue
<1>7. CASE Unwind(e)
  <2>1. place' = place /\ place[e] = "unwinding" /\ GoTo(e, "over")
    BY <1>7 DEF Unwind, coordinators
  <2>2. owner' = IF owner = e THEN None ELSE owner
    BY <1>7 DEF Unwind, GiveUpOwner
  <2> QED BY <2>1, <2>2, OwnStep DEF Stage, IInv, Types
<1>8. CASE EndDrain(e)
  BY <1>8, EndKeeps
<1> QED BY <1>1, <1>2, <1>3, <1>4, <1>5, <1>6, <1>7, <1>8 DEF Drain

\* Prompts and operators start and interrupt executions and nothing else.
LEMMA CallKeeps ==
  ASSUME IInv, (\E i \in Prompt : Submit(i)) \/ (\E c \in Operator : Operate(c))
  PROVE  IInv'
<1>1. /\ UNCHANGED <<drains, owner>>
      /\ \/ place' = place
         \/ \E p \in Proc : C!Wake(p)
         \/ \E c \in Operator, p \in Proc : C!Interrupt(c, p)
  BY DEF Submit, ReadSession, AdmitInput, WakeDrain, Operate, PauseCheck, PauseCommit, StopDrain,
         PauseInterrupt, PauseReturns, ResumeCheck, ResumeCommit, ResumeWake, ResumeWakes,
         database, coordinators
<1>2. place' \in [Entry -> Place] /\ \A g \in Entry : Moves(g)
  <2>1. CASE place' = place
    BY <2>1 DEF IInv, Types, Moves
  <2>2. CASE \E p \in Proc : C!Wake(p)
    BY <2>2, WakeMoves DEF IInv
  <2>3. CASE \E c \in Operator, p \in Proc : C!Interrupt(c, p)
    BY <2>3, InterruptMoves DEF IInv
  <2> QED BY <1>1, <2>1, <2>2, <2>3
<1> QED BY <1>1, <1>2, CallersKeep

\* The inductive invariant.
LEMMA IInvAlways == Spec => []IInv
<1>1. Init => IInv
  BY InitIInv
<1>2. IInv /\ [Next]_session => IInv'
  <2> SUFFICES ASSUME IInv, [Next]_session PROVE IInv'
    OBVIOUS
  <2>1. CASE UNCHANGED session
    <3>1. UNCHANGED <<drains, owner, place>>
      BY <2>1 DEF session, coordinators, database
    <3> QED BY <3>1, CallersKeep DEF IInv, Types, Moves
  <2> QED BY <2>1, CallKeeps, DrainKeeps DEF Next
<1> QED BY <1>1, <1>2, PTL DEF Spec

\* The owner row names exactly the drain that runs the Session, however
\* prompts, pauses and resumes of any number of processes race.
THEOREM OneDrainRuns == Spec => []OwnerRuns
BY IInvAlways, PTL DEF IInv

-----------------------------------------------------------------------------
(* The composition: each process's coordinator is a RunCoordinator.  *)

\* What prompts and operators do to the coordinators is a wake, an interrupt or
\* nothing.
LEMMA CallIsCoordinated ==
  ASSUME (\E i \in Prompt : Submit(i)) \/ (\E c \in Operator : Operate(c))
  PROVE  C!Next \/ UNCHANGED coordinators
<1>1. \/ UNCHANGED coordinators
      \/ \E p \in Proc : C!Wake(p)
      \/ \E c \in Operator, p \in Proc : C!Interrupt(c, p)
  BY DEF Submit, ReadSession, AdmitInput, WakeDrain, Operate, PauseCheck, PauseCommit, StopDrain,
         PauseInterrupt, PauseReturns, ResumeCheck, ResumeCommit, ResumeWake, ResumeWakes
<1> QED BY <1>1 DEF C!Next

\* A drain begins and ends as its coordinator has it; what it does in between
\* the coordinator does not see.
LEMMA DrainIsCoordinated ==
  ASSUME NEW e \in Entry, Drain(e)
  PROVE  C!Next \/ UNCHANGED coordinators
<1>1. CASE BeginDrain(e)
  BY <1>1 DEF BeginDrain, C!Next
<1>2. CASE EndDrain(e)
  <2>1. /\ \/ place[e] = "draining" /\ C!Settle(e, IF failed[e] THEN "fail" ELSE "ok")
           \/ place[e] = "unwinding" /\ C!Settle(e, "interrupted")
           \/ place[e] = "cancelled" /\ C!Settle(e, "interrupted")
        /\ woken' = woken
    BY <1>2 DEF EndDrain
  <2>2. CASE place[e] = "draining" /\ C!Settle(e, IF failed[e] THEN "fail" ELSE "ok")
    <3>1. PICK exit \in {"ok", "fail"} : C!Settle(e, exit)
      BY <2>2
    <3> QED BY <2>1, <2>2, <3>1 DEF C!EndDrain, C!Next
  <2>3. CASE place[e] = "unwinding" /\ C!Settle(e, "interrupted")
    BY <2>1, <2>3 DEF C!EndDrain, C!Exit, C!Next
  <2>4. CASE place[e] = "cancelled" /\ C!Settle(e, "interrupted")
    BY <2>1, <2>4 DEF C!EndCancelled, C!Next
  <2> QED BY <2>1, <2>2, <2>3, <2>4
<1>3. CASE Acquire(e) \/ Gate(e) \/ Promote(e) \/ RunnerEnds(e) \/ ReleaseIfDrained(e) \/ Unwind(e)
  BY <1>3 DEF Acquire, Gate, Promote, RunnerEnds, ReleaseIfDrained, Unwind
<1> QED BY <1>1, <1>2, <1>3 DEF Drain

\* What the coordinators do with real drains, prompts and operators is what
\* RunCoordinator allows, so all that is proved of it holds of them.
THEOREM DrainsAreCoordinated == Spec => CoordinatorSpec
<1>1. Init => C!Init
  BY DEF Init
<1>2. [Next]_session => [C!Next]_<<active, <<keyOf, place, force, pendingWake, stopping>>,
                                   <<doing, on, wants, result>>, woken>>
  BY CallIsCoordinated, DrainIsCoordinated DEF Next, session, coordinators
<1> QED BY <1>1, <1>2, PTL
        DEF Spec, CoordinatorSpec, C!Spec, C!coordinator, C!entry, C!caller

CP == INSTANCE RunCoordinatorProofs WITH Key <- Proc, Caller <- Operator

\* The two instances of the coordinator are the same.
LEMMA SameCoordinator ==
  /\ C!Init <=> CP!Init
  /\ [C!Next]_C!coordinator <=> [CP!Next]_CP!coordinator
<1>1. C!Init <=> CP!Init
  BY DEF C!Init, CP!Init
<1>2. UNCHANGED C!coordinator <=> UNCHANGED CP!coordinator
  BY DEF C!coordinator, CP!coordinator, C!entry, C!caller, CP!entry, CP!caller
<1>3. \A c \in Operator, k \in Proc : (C!Run(c, k) \/ C!Interrupt(c, k)) <=> (CP!Run(c, k) \/ CP!Interrupt(c, k))
  BY DEF C!Run, CP!Run, C!Join, CP!Join, C!StartEntry, CP!StartEntry, C!Wait, CP!Wait, C!Live, CP!Live,
     C!entry, CP!entry, C!caller, CP!caller, C!Interrupt, CP!Interrupt, C!Stop, CP!Stop
<1>4. \A c \in Operator : (C!Retry(c) \/ C!GiveUp(c)) <=> (CP!Retry(c) \/ CP!GiveUp(c))
  BY DEF C!Retry, CP!Retry, C!GiveUp, CP!GiveUp, C!Join, CP!Join, C!StartEntry, CP!StartEntry, C!Wait, CP!Wait, C!Live, CP!Live,
     C!entry, CP!entry, C!caller, CP!caller
<1>5. \A k \in Proc : C!Wake(k) <=> CP!Wake(k)
  BY DEF C!Wake, CP!Wake, C!RequestDrain, CP!RequestDrain, C!StartEntry, CP!StartEntry, C!Live, CP!Live, C!caller, CP!caller
<1>6. \A e \in Entry : C!Begin(e) <=> CP!Begin(e)
  BY DEF C!Begin, CP!Begin, C!caller, CP!caller
<1>7. \A e \in Entry : \A x : C!Settle(e, x) <=> CP!Settle(e, x)
  BY DEF C!Settle, CP!Settle, C!Restart, CP!Restart, C!Succeed, CP!Succeed, C!Leave, CP!Leave,
     C!Resolved, CP!Resolved, C!Live, CP!Live, C!caller, CP!caller
<1>8. \A e \in Entry : (C!EndDrain(e) \/ C!EndCancelled(e)) <=> (CP!EndDrain(e) \/ CP!EndCancelled(e))
  BY <1>7 DEF C!EndDrain, CP!EndDrain, C!EndCancelled, CP!EndCancelled, C!Exit, CP!Exit
<1>9. C!Next <=> CP!Next
  BY <1>3, <1>4, <1>5, <1>6, <1>8 DEF C!Next, CP!Next
<1> QED BY <1>1, <1>2, <1>9

\* What is proved of RunCoordinator holds of the coordinators here.
LEMMA CoordInv == Spec => [](CP!Inv /\ CP!Asked)
<1>0. None \notin Entry /\ None \notin Proc
  BY NoneAssumption
<1>1. CP!Spec => []CP!Inv
  BY <1>0, CP!InvAlways
<1>2. CP!Spec => []CP!Asked
  BY <1>0, CP!AskedAlways
<1>3. CoordinatorSpec => CP!Spec
  BY SameCoordinator, PTL DEF CoordinatorSpec, C!Spec, CP!Spec
<1> QED BY <1>1, <1>2, <1>3, DrainsAreCoordinated, PTL

\* Two refinements meet: the real drains of a Session, its prompts, pauses and resumes
\* give each process one serialized execution, which its callers join and stop, as
\* ExecutionPerKey has it; nothing of the inbox, the database or the stages of a drain
\* shows through.
THEOREM DrainsArePerKey == Spec => CP!PerKeySpec
<1>0. None \notin Entry /\ None \notin Proc
  BY NoneAssumption
<1>1. CP!Spec => CP!PerKeySpec
  BY <1>0, CP!Refinement
<1>2. CoordinatorSpec => CP!Spec
  BY SameCoordinator, PTL DEF CoordinatorSpec, C!Spec, CP!Spec
<1> QED BY <1>1, <1>2, DrainsAreCoordinated, PTL

-----------------------------------------------------------------------------
(* A settled pause.                                                        *)

\* The types of what the coordinators do not see.
DataTypes ==
  /\ pausedBy \in Operator \cup {None}
  /\ inbox \in [Prompt -> {"absent", "pending", "promoted"}]
  /\ failed \in [Entry -> BOOLEAN]
  /\ asks \in [Prompt -> {"new", "hold", "run", "wake", "done"}]
  /\ site \in [Operator -> Proc \cup {None}]
  /\ step \in [Operator -> {"idle", "pausing", "stop", "stopping", "held", "resuming", "resumed", "done"}]

\* An operator waits for nothing but the interrupt of its pause.
PauseIsAwaited ==
  \A c \in Operator :
    /\ doing[c] \in {"idle", "halt"}
    /\ doing[c] = "halt" => step[c] = "stopping" /\ wants[c] = site[c]

Quiet(c) == \A e \in Entry : stage[e] = "turn" => keyOf[e] # site[c]

\* Once the interrupt of the pause in force is over, no drain of its process is
\* in a cycle.
PauseHolds ==
  \A c \in Operator : pausedBy = c =>
    /\ step[c] \in {"stop", "stopping", "held", "resuming"}
    /\ \/ step[c] \in {"held", "resuming"}
       \/ step[c] = "stopping" /\ doing[c] = "idle"
       => Quiet(c)

PInv == DataTypes /\ PauseIsAwaited /\ PauseHolds

\* What the proof uses of the coordinators: the map shows every live entry, and
\* operators wait for live entries of the key they want.
Coordinated ==
  /\ keyOf \in [Entry -> Proc \cup {None}]
  /\ doing \in [Operator -> {"idle", "join", "again", "halt", "retry"}]
  /\ wants \in [Operator -> Proc \cup {None}]
  /\ \A e \in Entry : place[e] # "free" => keyOf[e] \in Proc /\ active[keyOf[e]] = e
  /\ \A c \in Operator : doing[c] = "halt" => on[c] \in Entry /\ keyOf[on[c]] = wants[c]

\* What the coordinators guarantee of their entries and callers gives what the
\* drain needs of them.
LEMMA CoordinatedIs == CP!Inv /\ CP!Asked => Coordinated
BY DEF CP!Inv, CP!Asked, CP!TypeOK, CP!OneExecution, CP!WaitersAreServed, CP!Live, Coordinated

\* A drain in a cycle is one that the map shows.
LEMMA TurnIsShown ==
  ASSUME IInv, Coordinated, NEW e \in Entry, stage[e] = "turn"
  PROVE  place[e] # "free" /\ keyOf[e] \in Proc /\ active[keyOf[e]] = e
BY DEF IInv, Begun, Coordinated

\* Nobody has paused initially.
LEMMA InitPInv == Init => PInv
BY NoneAssumption DEF Init, C!Init, PInv, DataTypes, PauseIsAwaited, PauseHolds

\* A step in which no drain enters a cycle, no cycle changes its process, and
\* operators stand where they did.
LEMMA QuietStep ==
  ASSUME PInv, UNCHANGED <<pausedBy, operators, doing, wants>>,
         \A e \in Entry : stage'[e] = "turn" => (stage[e] = "turn" /\ keyOf'[e] = keyOf[e]) \/ pausedBy = None
  PROVE  PauseIsAwaited' /\ PauseHolds'
BY NoneAssumption DEF PInv, PauseIsAwaited, PauseHolds, Quiet, operators

\* Prompts do not touch the operators, nor the cycles.
LEMMA SubmitPauses ==
  ASSUME IInv, Coordinated, PInv, NEW i \in Prompt, Submit(i)
  PROVE  PInv'
<1>1. /\ UNCHANGED <<drains, pausedBy, operators>>
      /\ UNCHANGED coordinators \/ \E p \in Proc : C!Wake(p)
  BY DEF Submit, ReadSession, AdmitInput, WakeDrain, database
<1>2. DataTypes'
  BY <1>1 DEF PInv, DataTypes, Submit, ReadSession, AdmitInput, WakeDrain, database, drains, operators
<1>3. UNCHANGED <<doing, wants, stage>>
  BY <1>1 DEF coordinators, C!Wake, C!caller, drains
<1>4. \A e \in Entry : stage[e] = "turn" => keyOf'[e] = keyOf[e]
  <2> SUFFICES ASSUME NEW e \in Entry, stage[e] = "turn" PROVE keyOf'[e] = keyOf[e]
    OBVIOUS
  <2>1. place[e] # "free"
    BY TurnIsShown
  <2>2. CASE UNCHANGED coordinators
    BY <2>2 DEF coordinators
  <2>3. ASSUME NEW p \in Proc, C!Wake(p) PROVE keyOf'[e] = keyOf[e]
    BY <2>1, <2>3 DEF C!Wake, C!RequestDrain, C!StartEntry, C!Live, Coordinated
  <2> QED BY <1>1, <2>2, <2>3
<1> QED BY <1>1, <1>2, <1>3, <1>4, QuietStep DEF PInv

\* A pause is settled after it found nothing active, or when its interrupt ends.
LEMMA StopDrainPauses ==
  ASSUME IInv, Coordinated, PInv, NEW c \in Operator, StopDrain(c)
  PROVE  PInv'
<1> USE NoneAssumption
<1>1. PICK p \in Proc :
        /\ site' = [site EXCEPT ![c] = p]
        /\ \/ /\ active[p] = None
              /\ step' = [step EXCEPT ![c] = "held"]
              /\ UNCHANGED coordinators
           \/ /\ C!Interrupt(c, p)
              /\ step' = [step EXCEPT ![c] = "stopping"]
  BY DEF StopDrain, PauseInterrupt
<1>2. UNCHANGED <<stage, failed, pausedBy, inbox, asks>> /\ step[c] = "stop"
  BY DEF StopDrain, drains, database
<1>3. doing[c] = "idle"
  BY <1>2 DEF PInv, PauseIsAwaited
<1>4. DataTypes'
  BY <1>1, <1>2 DEF PInv, DataTypes
<1>5. CASE active[p] = None /\ step' = [step EXCEPT ![c] = "held"] /\ UNCHANGED coordinators
  <2>1. UNCHANGED <<keyOf, doing, wants>>
    BY <1>5 DEF coordinators
  <2>2. \A e \in Entry : stage[e] = "turn" => keyOf[e] # p
    BY <1>5, TurnIsShown
  <2>3. PauseIsAwaited'
    BY <1>1, <1>3, <1>5, <2>1 DEF PInv, DataTypes, PauseIsAwaited
  <2>4. PauseHolds'
    BY <1>1, <1>2, <1>5, <2>1, <2>2 DEF PInv, DataTypes, PauseHolds, Quiet
  <2> QED BY <1>4, <2>3, <2>4 DEF PInv
<1>6. CASE C!Interrupt(c, p) /\ step' = [step EXCEPT ![c] = "stopping"]
  <2>1. /\ doing' = [doing EXCEPT ![c] = "halt"] /\ wants' = [wants EXCEPT ![c] = p]
        /\ keyOf' = keyOf
    BY <1>6 DEF C!Interrupt, C!Stop, C!Wait
  <2>2. /\ doing'[c] = "halt" /\ wants'[c] = p
        /\ \A d \in Operator : d # c => doing'[d] = doing[d] /\ wants'[d] = wants[d]
    BY <2>1 DEF Coordinated
  <2>3. PauseIsAwaited'
    BY <1>1, <1>6, <2>2 DEF PInv, DataTypes, PauseIsAwaited
  <2>4. PauseHolds'
    BY <1>1, <1>2, <1>6, <2>1, <2>2 DEF PInv, DataTypes, PauseHolds, Quiet
  <2> QED BY <1>4, <2>3, <2>4 DEF PInv
<1> QED BY <1>1, <1>5, <1>6

\* The other steps of an operator.
LEMMA OperatePauses ==
  ASSUME IInv, Coordinated, PInv, NEW c \in Operator, Operate(c)
  PROVE  PInv'
<1> USE NoneAssumption
<1>1. CASE StopDrain(c)
  BY <1>1, StopDrainPauses
<1>2. CASE ResumeWake(c)
  <2>1. PICK p \in Proc : C!Wake(p)
    BY <1>2 DEF ResumeWake, ResumeWakes
  <2>2. /\ UNCHANGED <<stage, failed, pausedBy, inbox, asks, site, doing, wants>>
        /\ step[c] = "resumed" /\ step' = [step EXCEPT ![c] = "done"]
    BY <1>2, <2>1 DEF ResumeWake, drains, database, C!Wake, C!caller
  <2>3. \A e \in Entry : stage[e] = "turn" => keyOf'[e] = keyOf[e]
    BY <2>1, TurnIsShown DEF C!Wake, C!RequestDrain, C!StartEntry, C!Live, Coordinated
  <2>4. DataTypes' /\ PauseIsAwaited'
    BY <2>2 DEF PInv, DataTypes, PauseIsAwaited
  <2>5. PauseHolds'
    BY <2>2, <2>3 DEF PInv, DataTypes, PauseHolds, Quiet
  <2> QED BY <2>4, <2>5 DEF PInv
<1>3. CASE PauseCheck(c) \/ PauseCommit(c) \/ PauseReturns(c) \/ ResumeCheck(c) \/ ResumeCommit(c)
  <2>1. UNCHANGED <<keyOf, doing, wants, stage, failed, inbox, asks, site>>
    BY <1>3 DEF PauseCheck, PauseCommit, PauseReturns, ResumeCheck, ResumeCommit,
       coordinators, drains, database
  <2>2. DataTypes'
    BY <1>3, <2>1 DEF PauseCheck, PauseCommit, PauseReturns, ResumeCheck, ResumeCommit,
       PInv, DataTypes, database
  <2>3. PauseIsAwaited'
    BY <1>3, <2>1 DEF PauseCheck, PauseCommit, PauseReturns, ResumeCheck, ResumeCommit,
       PInv, DataTypes, PauseIsAwaited
  <2>4. PauseHolds'
    BY <1>3, <2>1 DEF PauseCheck, PauseCommit, PauseReturns, ResumeCheck, ResumeCommit,
       PInv, DataTypes, PauseHolds, Quiet, Paused, database
  <2> QED BY <2>2, <2>3, <2>4 DEF PInv
<1> QED BY <1>1, <1>2, <1>3 DEF Operate

\* The end of a drain answers the pause that waits for it, and leaves no cycle
\* behind in its process.
LEMMA EndPauses ==
  ASSUME IInv, Coordinated, PInv, NEW e \in Entry, EndDrain(e)
  PROVE  PInv'
<1> USE NoneAssumption
<1>1. PICK x : C!Settle(e, x)
  BY DEF EndDrain
<1>2. /\ UNCHANGED <<failed, pausedBy, inbox, asks, step, site>>
      /\ stage' = [stage EXCEPT ![e] = "none"] /\ place[e] # "free"
  BY DEF EndDrain, GoTo, database, operators
<1>3. DataTypes'
  BY <1>2 DEF PInv, DataTypes
<1>4. stage'[e] = "none" /\ \A g \in Entry : g # e => stage'[g] = stage[g]
  BY <1>2 DEF IInv, Types
<1>5. \A g \in Entry : stage'[g] = "turn" => g # e /\ stage[g] = "turn" /\ keyOf[g] # keyOf[e]
  <2> SUFFICES ASSUME NEW g \in Entry, stage'[g] = "turn"
               PROVE  g # e /\ stage[g] = "turn" /\ keyOf[g] # keyOf[e]
    OBVIOUS
  <2>1. g # e /\ stage[g] = "turn"
    BY <1>4
  <2>2. active[keyOf[g]] = g /\ active[keyOf[e]] = e
    BY <1>2, <2>1, TurnIsShown DEF Coordinated
  <2> QED BY <2>1, <2>2
<1>6. \A g \in Entry : stage'[g] = "turn" => keyOf'[g] = keyOf[g]
  <2> SUFFICES ASSUME NEW g \in Entry, stage'[g] = "turn" PROVE keyOf'[g] = keyOf[g]
    OBVIOUS
  <2>1. g # e /\ place[g] # "free"
    BY <1>5, TurnIsShown
  <2>2. CASE C!Restart(e)
    BY <2>2 DEF C!Restart
  <2>3. CASE C!Succeed(e, x)
    BY <2>1, <2>3 DEF C!Succeed, C!Live, Coordinated
  <2>4. CASE C!Leave(e, x)
    BY <2>1, <2>4 DEF C!Leave, Coordinated
  <2> QED BY <1>1, <2>2, <2>3, <2>4 DEF C!Settle
<1>7. CASE C!Restart(e)
  <2>1. UNCHANGED <<doing, wants>> /\ UNCHANGED <<pausedBy, operators>>
    BY <1>2, <1>7 DEF C!Restart, C!caller, operators
  <2> QED BY <1>3, <1>5, <1>6, <2>1, QuietStep DEF PInv
<1>8. CASE C!Resolved(e, x)
  <2>1. /\ \A c \in Operator : doing'[c] = doing[c] \/ (doing[c] = "halt" /\ on[c] = e /\ doing'[c] = "idle")
        /\ wants' = wants
    BY <1>8 DEF C!Resolved, PInv, PauseIsAwaited
  <2>2. PauseIsAwaited'
    BY <1>2, <2>1 DEF PInv, PauseIsAwaited
  <2>3. ASSUME NEW c \in Operator, pausedBy = c,
               step[c] \in {"held", "resuming"} \/ (step[c] = "stopping" /\ doing'[c] = "idle"),
               NEW g \in Entry, stage'[g] = "turn"
        PROVE  keyOf'[g] # site[c]
    <3>1. CASE doing'[c] = doing[c]
      BY <1>5, <1>6, <2>3, <3>1 DEF PInv, PauseHolds, Quiet
    <3>2. CASE doing[c] = "halt" /\ on[c] = e
      <4>1. keyOf[e] = site[c]
        BY <3>2 DEF PInv, PauseIsAwaited, Coordinated
      <4> QED BY <1>5, <1>6, <2>3, <4>1
    <3> QED BY <2>1, <3>1, <3>2
  <2>4. PauseHolds'
    BY <1>2, <2>3 DEF PInv, PauseHolds, Quiet
  <2> QED BY <1>3, <2>2, <2>4 DEF PInv
<1> QED BY <1>1, <1>7, <1>8 DEF C!Settle, C!Succeed, C!Leave

\* The pause gate is the only way into a cycle.
LEMMA DrainPauses ==
  ASSUME IInv, Coordinated, PInv, NEW e \in Entry, Drain(e)
  PROVE  PInv'
<1>1. CASE EndDrain(e)
  BY <1>1, EndPauses
<1>2. CASE Gate(e)
  <2>1. UNCHANGED <<pausedBy, operators, doing, wants, keyOf, failed, inbox, asks>>
    BY <1>2 DEF Gate, coordinators, database
  <2>2. DataTypes'
    BY <2>1 DEF PInv, DataTypes, operators
  <2>3. \A g \in Entry : stage'[g] = "turn" => stage[g] = "turn" \/ pausedBy = None
    BY <1>2 DEF Gate, GoTo, Paused, IInv, Types
  <2> QED BY <2>1, <2>2, <2>3, QuietStep DEF PInv
<1>3. CASE BeginDrain(e) \/ Acquire(e) \/ Promote(e) \/ RunnerEnds(e) \/ ReleaseIfDrained(e) \/ Unwind(e)
  <2>1. UNCHANGED <<pausedBy, operators, doing, wants, keyOf, asks>>
    BY <1>3 DEF BeginDrain, C!Begin, C!caller, Acquire, Promote, RunnerEnds, ReleaseIfDrained,
       Unwind, coordinators, database
  <2>2. DataTypes'
    <3>1. failed' \in [Entry -> BOOLEAN]
      BY <1>3 DEF BeginDrain, Acquire, Promote, RunnerEnds, ReleaseIfDrained, Unwind,
         drains, PInv, DataTypes
    <3>2. inbox' \in [Prompt -> {"absent", "pending", "promoted"}]
      BY <1>3 DEF BeginDrain, Acquire, Promote, RunnerEnds, ReleaseIfDrained, Unwind,
         database, PInv, DataTypes
    <3> QED BY <2>1, <3>1, <3>2 DEF PInv, DataTypes, operators
  <2>3. \A g \in Entry : stage'[g] = "turn" => stage[g] = "turn"
    BY <1>3 DEF BeginDrain, Acquire, Promote, RunnerEnds, ReleaseIfDrained, ReleaseOrContinue,
       Unwind, GoTo, drains, IInv, Types
  <2> QED BY <2>1, <2>2, <2>3, QuietStep DEF PInv
<1> QED BY <1>1, <1>2, <1>3 DEF Drain

\* Every step keeps a settled pause quiet.
LEMMA PauseStep == IInv /\ Coordinated /\ PInv /\ [Next]_session => PInv'
<1> SUFFICES ASSUME IInv, Coordinated, PInv, [Next]_session PROVE PInv'
  OBVIOUS
<1>1. CASE UNCHANGED session
  BY <1>1, QuietStep DEF session, coordinators, drains, database, operators, PInv, DataTypes
<1> QED BY <1>1, SubmitPauses, OperatePauses, DrainPauses DEF Next

\* All of it, for the theorems.
LEMMA AllAlways == Spec => [](IInv /\ Coordinated /\ PInv /\ CP!Inv)
<1>1. Init => PInv
  BY InitPInv
<1>2. CP!Inv /\ CP!Asked => Coordinated
  BY CoordinatedIs
<1>3. Spec => [](CP!Inv /\ Coordinated)
  BY <1>2, CoordInv, PTL
<1>4. Spec => []IInv
  BY IInvAlways
<1>5. IInv /\ Coordinated /\ PInv /\ [Next]_session => PInv'
  BY PauseStep
<1> QED BY <1>1, <1>3, <1>4, <1>5, PTL DEF Spec

\* The database, the drains, the callers and the coordinators keep their types.
THEOREM TypeCorrect == Spec => []TypeOK
<1>1. IInv /\ PInv /\ CP!Inv => TypeOK
  BY DEF IInv, Types, Stage, PInv, DataTypes, CP!Inv, CP!TypeOK, C!TypeOK, CP!Exit, C!Exit, TypeOK
<1> QED BY <1>1, AllAlways, PTL

\* A cycle whose promotion is seen belongs to a drain that holds the row.
LEMMA PromotionIsOwned ==
  ASSUME IInv, PInv, [Next]_session, NEW i \in Prompt,
         inbox[i] = "pending", inbox'[i] = "promoted"
  PROVE  \E e \in Entry : owner = e /\ stage[e] = "turn"
<1>1. inbox' # inbox
  OBVIOUS
<1>2. ASSUME NEW j \in Prompt, Submit(j) PROVE FALSE
  BY <1>1, <1>2 DEF Submit, ReadSession, AdmitInput, WakeDrain, database, PInv, DataTypes
<1>3. ASSUME NEW c \in Operator, Operate(c) PROVE FALSE
  BY <1>1, <1>3 DEF Operate, PauseCheck, PauseCommit, StopDrain, PauseReturns, ResumeCheck,
     ResumeCommit, ResumeWake, database
<1>4. ASSUME NEW e \in Entry, Drain(e) PROVE Promote(e)
  BY <1>1, <1>4 DEF Drain, BeginDrain, Acquire, Gate, RunnerEnds, ReleaseIfDrained, Unwind,
     EndDrain, database
<1>5. PICK e \in Entry : Promote(e)
  BY <1>1, <1>2, <1>3, <1>4 DEF Next, session, database
<1> QED BY <1>5 DEF Promote, IInv, OwnerRuns

\* Once pause has returned, the drains of its process promote nothing until a
\* resume, however many drains, prompts and operators there are.
THEOREM PauseIsQuiet == Spec => PausedIsQuiet
<1>1. IInv /\ PInv /\ [Next]_session
      => [Settled => \A i \in Prompt :
            inbox[i] = "pending" /\ inbox'[i] = "promoted" =>
              \E e \in Entry : owner = e /\ keyOf[e] # site[pausedBy]]_session
  <2> SUFFICES ASSUME IInv, PInv, [Next]_session, Settled, NEW i \in Prompt,
                      inbox[i] = "pending", inbox'[i] = "promoted"
               PROVE  \E e \in Entry : owner = e /\ keyOf[e] # site[pausedBy]
    OBVIOUS
  <2>1. PICK e \in Entry : owner = e /\ stage[e] = "turn"
    BY PromotionIsOwned
  <2>2. Quiet(pausedBy)
    BY DEF Settled, Paused, PInv, DataTypes, PauseHolds
  <2> QED BY <2>1, <2>2 DEF Quiet
<1> QED BY <1>1, AllAlways, PTL DEF Spec, PausedIsQuiet

-----------------------------------------------------------------------------
(* Inputs and the drains that look for them, as long as nobody pauses.      *)

\* As long as no operator has paused, nothing is stopped and no prompt has read
\* a pause.
Unstopped ==
  Untouched =>
    /\ pausedBy = None
    /\ \A i \in Prompt : asks[i] # "hold"
    /\ \A e \in Entry : place[e] \in {"free", "starting", "draining"}

SInv == Unstopped /\ NoInputIsStranded

\* What the argument uses of the coordinators.
Mapped ==
  /\ pendingWake \in [Entry -> BOOLEAN]
  /\ active \in [Proc -> Entry \cup {None}]

\* Nothing is submitted initially.
LEMMA InitSInv == Init => SInv
BY DEF Init, C!Init, SInv, Unstopped, NoInputIsStranded

\* A step that changes nothing this is about.
LEMMA UnseenStep ==
  ASSUME SInv, UNCHANGED <<pausedBy, asks, inbox, place, pendingWake, stage>>,
         Untouched' => Untouched
  PROVE  SInv'
BY DEF SInv, Unstopped, NoInputIsStranded, Attends

\* An operator that takes its first step into a pause has not paused yet; after
\* any other step of one, the Session is not untouched.
LEMMA OperateStrands ==
  ASSUME PInv, SInv, NEW c \in Operator, Operate(c)
  PROVE  SInv'
<1>1. CASE PauseCheck(c)
  <2>1. UNCHANGED <<pausedBy, asks, inbox, place, pendingWake, stage>>
    BY <1>1 DEF PauseCheck, coordinators, drains, database
  <2>2. Untouched' => Untouched
    BY <1>1 DEF PauseCheck, PInv, DataTypes, Untouched
  <2> QED BY <2>1, <2>2, UnseenStep
<1>2. CASE PauseCommit(c) \/ StopDrain(c) \/ PauseReturns(c) \/ ResumeCheck(c) \/ ResumeCommit(c)
           \/ ResumeWake(c)
  <2>1. step'[c] \notin {"idle", "pausing"}
    BY <1>2 DEF PauseCommit, StopDrain, PauseInterrupt, PauseReturns, ResumeCheck, ResumeCommit,
       ResumeWake, PInv, DataTypes
  <2>2. ~Untouched'
    BY <2>1 DEF Untouched
  <2> QED BY <2>2 DEF SInv, Unstopped, NoInputIsStranded
<1> QED BY <1>1, <1>2 DEF Operate

\* A wake starts a drain, or leaves itself with the one in progress, whatever
\* that is about to do.
LEMMA WakeAttends ==
  ASSUME IInv, Mapped, NEW p \in Proc, C!Wake(p)
  PROVE  /\ \E e \in Entry : place'[e] = "starting" \/ pendingWake'[e]
         /\ \A g \in Entry : place'[g] = place[g] \/ place'[g] = "starting"
<1>1. CASE active[p] = None
  <2>1. PICK e \in Entry : C!StartEntry(p, e, FALSE)
    BY <1>1 DEF C!Wake, C!RequestDrain
  <2>2. place' = [place EXCEPT ![e] = "starting"]
    BY <2>1 DEF C!StartEntry
  <2> QED BY <2>2 DEF IInv, Types
<1>2. CASE active[p] # None
  <2>1. pendingWake' = [pendingWake EXCEPT ![active[p]] = TRUE] /\ place' = place
    BY <1>2 DEF C!Wake, C!RequestDrain
  <2>2. active[p] \in Entry
    BY <1>2 DEF Mapped
  <2> QED BY <2>1, <2>2 DEF Mapped
<1> QED BY <1>1, <1>2

\* A prompt returns after its wake: without a pause, each makes one.
LEMMA SubmitStrands ==
  ASSUME IInv, Mapped, PInv, SInv, NEW i \in Prompt, Submit(i)
  PROVE  SInv'
<1>1. (Untouched' <=> Untouched) /\ UNCHANGED <<pausedBy, stage>>
  BY DEF Submit, ReadSession, AdmitInput, WakeDrain, operators, Untouched, database, drains
<1>2. CASE ReadSession(i)
  <2>1. UNCHANGED <<inbox, place, pendingWake>>
    BY <1>2 DEF ReadSession, coordinators, database
  <2>2. Unstopped'
    BY <1>1, <1>2, <2>1 DEF ReadSession, SInv, Unstopped, Paused, PInv, DataTypes
  <2>3. \A j \in Prompt : asks'[j] = "done" => asks[j] = "done"
    BY <1>2 DEF ReadSession, PInv, DataTypes
  <2>4. NoInputIsStranded'
    BY <1>1, <2>1, <2>3 DEF SInv, NoInputIsStranded, Attends
  <2> QED BY <2>2, <2>4 DEF SInv
<1>3. CASE AdmitInput(i)
  <2>1. UNCHANGED <<place, pendingWake>>
    BY <1>3 DEF AdmitInput, coordinators
  <2>2. /\ asks'[i] = IF asks[i] = "hold" THEN "done" ELSE "wake"
        /\ \A j \in Prompt : j # i => asks'[j] = asks[j] /\ inbox'[j] = inbox[j]
    BY <1>3 DEF AdmitInput, PInv, DataTypes
  <2>3. Unstopped'
    BY <1>1, <2>1, <2>2 DEF SInv, Unstopped
  <2>4. NoInputIsStranded'
    BY <1>1, <2>1, <2>2 DEF SInv, Unstopped, NoInputIsStranded, Attends
  <2> QED BY <2>3, <2>4 DEF SInv
<1>4. CASE WakeDrain(i)
  <2>1. PICK p \in Proc : C!Wake(p)
    BY <1>4 DEF WakeDrain
  <2>2. asks' = [asks EXCEPT ![i] = "done"] /\ pausedBy' = pausedBy
    BY <1>4 DEF WakeDrain, database
  <2>3. Unstopped'
    BY <1>1, <2>1, <2>2, WakeAttends DEF SInv, Unstopped, PInv, DataTypes
  <2>4. \E e \in Entry : Attends(e)'
    BY <2>1, WakeAttends DEF Attends
  <2> QED BY <2>3, <2>4 DEF SInv, NoInputIsStranded
<1> QED BY <1>2, <1>3, <1>4 DEF Submit

\* A drain that ends with a wake begins again, in its own entry or another's; one
\* that ends without was not the one that attends.
LEMMA EndStrands ==
  ASSUME IInv, Mapped, PInv, SInv, NEW e \in Entry, EndDrain(e)
  PROVE  SInv'
<1>1. UNCHANGED <<pausedBy, inbox, asks, step>>
  BY DEF EndDrain, database, operators
<1> SUFFICES ASSUME Untouched PROVE SInv'
  BY <1>1 DEF SInv, Unstopped, NoInputIsStranded, Untouched
<1>2. PICK x : C!Settle(e, x)
  BY DEF EndDrain
<1>3. stage[e] = "over" /\ stage' = [stage EXCEPT ![e] = "none"]
  BY DEF EndDrain, GoTo, SInv, Unstopped
<1>4. \A g \in Entry : place'[g] \in {"free", "starting"} \/ place'[g] = place[g]
  BY <1>2 DEF C!Settle, C!Restart, C!Succeed, C!Leave, IInv, Types
<1>5. Unstopped'
  BY <1>1, <1>4 DEF SInv, Unstopped
<1>6. CASE pendingWake[e]
  <2>1. \E s \in Entry : place'[s] = "starting"
    <3>1. CASE C!Restart(e)
      BY <3>1 DEF C!Restart, IInv, Types
    <3>2. CASE C!Succeed(e, x)
      <4>1. PICK s \in Entry :
              ~C!Live(s) /\ place' = [place EXCEPT ![s] = "starting", ![e] = "free"]
        BY <3>2 DEF C!Succeed
      <4>2. s # e
        BY <1>3, <4>1 DEF C!Live, IInv, Begun
      <4> QED BY <4>1, <4>2 DEF IInv, Types
    <3> QED BY <1>2, <1>6, <3>1, <3>2 DEF C!Settle
  <2> QED BY <1>5, <2>1 DEF SInv, NoInputIsStranded, Attends
<1>7. CASE ~pendingWake[e]
  <2>1. C!Leave(e, x)
    BY <1>2, <1>7 DEF C!Settle
  <2>2. \A g \in Entry : g # e => place'[g] = place[g] /\ pendingWake'[g] = pendingWake[g] /\ stage'[g] = stage[g]
    BY <1>3, <2>1 DEF C!Leave, IInv, Types, Mapped
  <2>3. ~Attends(e)
    BY <1>3, <1>7 DEF Attends, IInv, Begun
  <2>4. \A g \in Entry : Attends(g) => Attends(g)'
    BY <2>2, <2>3 DEF Attends
  <2> QED BY <1>1, <1>5, <2>4 DEF SInv, NoInputIsStranded, Untouched
<1> QED BY <1>6, <1>7

\* A drain attends until it gives up the row, and it gives up no row while an
\* input is pending; one that finds the row taken leaves the inbox to its owner.
LEMMA DrainStrands ==
  ASSUME IInv, Mapped, PInv, SInv, NEW e \in Entry, Drain(e)
  PROVE  SInv'
<1>0. CASE ~Untouched
  BY <1>0 DEF Drain, BeginDrain, Acquire, Gate, Promote, RunnerEnds, ReleaseIfDrained, Unwind,
     EndDrain, operators, Untouched, SInv, Unstopped, NoInputIsStranded
<1>1. CASE EndDrain(e)
  BY <1>1, EndStrands
<1>2. CASE Untouched /\ ~EndDrain(e)
  <2>1. /\ UNCHANGED <<pausedBy, asks, step, pendingWake>>
        /\ \A g \in Entry : place'[g] = place[g] \/ place'[g] = "draining"
    BY <1>2 DEF Drain, BeginDrain, C!Begin, Acquire, Gate, Promote, RunnerEnds, ReleaseIfDrained,
       Unwind, operators, coordinators, database, IInv, Types
  <2>2. Unstopped'
    BY <2>1 DEF SInv, Unstopped, Untouched
  <2>3. \A i \in Prompt : inbox'[i] = "pending" => inbox[i] = "pending"
    BY <1>2 DEF Drain, BeginDrain, Acquire, Gate, Promote, RunnerEnds, ReleaseIfDrained,
       Unwind, database
  <2>4. ASSUME Pending # {} PROVE (\E g \in Entry : Attends(g)) => \E g \in Entry : Attends(g)'
    <3>1. CASE BeginDrain(e) \/ Gate(e) \/ RunnerEnds(e) \/ ReleaseIfDrained(e) \/ Promote(e)
      <4>1. stage'[e] \in {"admit", "gate", "turn", "release"}
        BY <2>4, <3>1 DEF BeginDrain, Gate, RunnerEnds, ReleaseIfDrained, ReleaseOrContinue, Promote,
           GoTo, drains, IInv, Types
      <4> QED BY <4>1 DEF Attends
    <3>2. CASE Acquire(e)
      <4>1. CASE GoTo(e, "gate")
        <5>1. stage'[e] = "gate"
          BY <4>1 DEF GoTo, IInv, Types
        <5> QED BY <5>1 DEF Attends
      <4>2. CASE owner # None /\ GoTo(e, "over")
        <5>1. owner \in Entry /\ stage[owner] \in {"gate", "turn", "release"} /\ owner # e
          BY <3>2, <4>2 DEF Acquire, IInv, Types, OwnerRuns
        <5>2. stage'[owner] = stage[owner]
          BY <4>2, <5>1 DEF GoTo, IInv, Types
        <5> QED BY <5>1, <5>2 DEF Attends
      <4> QED BY <3>2, <4>1, <4>2 DEF Acquire
    <3>3. CASE Unwind(e)
      BY <1>2, <3>3 DEF Unwind, SInv, Unstopped
    <3> QED BY <1>2, <3>1, <3>2, <3>3 DEF Drain
  <2>5. NoInputIsStranded'
    <3> SUFFICES ASSUME Untouched', NEW i \in Prompt, inbox'[i] = "pending", asks'[i] = "done"
                 PROVE  \E g \in Entry : Attends(g)'
      BY DEF NoInputIsStranded
    <3>1. inbox[i] = "pending" /\ asks[i] = "done"
      BY <2>1, <2>3
    <3>2. Pending # {} /\ \E g \in Entry : Attends(g)
      BY <1>2, <3>1 DEF SInv, NoInputIsStranded, Pending
    <3> QED BY <2>4, <3>2
  <2> QED BY <2>2, <2>5 DEF SInv
<1> QED BY <1>0, <1>1, <1>2

\* As long as no operator has paused, an input whose prompt has returned is
\* never left behind: whatever wakes, drains and failures of any number of
\* processes cross each other, a drain is to look into the inbox.
THEOREM NothingIsStranded == Spec => []NoInputIsStranded
<1>1. Init => SInv
  BY InitSInv
<1>2. CP!Inv => Mapped
  BY DEF CP!Inv, CP!TypeOK, Mapped
<1>3. IInv /\ Mapped /\ PInv /\ SInv /\ [Next]_session => SInv'
  <2> SUFFICES ASSUME IInv, Mapped, PInv, SInv, [Next]_session PROVE SInv'
    OBVIOUS
  <2>1. CASE UNCHANGED session
    BY <2>1, UnseenStep DEF session, coordinators, drains, database, operators, Untouched
  <2> QED BY <2>1, SubmitStrands, OperateStrands, DrainStrands DEF Next
<1>4. SInv => NoInputIsStranded
  BY DEF SInv
<1> QED BY <1>1, <1>2, <1>3, <1>4, AllAlways, PTL DEF Spec
=============================================================================
