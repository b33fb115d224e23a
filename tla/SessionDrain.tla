----------------------------- MODULE SessionDrain -----------------------------
(***************************************************************************)
(* How one Session's durable inbox is drained: V2Session.prompt, pause and *)
(* resume (packages/core/src/session.ts) and the drain of                  *)
(* session/execution/local.ts, over a RunCoordinator in each process.      *)
(* Processes share the database (paused_at, the inbox, the owner row) and  *)
(* nothing else.  The owner row is the lease that SessionExecutionOwner    *)
(* implements, without crashes; a provider turn is the promotion of        *)
(* pending inputs, which may fail.                                         *)
(***************************************************************************)
EXTENDS Naturals, FiniteSets

CONSTANTS
  Proc,       \* processes, each with its own coordinator
  Prompt,     \* prompts, each with the caller that submits it
  Operator,   \* callers that pause the Session and then resume it
  Entry,      \* bound: executions at one time (RunCoordinator)
  None

ASSUME NoneAssumption == None \notin Entry \cup Proc \cup Operator

VARIABLES
  \* the coordinators (RunCoordinator, one key for each process)
  active, keyOf, place, force, pendingWake, stopping, doing, on, wants, result, woken,
  \* the database
  pausedBy,   \* paused_at: the operator that paused the Session, or None
  inbox,      \* Prompt -> "absent", "pending" or "promoted"
  owner,      \* the execution the owner row names
  \* drains
  stage,      \* where a drain stands
  failed,     \* firstFailure of a drain
  \* where prompts and operators stand
  asks, step,
  site        \* history: the process in which an operator's pause interrupts

C == INSTANCE RunCoordinator WITH Key <- Proc, Caller <- Operator

coordinators == <<active, keyOf, place, force, pendingWake, stopping, doing, on, wants, result, woken>>
drains == <<stage, failed>>
database == <<pausedBy, inbox, owner>>
operators == <<step, site>>
session == <<coordinators, drains, database, asks, operators>>

Paused == pausedBy # None
Pending == {i \in Prompt : inbox[i] = "pending"}
Idle == \A e \in Entry : ~C!Live(e)

Init ==
  /\ C!Init
  /\ pausedBy = None
  /\ inbox = [i \in Prompt |-> "absent"]
  /\ owner = None
  /\ stage = [e \in Entry |-> "none"]
  /\ failed = [e \in Entry |-> FALSE]
  /\ asks = [i \in Prompt |-> "new"]
  /\ step = [c \in Operator |-> "idle"]
  /\ site = [c \in Operator |-> None]

-----------------------------------------------------------------------------
(* prompt: it reads the Session, admits its input and wakes a drain unless  *)
(* the Session it has read is paused.  Nothing interrupts it.               *)

ReadSession(i) ==
  /\ asks[i] = "new"
  /\ asks' = [asks EXCEPT ![i] = IF Paused THEN "hold" ELSE "run"]
  /\ UNCHANGED <<coordinators, drains, database, operators>>

AdmitInput(i) ==
  /\ asks[i] \in {"hold", "run"} /\ inbox[i] = "absent"
  /\ inbox' = [inbox EXCEPT ![i] = "pending"]
  /\ asks' = [asks EXCEPT ![i] = IF @ = "hold" THEN "done" ELSE "wake"]
  /\ UNCHANGED <<coordinators, drains, pausedBy, owner, operators>>

\* The process the prompt came to.
WakeDrain(i) ==
  /\ asks[i] = "wake"
  /\ \E p \in Proc : C!Wake(p)
  /\ asks' = [asks EXCEPT ![i] = "done"]
  /\ UNCHANGED <<drains, database, operators>>

-----------------------------------------------------------------------------
(* pause and resume: each reads paused_at, publishes its event with the     *)
(* column, and then interrupts or wakes the coordinator of its process.     *)

PauseCheck(c) ==
  /\ step[c] = "idle"
  /\ step' = [step EXCEPT ![c] = IF Paused THEN "held" ELSE "pausing"]
  /\ UNCHANGED <<coordinators, drains, database, asks, site>>

PauseCommit(c) ==
  /\ step[c] = "pausing"
  /\ pausedBy' = c
  /\ step' = [step EXCEPT ![c] = "stop"]
  /\ UNCHANGED <<coordinators, drains, inbox, owner, asks, site>>

\* A mutated pause: the drain is told to stop and not waited for.
PauseInterruptUnawaited(c) ==
  \E p \in Proc :
    /\ IF active[p] = None
       THEN UNCHANGED coordinators
       ELSE C!Interrupt(c, p)
    /\ step' = [step EXCEPT ![c] = "held"]
    /\ site' = [site EXCEPT ![c] = p]

\* A mutated pause: it does not look whether anything is active.
PauseInterruptUnchecked(c) ==
  \E p \in Proc :
    /\ C!InterruptUnchecked(c, p)
    /\ step' = [step EXCEPT ![c] = "stopping"]
    /\ site' = [site EXCEPT ![c] = p]

PauseInterrupt(c) ==
  \E p \in Proc :
    /\ site' = [site EXCEPT ![c] = p]
    /\ \/ /\ active[p] = None
          /\ step' = [step EXCEPT ![c] = "held"]
          /\ UNCHANGED coordinators
       \/ /\ C!Interrupt(c, p)
          /\ step' = [step EXCEPT ![c] = "stopping"]

\* The request it leaves in the owner row reaches no other process.
StopDrain(c) ==
  /\ step[c] = "stop"
  /\ PauseInterrupt(c)
  /\ UNCHANGED <<drains, database, asks>>

PauseReturns(c) ==
  /\ step[c] = "stopping" /\ doing[c] = "idle"
  /\ step' = [step EXCEPT ![c] = "held"]
  /\ UNCHANGED <<coordinators, drains, database, asks, site>>

ResumeCheck(c) ==
  /\ step[c] = "held"
  /\ step' = [step EXCEPT ![c] = IF Paused THEN "resuming" ELSE "done"]
  /\ UNCHANGED <<coordinators, drains, database, asks, site>>

ResumeCommit(c) ==
  /\ step[c] = "resuming"
  /\ pausedBy' = None
  /\ step' = [step EXCEPT ![c] = "resumed"]
  /\ UNCHANGED <<coordinators, drains, inbox, owner, asks, site>>

\* A mutated resume: it leaves the wake to the next prompt.
ResumeWithoutWake(c) == UNCHANGED coordinators

\* A mutated resume: it starts an execution whether or not one is active.
ResumeStarts(c) ==
  \E p \in Proc :
    /\ C!WakeAlwaysStarts(p)
    /\ woken' = [woken EXCEPT ![p] = "asked"]
    /\ UNCHANGED <<doing, on, wants, result>>

ResumeWakes(c) == \E p \in Proc : C!Wake(p)

ResumeWake(c) ==
  /\ step[c] = "resumed"
  /\ ResumeWakes(c)
  /\ step' = [step EXCEPT ![c] = "done"]
  /\ UNCHANGED <<drains, database, asks, site>>

-----------------------------------------------------------------------------
(* The drain that a coordinator runs.                                       *)

GoTo(e, s) == stage' = [stage EXCEPT ![e] = s]

BeginDrain(e) ==
  /\ C!Begin(e)
  /\ GoTo(e, "admit")
  /\ failed' = [failed EXCEPT ![e] = FALSE]
  /\ UNCHANGED <<database, asks, operators>>

\* tryAcquireLocal; a Session that another process owns is left to it.
Acquire(e) ==
  /\ stage[e] = "admit" /\ place[e] = "draining"
  /\ \/ owner = None /\ owner' = e /\ GoTo(e, "gate")
     \/ owner # None /\ GoTo(e, "over") /\ UNCHANGED owner
  /\ UNCHANGED <<coordinators, failed, pausedBy, inbox, asks, operators>>

\* SessionRunner.run reads the Session and returns at once when it is paused.
Gate(e) ==
  /\ stage[e] = "gate" /\ place[e] = "draining"
  /\ GoTo(e, IF ~Paused THEN "turn" ELSE "release")
  /\ UNCHANGED <<coordinators, failed, database, asks, operators>>

\* One cycle: some of the pending inputs are promoted and answered.  A cycle in
\* flight when its fiber is interrupted may still commit.
Promote(e) ==
  /\ stage[e] = "turn"
  /\ \E S \in SUBSET Pending :
       S # {} /\ inbox' = [i \in Prompt |-> IF i \in S THEN "promoted" ELSE inbox[i]]
  /\ UNCHANGED <<coordinators, drains, pausedBy, owner, asks, operators>>

\* The runner ends: nothing is pending, or it fails.
RunnerEnds(e) ==
  /\ stage[e] = "turn" /\ place[e] = "draining"
  /\ \/ Pending = {} /\ UNCHANGED failed
     \/ failed' = [failed EXCEPT ![e] = TRUE]
  /\ GoTo(e, "release")
  /\ UNCHANGED <<coordinators, database, asks, operators>>

\* A mutated release: it does not look into the inbox.
ReleaseUnseen(e) == owner' = None /\ GoTo(e, "over")

\* A mutated release: any input counts, the promoted ones too.
ReleaseIfNone(e) ==
  \/ (\E i \in Prompt : inbox[i] # "absent") /\ GoTo(e, "gate") /\ UNCHANGED owner
  \/ (\A i \in Prompt : inbox[i] = "absent") /\ owner' = None /\ GoTo(e, "over")

\* releaseIfDrained decides in one transaction: run again, or give up the row.
ReleaseOrContinue(e) ==
  \/ Pending # {} /\ GoTo(e, "gate") /\ UNCHANGED owner
  \/ Pending = {} /\ owner' = None /\ GoTo(e, "over")

ReleaseIfDrained(e) ==
  /\ stage[e] = "release" /\ place[e] = "draining"
  /\ ReleaseOrContinue(e)
  /\ UNCHANGED <<coordinators, failed, pausedBy, inbox, asks, operators>>

\* A mutated finalizer: the row stays with an interrupted drain.
KeepOwner(e) == UNCHANGED owner

GiveUpOwner(e) == owner' = IF owner = e THEN None ELSE owner

\* An interrupted drain releases the row whatever is pending.
Unwind(e) ==
  /\ place[e] = "unwinding" /\ stage[e] # "over"
  /\ GiveUpOwner(e)
  /\ GoTo(e, "over")
  /\ UNCHANGED <<coordinators, failed, pausedBy, inbox, asks, operators>>

EndDrain(e) ==
  /\ \/ place[e] = "draining" /\ stage[e] = "over" /\ C!Settle(e, IF failed[e] THEN "fail" ELSE "ok")
     \/ place[e] = "unwinding" /\ stage[e] = "over" /\ C!Settle(e, "interrupted")
     \/ place[e] = "cancelled" /\ C!Settle(e, "interrupted")
  /\ GoTo(e, "none")
  /\ UNCHANGED <<woken, failed, database, asks, operators>>

Submit(i) == ReadSession(i) \/ AdmitInput(i) \/ WakeDrain(i)
Operate(c) ==
  \/ PauseCheck(c) \/ PauseCommit(c) \/ StopDrain(c) \/ PauseReturns(c)
  \/ ResumeCheck(c) \/ ResumeCommit(c) \/ ResumeWake(c)
Drain(e) ==
  \/ BeginDrain(e) \/ Acquire(e) \/ Gate(e) \/ Promote(e) \/ RunnerEnds(e)
  \/ ReleaseIfDrained(e) \/ Unwind(e) \/ EndDrain(e)

Next ==
  \/ \E i \in Prompt : Submit(i)
  \/ \E c \in Operator : Operate(c)
  \/ \E e \in Entry : Drain(e)

\* A call that has begun goes on; when to submit, pause or resume is the callers'
\* choice.  Drains are scheduled, an interrupted one unwinds, and the provider
\* does not fail every time.
Fairness ==
  /\ \A i \in Prompt : WF_session(AdmitInput(i) \/ WakeDrain(i))
  /\ \A c \in Operator :
       WF_session(PauseCommit(c) \/ StopDrain(c) \/ PauseReturns(c) \/ ResumeCommit(c) \/ ResumeWake(c))
  /\ \A e \in Entry :
       /\ WF_session(Drain(e))
       /\ WF_session(Unwind(e))
       /\ SF_session(Promote(e))

Spec == Init /\ [][Next]_session
FairSpec == Spec /\ Fairness

-----------------------------------------------------------------------------
(* Properties. *)

\* The database, the drains and the callers keep their types.
TypeOK ==
  /\ C!TypeOK
  /\ pausedBy \in Operator \cup {None}
  /\ inbox \in [Prompt -> {"absent", "pending", "promoted"}]
  /\ owner \in Entry \cup {None}
  /\ stage \in [Entry -> {"none", "admit", "gate", "turn", "release", "over"}]
  /\ failed \in [Entry -> BOOLEAN]
  /\ asks \in [Prompt -> {"new", "hold", "run", "wake", "done"}]
  /\ site \in [Operator -> Proc \cup {None}]
  /\ step \in [Operator -> {"idle", "pausing", "stop", "stopping", "held", "resuming", "resumed", "done"}]

\* The owner row names the one drain that may run the Session, and no drain
\* that is over.
OwnerRuns ==
  \A e \in Entry :
    owner = e <=> stage[e] \in {"gate", "turn", "release"}

\* No operator has paused the Session.
Untouched == \A c \in Operator : step[c] \in {"idle", "pausing"}

\* It will look into the inbox: a drain that is to begin, that keeps a wake, or
\* that has not yet given up the owner row.
Attends(e) ==
  place[e] = "starting" \/ pendingWake[e] \/ stage[e] \in {"admit", "gate", "turn", "release"}

\* An input whose prompt has returned is never left behind: a drain is to look
\* into the inbox until it is promoted, also when the wake found the Session in
\* the hands of another process or of a drain that was about to fail.
NoInputIsStranded ==
  Untouched /\ (\E i \in Prompt : inbox[i] = "pending" /\ asks[i] = "done") => \E e \in Entry : Attends(e)

\* The coordinators, with the drains they are given here, are RunCoordinators.
CoordinatorSpec == C!Spec

\* What RunCoordinator assumes of the drains it is given, as long as nobody
\* pauses the Session: they end.
DrainsEnd == [](\A c \in Operator : step[c] = "idle") => C!Fairness

\* The operator whose pause is in force has returned from it.
Settled == Paused /\ step[pausedBy] \in {"held", "resuming"}

\* Once pause has returned, the drains of its process promote nothing until a
\* resume, not even a cycle that was in flight.
PausedIsQuiet ==
  [][Settled => \A i \in Prompt :
       inbox[i] = "pending" /\ inbox'[i] = "promoted" =>
         \E e \in Entry : owner = e /\ keyOf[e] # site[pausedBy]]_session

\* Every prompt is promoted, whatever process it came to and whatever failed on
\* the way, unless an operator intervenes.
PromptIsServed ==
  \A i \in Prompt :
    asks[i] = "done" ~> inbox[i] = "promoted" \/ \E c \in Operator : step[c] # "idle"

\* Inputs admitted by the time of a resume are promoted, unless the Session is
\* paused again.
ResumeServesHeld ==
  \A c \in Operator, i \in Prompt :
    step[c] = "resumed" /\ inbox[i] = "pending" ~> inbox[i] = "promoted" \/ Paused

\* A Session that stays paused comes to rest.
PausedComesToRest == <>[]Paused => <>[]Idle
=============================================================================
