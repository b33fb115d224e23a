---------------------------- MODULE RunCoordinator ----------------------------
(***************************************************************************)
(* SessionRunCoordinator (packages/core/src/session/run-coordinator.ts):   *)
(* one execution for each key of a process, joined by concurrent resumes,  *)
(* with wakes that coalesce into one follow-up and interrupts that stop    *)
(* it.  The code between two awaits of a fiber is one step.  A closed      *)
(* scope (the process shuts the service down) is left out.                 *)
(***************************************************************************)
EXTENDS Naturals, FiniteSets

CONSTANTS
  Key,      \* what executes: the Sessions
  Caller,   \* fibers that call run, wake or interrupt
  Entry,    \* bound: a pool of Entry objects, each used again when it is free
  None

ASSUME EntryAssumption == None \notin Entry /\ None \notin Key

VARIABLES
  active,                \* the map from keys to entries
  \* the fields of an entry and where its owner fiber stands
  keyOf, place, force, pendingWake, stopping,
  \* callers: what they do, the entry and key of it, and how a run ended
  doing, on, wants, result,
  woken                  \* history: a wake since the last interrupt, and whether a drain began after it

entry == <<keyOf, place, force, pendingWake, stopping>>
caller == <<doing, on, wants, result>>
coordinator == <<active, entry, caller, woken>>

Exit == {"ok", "fail", "interrupted"}

Init ==
  /\ active = [k \in Key |-> None]
  /\ keyOf = [e \in Entry |-> None]
  /\ place = [e \in Entry |-> "free"]
  /\ force = [e \in Entry |-> FALSE]
  /\ pendingWake = [e \in Entry |-> FALSE]
  /\ stopping = [e \in Entry |-> FALSE]
  /\ doing = [c \in Caller |-> "idle"]
  /\ on = [c \in Caller |-> None]
  /\ wants = [c \in Caller |-> None]
  /\ result = [c \in Caller |-> "none"]
  /\ woken = [k \in Key |-> "no"]

Live(e) == place[e] # "free"

\* makeEntry and start: the owner fiber waits for its first turn.
StartEntry(k, e, forced) ==
  /\ ~Live(e)
  /\ active' = [active EXCEPT ![k] = e]
  /\ keyOf' = [keyOf EXCEPT ![e] = k]
  /\ place' = [place EXCEPT ![e] = "starting"]
  /\ force' = [force EXCEPT ![e] = forced]
  /\ pendingWake' = [pendingWake EXCEPT ![e] = FALSE]
  /\ stopping' = [stopping EXCEPT ![e] = FALSE]

Wait(c, k, e, how) ==
  /\ doing' = [doing EXCEPT ![c] = how]
  /\ on' = [on EXCEPT ![c] = e]
  /\ wants' = [wants EXCEPT ![c] = k]
  /\ result' = [result EXCEPT ![c] = "none"]

\* A caller joins the execution, waits for a stopping one to end, or starts one.
Join(c, k) ==
  \/ /\ active[k] = None
     /\ \E e \in Entry : StartEntry(k, e, TRUE) /\ Wait(c, k, e, "join")
  \/ /\ active[k] # None
     /\ Wait(c, k, active[k], IF stopping[active[k]] THEN "again" ELSE "join")
     /\ UNCHANGED <<active, entry>>

Run(c, k) ==
  /\ doing[c] = "idle"
  /\ Join(c, k)
  /\ UNCHANGED woken

\* The execution a run waited for is over: it calls run again.
Retry(c) ==
  /\ doing[c] = "retry"
  /\ Join(c, wants[c])
  /\ UNCHANGED woken

\* A caller that waits is interrupted itself; the execution goes on.
GiveUp(c) ==
  /\ doing[c] \in {"join", "again"}
  /\ doing' = [doing EXCEPT ![c] = "idle"]
  /\ on' = [on EXCEPT ![c] = None]
  /\ result' = [result EXCEPT ![c] = "abandoned"]
  /\ UNCHANGED <<active, entry, wants, woken>>

\* A mutated wake: it starts an execution even while one is active.
WakeAlwaysStarts(k) == \E e \in Entry : StartEntry(k, e, FALSE)

\* One coalesced follow-up of an execution, or an execution.
RequestDrain(k) ==
  \/ active[k] = None /\ \E e \in Entry : StartEntry(k, e, FALSE)
  \/ /\ active[k] # None
     /\ pendingWake' = [pendingWake EXCEPT ![active[k]] = TRUE]
     /\ UNCHANGED <<active, keyOf, place, force, stopping>>

Wake(k) ==
  /\ RequestDrain(k)
  /\ woken' = [woken EXCEPT ![k] = "asked"]
  /\ UNCHANGED caller

-----------------------------------------------------------------------------
(* The end of an execution. *)

\* A mutated completion: those who wait are never told.
ResolvedNobody(e, exit) == UNCHANGED caller

\* Entry e is over with this exit for those who wait for it: joined runs get
\* the exit, an interrupt its end, and a run that came while it was stopping
\* goes on after a success only (andThen).
Resolved(e, exit) ==
  /\ doing' = [c \in Caller |->
       IF on[c] # e THEN doing[c]
       ELSE IF doing[c] = "again" /\ exit = "ok" THEN "retry" ELSE "idle"]
  /\ result' = [c \in Caller |->
       IF on[c] # e THEN result[c]
       ELSE CASE doing[c] = "join" -> exit
              [] doing[c] = "again" -> IF exit = "ok" THEN "none" ELSE exit
              [] OTHER -> "ok"]
  /\ on' = [c \in Caller |-> IF on[c] = e THEN None ELSE on[c]]
  /\ UNCHANGED wants

\* settle, for one more drain of the same entry.
Restart(e) ==
  /\ place' = [place EXCEPT ![e] = "starting"]
  /\ force' = [force EXCEPT ![e] = FALSE]
  /\ pendingWake' = [pendingWake EXCEPT ![e] = FALSE]
  /\ UNCHANGED <<active, keyOf, stopping, caller>>

\* settle, for a wake that a failed or stopped execution leaves behind.
Succeed(e, exit) ==
  LET k == keyOf[e] IN
  /\ \E s \in Entry :
       /\ ~Live(s)
       /\ active' = [active EXCEPT ![k] = s]
       /\ keyOf' = [keyOf EXCEPT ![s] = k, ![e] = None]
       /\ place' = [place EXCEPT ![s] = "starting", ![e] = "free"]
  /\ force' = [force EXCEPT ![e] = FALSE]
  /\ pendingWake' = [pendingWake EXCEPT ![e] = FALSE]
  /\ stopping' = [stopping EXCEPT ![e] = FALSE]
  /\ Resolved(e, exit)

\* settle, when nothing is left to do.
Leave(e, exit) ==
  /\ active' = [active EXCEPT ![keyOf[e]] = None]
  /\ keyOf' = [keyOf EXCEPT ![e] = None]
  /\ place' = [place EXCEPT ![e] = "free"]
  /\ force' = [force EXCEPT ![e] = FALSE]
  /\ pendingWake' = [pendingWake EXCEPT ![e] = FALSE]
  /\ stopping' = [stopping EXCEPT ![e] = FALSE]
  /\ Resolved(e, exit)

\* A mutated settle: a wake during an execution that fails is forgotten.
SettleForgettingWake(e, exit) ==
  IF exit = "ok" /\ ~stopping[e] /\ pendingWake[e] THEN Restart(e) ELSE Leave(e, exit)

\* A mutated settle: a stopping execution goes on like any other.
SettleIgnoringStop(e, exit) ==
  \/ pendingWake[e] /\ Restart(e)
  \/ ~pendingWake[e] /\ Leave(e, exit)

\* A successful execution that was woken goes on as the same entry; a failed or
\* stopped one hands the wake to a successor and resolves those who wait.
Settle(e, exit) ==
  LET goesOn == exit = "ok" /\ ~stopping[e] /\ pendingWake[e] IN
  \/ goesOn /\ Restart(e)
  \/ ~goesOn /\ pendingWake[e] /\ Succeed(e, exit)
  \/ ~pendingWake[e] /\ Leave(e, exit)

-----------------------------------------------------------------------------
(* The owner fiber of an entry. *)

Begin(e) ==
  /\ place[e] = "starting"
  /\ place' = [place EXCEPT ![e] = "draining"]
  /\ woken' = [woken EXCEPT ![keyOf[e]] = IF @ = "asked" THEN "served" ELSE @]
  /\ UNCHANGED <<active, keyOf, force, pendingWake, stopping, caller>>

\* A drain may end in any way; one that is interrupted unwinds first.
EndDrain(e) ==
  /\ \/ place[e] = "draining" /\ \E exit \in {"ok", "fail"} : Settle(e, exit)
     \/ place[e] = "unwinding" /\ \E exit \in Exit : Settle(e, exit)
  /\ UNCHANGED woken

\* A mutated stop: the wakes so far survive it.
StopKeepingWake(c, k) ==
  /\ stopping' = [stopping EXCEPT ![active[k]] = TRUE]
  /\ place' = [place EXCEPT ![active[k]] = IF @ \in {"starting", "cancelled"} THEN "cancelled" ELSE "unwinding"]
  /\ Wait(c, k, active[k], "halt")
  /\ UNCHANGED <<active, keyOf, force, pendingWake>>

\* The entry stops; a fiber that has not run the drain yet never will.
Stop(c, k) ==
  /\ pendingWake' = [pendingWake EXCEPT ![active[k]] = FALSE]
  /\ stopping' = [stopping EXCEPT ![active[k]] = TRUE]
  /\ place' = [place EXCEPT ![active[k]] = IF @ \in {"starting", "cancelled"} THEN "cancelled" ELSE "unwinding"]
  /\ Wait(c, k, active[k], "halt")
  /\ UNCHANGED <<active, keyOf, force>>

\* A mutated interrupt: it does not look whether anything is active.
InterruptUnchecked(c, k) ==
  /\ doing[c] = "idle"
  /\ Stop(c, k)
  /\ woken' = [woken EXCEPT ![k] = "no"]

\* interrupt: drops the wakes so far and waits until the owner fiber is over.
Interrupt(c, k) ==
  /\ doing[c] = "idle"
  /\ active[k] # None
  /\ Stop(c, k)
  /\ woken' = [woken EXCEPT ![k] = "no"]

\* A fiber that was interrupted before it ran the drain ends without it.
EndCancelled(e) ==
  /\ place[e] = "cancelled"
  /\ Settle(e, "interrupted")
  /\ UNCHANGED woken

Next ==
  \/ \E c \in Caller, k \in Key : Run(c, k) \/ Interrupt(c, k)
  \/ \E c \in Caller : Retry(c) \/ GiveUp(c)
  \/ \E k \in Key : Wake(k)
  \/ \E e \in Entry : Begin(e) \/ EndDrain(e) \/ EndCancelled(e)

\* Forked fibers are scheduled, and the drains this coordinator is given end.
Fairness ==
  /\ \A e \in Entry : WF_coordinator(Begin(e)) /\ WF_coordinator(EndDrain(e) \/ EndCancelled(e))
  /\ \A c \in Caller : WF_coordinator(Retry(c))

Spec == Init /\ [][Next]_coordinator
FairSpec == Spec /\ Fairness

-----------------------------------------------------------------------------
(* Properties. *)

\* The map, the entries and the callers keep their types; a caller that waits
\* waits for an entry.
TypeOK ==
  /\ active \in [Key -> Entry \cup {None}]
  /\ keyOf \in [Entry -> Key \cup {None}]
  /\ place \in [Entry -> {"free", "starting", "draining", "unwinding", "cancelled"}]
  /\ force \in [Entry -> BOOLEAN]
  /\ pendingWake \in [Entry -> BOOLEAN]
  /\ stopping \in [Entry -> BOOLEAN]
  /\ doing \in [Caller -> {"idle", "join", "again", "halt", "retry"}]
  /\ on \in [Caller -> Entry \cup {None}]
  /\ wants \in [Caller -> Key \cup {None}]
  /\ result \in [Caller -> Exit \cup {"none", "abandoned"}]
  /\ woken \in [Key -> {"no", "asked", "served"}]
  /\ \A c \in Caller : on[c] = None <=> doing[c] \in {"idle", "retry"}
  /\ \A c \in Caller : doing[c] # "idle" => wants[c] \in Key

\* Executions of one key are serialized: every execution that is not over is
\* the one the map shows, so a key has at most one.
OneExecution ==
  \A e \in Entry : Live(e) => keyOf[e] \in Key /\ active[keyOf[e]] = e

\* Nobody waits for an execution that is over, or for one of another key.
WaitersAreServed ==
  \A c \in Caller : doing[c] \in {"join", "again", "halt"} =>
    on[c] \in Entry /\ Live(on[c]) /\ keyOf[on[c]] = wants[c]

\* A wake is remembered until a drain begins after it or an interrupt drops it.
WakeIsKept ==
  \A k \in Key : woken[k] = "asked" =>
    /\ active[k] # None
    /\ pendingWake[active[k]] \/ place[active[k]] = "starting"

\* Nothing executes unasked: a start goes back to a run, or to a wake that no
\* interrupt has dropped.
StartIsAsked ==
  \A e \in Entry : place[e] = "starting" => force[e] \/ woken[keyOf[e]] # "no"

\* A drain begins after every wake that is not dropped, whatever execution was
\* in progress and however it ends.
WakeIsServed == \A k \in Key : woken[k] = "asked" ~> woken[k] # "asked"

\* An interrupt returns, however many wakes and resumes keep coming.
InterruptReturns == \A c \in Caller : doing[c] = "halt" ~> doing[c] # "halt"

\* What the callers of a key see of it: the phase and the wake of the entry the map
\* shows.
Phase(k) ==
  IF active[k] = None THEN "idle"
  ELSE CASE place[active[k]] = "starting" -> "asked"
         [] place[active[k]] = "draining" -> "running"
         [] OTHER -> "stopping"

Again(k) == active[k] # None /\ pendingWake[active[k]]

PerKey == INSTANCE ExecutionPerKey WITH
  phase <- [k \in Key |-> Phase(k)],
  again <- [k \in Key |-> Again(k)]

\* Entries that replace each other, owner fibers and settle implement one serialized
\* execution for each key: runs join it or wait for its end, wakes coalesce, and an
\* interrupt drops what was asked before it (run, wake, interrupt, settle).
PerKeySpec == PerKey!Spec
=============================================================================
