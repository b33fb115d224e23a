---------------------------- MODULE ExecutionPerKey ----------------------------
(***************************************************************************)
(* What the interface of SessionRunCoordinator promises its callers: a key *)
(* has at most one execution, which concurrent resumes join and which      *)
(* answers them together; wakes coalesce into one follow-up; an interrupt  *)
(* drops the wakes before it and returns when the execution is over.       *)
(* Executions have no identity here.                                       *)
(***************************************************************************)
CONSTANTS Key, Caller, None

VARIABLES
  phase,    \* Key -> "idle", "asked", "running" or "stopping"
  again,    \* Key -> whether a follow-up is asked for
  doing,    \* Caller -> "idle", "join", "again", "halt" or "retry"
  wants,    \* Caller -> the key of its last call
  result    \* Caller -> how its run ended

execution == <<phase, again, doing, wants, result>>

Init ==
  /\ phase = [k \in Key |-> "idle"]
  /\ again = [k \in Key |-> FALSE]
  /\ doing = [c \in Caller |-> "idle"]
  /\ wants = [c \in Caller |-> None]
  /\ result = [c \in Caller |-> "none"]

Await(c, k, how) ==
  /\ doing' = [doing EXCEPT ![c] = how]
  /\ wants' = [wants EXCEPT ![c] = k]
  /\ result' = [result EXCEPT ![c] = "none"]

Ask(k) == phase[k] = "idle" /\ phase' = [phase EXCEPT ![k] = "asked"]

\* A caller runs the key, now or when the execution it waited for is over.
Run(c, k) ==
  /\ doing[c] = "idle" \/ (doing[c] = "retry" /\ wants[c] = k)
  /\ \/ Ask(k) /\ Await(c, k, "join")
     \/ phase[k] \in {"asked", "running"} /\ Await(c, k, "join") /\ UNCHANGED phase
     \/ phase[k] = "stopping" /\ Await(c, k, "again") /\ UNCHANGED phase
  /\ UNCHANGED again

GiveUp(c) ==
  /\ doing[c] \in {"join", "again"}
  /\ doing' = [doing EXCEPT ![c] = "idle"]
  /\ result' = [result EXCEPT ![c] = "abandoned"]
  /\ UNCHANGED <<phase, again, wants>>

Wake(k) ==
  /\ \/ Ask(k) /\ UNCHANGED again
     \/ phase[k] # "idle" /\ again' = [again EXCEPT ![k] = TRUE] /\ UNCHANGED phase
  /\ UNCHANGED <<doing, wants, result>>

Interrupt(c, k) ==
  /\ doing[c] = "idle" /\ phase[k] # "idle"
  /\ phase' = [phase EXCEPT ![k] = "stopping"]
  /\ again' = [again EXCEPT ![k] = FALSE]
  /\ Await(c, k, "halt")

Begin(k) ==
  /\ phase[k] = "asked"
  /\ phase' = [phase EXCEPT ![k] = "running"]
  /\ UNCHANGED <<again, doing, wants, result>>

Awaits(c, k) == doing[c] \in {"join", "again", "halt"} /\ wants[c] = k

FollowUp(k) ==
  /\ phase' = [phase EXCEPT ![k] = IF again[k] THEN "asked" ELSE "idle"]
  /\ again' = [again EXCEPT ![k] = FALSE]

\* It succeeds with a follow-up to do: those who wait go on waiting.
GoOn(k) ==
  /\ phase[k] = "running" /\ again[k]
  /\ FollowUp(k)
  /\ UNCHANGED <<doing, wants, result>>

\* It is over, and all who wait for the key hear of it, whether or not another
\* execution follows.
End(k, exit) ==
  /\ \/ phase[k] = "running" /\ exit \in {"ok", "fail"} /\ (exit = "ok" => ~again[k])
     \/ phase[k] = "stopping" /\ exit \in {"ok", "fail", "interrupted"}
  /\ FollowUp(k)
  /\ doing' = [c \in Caller |->
       IF ~Awaits(c, k) THEN doing[c]
       ELSE IF doing[c] = "again" /\ exit = "ok" THEN "retry" ELSE "idle"]
  /\ result' = [c \in Caller |->
       IF ~Awaits(c, k) THEN result[c]
       ELSE IF doing[c] = "halt" THEN "ok"
       ELSE IF doing[c] = "again" /\ exit = "ok" THEN "none" ELSE exit]
  /\ UNCHANGED wants

Next ==
  \/ \E c \in Caller : GiveUp(c) \/ (\E k \in Key : Run(c, k) \/ Interrupt(c, k))
  \/ \E k \in Key : Wake(k) \/ Begin(k) \/ GoOn(k)
  \/ \E k \in Key, exit \in {"ok", "fail", "interrupted"} : End(k, exit)

Spec == Init /\ [][Next]_execution
=============================================================================
