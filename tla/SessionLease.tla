----------------------------- MODULE SessionLease -----------------------------
(***************************************************************************)
(* What Session execution ownership promises, without saying how: a        *)
(* Session is held by at most one process, each grant is a new epoch, a    *)
(* lease that was lost is not granted again before a recovery (or a proof  *)
(* that nothing was done under it) frees it, and a lease that is in use is *)
(* never taken for recovery.                                               *)
(***************************************************************************)
EXTENDS Naturals

CONSTANTS Session, Process, None

VARIABLES
  phase,   \* "free", "held", "orphaned" or "recovering"
  epoch,   \* grants so far
  by       \* who holds or recovers the Session

lease == <<phase, epoch, by>>

Init ==
  /\ phase = [s \in Session |-> "free"]
  /\ epoch = [s \in Session |-> 0]
  /\ by = [s \in Session |-> None]

Become(s, ph, who) ==
  /\ phase' = [phase EXCEPT ![s] = ph]
  /\ by' = [by EXCEPT ![s] = who]

Grant(s, p) ==
  /\ phase[s] = "free"
  /\ Become(s, "held", p)
  /\ epoch' = [epoch EXCEPT ![s] = @ + 1]

Yield(s) == phase[s] = "held" /\ Become(s, "free", None) /\ UNCHANGED epoch

\* A process loses some or all of the Sessions it holds.
Lose(p) ==
  \E lost \in SUBSET {s \in Session : phase[s] = "held" /\ by[s] = p} :
    /\ phase' = [s \in Session |-> IF s \in lost THEN "orphaned" ELSE phase[s]]
    /\ by' = [s \in Session |-> IF s \in lost THEN None ELSE by[s]]
    /\ UNCHANGED epoch

\* A recovery starts, or is taken over from a recoverer that died.
Claim(s, p) ==
  /\ phase[s] \in {"orphaned", "recovering"}
  /\ Become(s, "recovering", p)
  /\ UNCHANGED epoch

Abandon(s) == phase[s] = "recovering" /\ Become(s, "orphaned", None) /\ UNCHANGED epoch

Free(s) ==
  /\ phase[s] \in {"orphaned", "recovering"}
  /\ Become(s, "free", None)
  /\ UNCHANGED epoch

Next ==
  \/ \E s \in Session : Yield(s) \/ Abandon(s) \/ Free(s)
  \/ \E s \in Session, p \in Process : Grant(s, p) \/ Claim(s, p)
  \/ \E p \in Process : Lose(p)

Spec == Init /\ [][Next]_lease
=============================================================================
