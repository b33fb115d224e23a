----------------------------- MODULE DirectoryLock -----------------------------
(***************************************************************************)
(* What directory guards, activity leases and Session executions promise   *)
(* together: a directory has one maintainer or any number of users, and a  *)
(* maintainer takes and gives back all its directories at once.            *)
(***************************************************************************)
CONSTANTS Directory, Maintainer, User, None

VARIABLES
  maintainer,   \* Directory -> Maintainer, or None
  using         \* pairs of a user and the directory it works in

lock == <<maintainer, using>>

Init ==
  /\ maintainer = [d \in Directory |-> None]
  /\ using = {}

Take(m, D) ==
  /\ \A d \in Directory : maintainer[d] # m
  /\ \A d \in D : maintainer[d] = None /\ \A u \in User : <<u, d>> \notin using
  /\ maintainer' = [d \in Directory |-> IF d \in D THEN m ELSE maintainer[d]]
  /\ UNCHANGED using

GiveBack(m) ==
  /\ maintainer' = [d \in Directory |-> IF maintainer[d] = m THEN None ELSE maintainer[d]]
  /\ UNCHANGED using

Use(u, d) ==
  /\ maintainer[d] = None
  /\ using' = using \cup {<<u, d>>}
  /\ UNCHANGED maintainer

Leave(u) ==
  /\ using' = {pair \in using : pair[1] # u}
  /\ UNCHANGED maintainer

Next ==
  \/ \E m \in Maintainer : GiveBack(m) \/ \E D \in SUBSET Directory : Take(m, D)
  \/ \E u \in User : Leave(u) \/ \E d \in Directory : Use(u, d)

Spec == Init /\ [][Next]_lock
=============================================================================
