------------------------- MODULE RunCoordinatorProofs -------------------------
(***************************************************************************)
(* For any sets of keys, callers and entries: executions of one key are    *)
(* serialized, no wake is lost, nothing starts unasked, whoever waits is   *)
(* answered, and all of it together implements ExecutionPerKey.            *)
(***************************************************************************)
EXTENDS RunCoordinator, TLAPS

USE DEF entry, caller

\* The map shows entries that are not over, under their own key.
MapIsLive == \A k \in Key : active[k] # None => Live(active[k]) /\ keyOf[active[k]] = k

Inv == TypeOK /\ OneExecution /\ MapIsLive /\ WakeIsKept

\* Nothing executes initially.
LEMMA InitInv == Init => Inv
BY DEF Init, Inv, TypeOK, OneExecution, MapIsLive, WakeIsKept, Live

\* An entry that starts is the only one of its key.
LEMMA StartKeeps ==
  ASSUME Inv, NEW k \in Key, NEW e \in Entry, NEW f \in BOOLEAN,
         active[k] = None, StartEntry(k, e, f)
  PROVE  OneExecution' /\ MapIsLive'
           /\ active' \in [Key -> Entry \cup {None}]
           /\ keyOf' \in [Entry -> Key \cup {None}]
           /\ place' \in [Entry -> {"free", "starting", "draining", "unwinding", "cancelled"}]
           /\ force' \in [Entry -> BOOLEAN]
           /\ pendingWake' \in [Entry -> BOOLEAN]
           /\ stopping' \in [Entry -> BOOLEAN]
           /\ active'[k] = e /\ place'[e] = "starting"
           /\ \A z \in Key : z # k => active'[z] = active[z]
           /\ \A g \in Entry : g # e => place'[g] = place[g] /\ pendingWake'[g] = pendingWake[g]
<1> USE EntryAssumption DEF Inv
<1>1. /\ active' \in [Key -> Entry \cup {None}]
      /\ keyOf' \in [Entry -> Key \cup {None}]
      /\ place' \in [Entry -> {"free", "starting", "draining", "unwinding", "cancelled"}]
      /\ force' \in [Entry -> BOOLEAN]
      /\ pendingWake' \in [Entry -> BOOLEAN]
      /\ stopping' \in [Entry -> BOOLEAN]
  BY DEF TypeOK, StartEntry
<1>2. /\ active'[k] = e /\ place'[e] = "starting"
      /\ \A z \in Key : z # k => active'[z] = active[z]
      /\ \A g \in Entry : g # e => place'[g] = place[g] /\ pendingWake'[g] = pendingWake[g]
  BY DEF TypeOK, StartEntry
<1>3. keyOf'[e] = k /\ \A g \in Entry : g # e => keyOf'[g] = keyOf[g]
  BY DEF TypeOK, StartEntry
<1>4. \A g \in Entry : Live(g) => keyOf[g] # k /\ g # e
  BY DEF StartEntry, OneExecution
<1>5. OneExecution'
  BY <1>2, <1>3, <1>4 DEF OneExecution, Live
<1>6. MapIsLive'
  BY <1>2, <1>3, <1>4 DEF MapIsLive, TypeOK, Live
<1> QED BY <1>1, <1>2, <1>5, <1>6

\* A run joins, waits or starts.
LEMMA JoinKeeps ==
  ASSUME Inv, NEW c \in Caller, NEW k \in Key, Join(c, k), UNCHANGED woken
  PROVE  Inv'
<1>1. CASE active[k] = None
  <2>1. PICK e \in Entry : StartEntry(k, e, TRUE) /\ Wait(c, k, e, "join")
    BY <1>1 DEF Join
  <2>2. TypeOK'
    <3>1. woken' = woken
      OBVIOUS
    <3>2. /\ doing' = [doing EXCEPT ![c] = "join"] /\ on' = [on EXCEPT ![c] = e]
          /\ wants' = [wants EXCEPT ![c] = k] /\ result' = [result EXCEPT ![c] = "none"]
      BY <2>1 DEF Wait
    <3>3. /\ active' \in [Key -> Entry \cup {None}]
          /\ keyOf' \in [Entry -> Key \cup {None}]
          /\ place' \in [Entry -> {"free", "starting", "draining", "unwinding", "cancelled"}]
          /\ force' \in [Entry -> BOOLEAN]
          /\ pendingWake' \in [Entry -> BOOLEAN]
          /\ stopping' \in [Entry -> BOOLEAN]
      BY <1>1, <2>1, StartKeeps
    <3>4. /\ doing' \in [Caller -> {"idle", "join", "again", "halt", "retry"}]
          /\ on' \in [Caller -> Entry \cup {None}]
          /\ wants' \in [Caller -> Key \cup {None}]
          /\ result' \in [Caller -> Exit \cup {"none", "abandoned"}]
          /\ woken' \in [Key -> {"no", "asked", "served"}]
      BY <3>1, <3>2 DEF Inv, TypeOK
    <3>5. \A d \in Caller : on'[d] = None <=> doing'[d] \in {"idle", "retry"}
      BY <3>2, EntryAssumption DEF Inv, TypeOK
    <3>6. \A d \in Caller : doing'[d] # "idle" => wants'[d] \in Key
      BY <3>2 DEF Inv, TypeOK
    <3> QED BY <3>3, <3>4, <3>5, <3>6 DEF TypeOK
  <2>3. OneExecution' /\ MapIsLive'
    BY <1>1, <2>1, StartKeeps
  <2>4. WakeIsKept'
    <3> SUFFICES ASSUME NEW z \in Key, woken[z] = "asked"
                 PROVE  /\ active'[z] # None
                        /\ pendingWake'[active'[z]] \/ place'[active'[z]] = "starting"
      BY DEF WakeIsKept
    <3>1. z # k
      BY <1>1 DEF Inv, WakeIsKept
    <3>2. active'[z] = active[z] /\ active[z] # e /\ active[z] \in Entry
      BY <1>1, <2>1, <3>1, StartKeeps DEF Inv, WakeIsKept, MapIsLive, TypeOK, StartEntry
    <3>3. pendingWake'[active[z]] = pendingWake[active[z]] /\ place'[active[z]] = place[active[z]]
      BY <2>1, <3>2 DEF Inv, TypeOK, StartEntry
    <3> QED BY <3>2, <3>3 DEF Inv, WakeIsKept
  <2> QED BY <2>2, <2>3, <2>4 DEF Inv
<1>2. CASE active[k] # None
  <2>1. PICK how \in {"join", "again"} : Wait(c, k, active[k], how) /\ UNCHANGED <<active, entry>>
    BY <1>2 DEF Join
  <2>2. TypeOK'
    BY <1>2, <2>1, EntryAssumption DEF Inv, TypeOK, Wait
  <2>3. OneExecution' /\ MapIsLive' /\ WakeIsKept'
    BY <2>1 DEF Inv, OneExecution, MapIsLive, WakeIsKept, Live
  <2> QED BY <2>2, <2>3 DEF Inv
<1> QED BY <1>1, <1>2

\* A wake is recorded with the execution, or starts one.
LEMMA WakeKeeps ==
  ASSUME Inv, NEW k \in Key, Wake(k)
  PROVE  Inv'
<1>1. CASE active[k] = None
  <2>1. PICK e \in Entry : StartEntry(k, e, FALSE)
    BY <1>1 DEF Wake, RequestDrain
  <2>2. TypeOK'
    BY <1>1, <2>1, StartKeeps DEF Inv, TypeOK, Wake
  <2>3. OneExecution' /\ MapIsLive'
    BY <1>1, <2>1, StartKeeps
  <2>4. WakeIsKept'
    <3> SUFFICES ASSUME NEW z \in Key, woken'[z] = "asked"
                 PROVE  /\ active'[z] # None
                        /\ pendingWake'[active'[z]] \/ place'[active'[z]] = "starting"
      BY DEF WakeIsKept
    <3>1. CASE z = k
      BY <1>1, <2>1, <3>1, StartKeeps, EntryAssumption
    <3>2. CASE z # k
      <4>1. active'[z] = active[z] /\ active[z] # e /\ active[z] \in Entry /\ woken[z] = "asked"
        BY <1>1, <2>1, <3>2, StartKeeps
        DEF Inv, WakeIsKept, MapIsLive, TypeOK, StartEntry, Wake
      <4>2. pendingWake'[active[z]] = pendingWake[active[z]] /\ place'[active[z]] = place[active[z]]
        BY <2>1, <4>1 DEF Inv, TypeOK, StartEntry
      <4> QED BY <4>1, <4>2 DEF Inv, WakeIsKept
    <3> QED BY <3>1, <3>2
  <2> QED BY <2>2, <2>3, <2>4 DEF Inv
<1>2. CASE active[k] # None
  <2>1. /\ pendingWake' = [pendingWake EXCEPT ![active[k]] = TRUE]
        /\ UNCHANGED <<active, keyOf, place, force, stopping, caller>>
        /\ woken' = [woken EXCEPT ![k] = "asked"]
    BY <1>2 DEF Wake, RequestDrain
  <2>2. TypeOK'
    BY <2>1 DEF Inv, TypeOK
  <2>3. OneExecution' /\ MapIsLive'
    BY <2>1 DEF Inv, OneExecution, MapIsLive, Live
  <2>4. WakeIsKept'
    BY <1>2, <2>1, EntryAssumption DEF Inv, TypeOK, WakeIsKept
  <2> QED BY <2>2, <2>3, <2>4 DEF Inv
<1> QED BY <1>1, <1>2

\* Resolving those who wait keeps the types of the callers.
LEMMA ResolvedType ==
  ASSUME TypeOK, NEW e \in Entry, NEW exit \in Exit, Resolved(e, exit)
  PROVE  /\ doing' \in [Caller -> {"idle", "join", "again", "halt", "retry"}]
         /\ on' \in [Caller -> Entry \cup {None}]
         /\ wants' \in [Caller -> Key \cup {None}]
         /\ result' \in [Caller -> Exit \cup {"none", "abandoned"}]
         /\ \A c \in Caller : on'[c] = None <=> doing'[c] \in {"idle", "retry"}
         /\ \A c \in Caller : doing'[c] # "idle" => wants'[c] \in Key
BY EntryAssumption DEF TypeOK, Resolved, Exit

\* However an execution ends, a wake it was told of starts the next one.
LEMMA SettleKeeps ==
  ASSUME Inv, NEW e \in Entry, NEW exit \in Exit, Settle(e, exit),
         place[e] \in {"draining", "unwinding", "cancelled"}, UNCHANGED woken
  PROVE  Inv'
<1> DEFINE k == keyOf[e]
<1>1. k \in Key /\ active[k] = e
  BY DEF Inv, OneExecution, Live
<1>2. CASE Restart(e)
  BY <1>1, <1>2, EntryAssumption
  DEF Inv, Restart, TypeOK, OneExecution, MapIsLive, WakeIsKept, Live
<1>3. CASE Succeed(e, exit)
  <2>1. PICK s \in Entry :
          /\ ~Live(s)
          /\ active' = [active EXCEPT ![k] = s]
          /\ keyOf' = [keyOf EXCEPT ![s] = k, ![e] = None]
          /\ place' = [place EXCEPT ![s] = "starting", ![e] = "free"]
    BY <1>3 DEF Succeed
  <2>2. s # e
    BY <2>1 DEF Live
  <2>3. TypeOK'
    BY <1>1, <1>3, <2>1, ResolvedType DEF Inv, TypeOK, Succeed
  <2>4. OneExecution' /\ MapIsLive'
    BY <1>1, <2>1, <2>2, EntryAssumption DEF Inv, TypeOK, OneExecution, MapIsLive, Live
  <2>5. WakeIsKept'
    BY <1>1, <1>3, <2>1, <2>2, EntryAssumption
    DEF Inv, TypeOK, WakeIsKept, MapIsLive, Succeed, Live
  <2> QED BY <2>3, <2>4, <2>5 DEF Inv
<1>4. CASE Leave(e, exit) /\ ~pendingWake[e]
  <2>1. TypeOK'
    BY <1>1, <1>4, ResolvedType DEF Inv, TypeOK, Leave
  <2>2. OneExecution' /\ MapIsLive'
    BY <1>1, <1>4, EntryAssumption DEF Inv, TypeOK, OneExecution, MapIsLive, Live, Leave
  <2>3. WakeIsKept'
    <3> SUFFICES ASSUME NEW z \in Key, woken[z] = "asked"
                 PROVE  /\ active'[z] # None
                        /\ pendingWake'[active'[z]] \/ place'[active'[z]] = "starting"
      BY DEF WakeIsKept
    <3>1. /\ active[z] # None /\ active[z] \in Entry
          /\ pendingWake[active[z]] \/ place[active[z]] = "starting"
      BY DEF Inv, WakeIsKept, TypeOK
    <3>2. active[z] # e /\ z # k
      BY <1>1, <1>4, <3>1
    <3> QED BY <1>4, <3>1, <3>2 DEF Leave, Inv, TypeOK
  <2> QED BY <2>1, <2>2, <2>3 DEF Inv
<1> QED BY <1>2, <1>3, <1>4 DEF Settle

\* An interrupt drops the wakes of its own key only.
LEMMA InterruptKeeps ==
  ASSUME Inv, NEW c \in Caller, NEW k \in Key, Interrupt(c, k)
  PROVE  Inv'
<1>1. active[k] \in Entry /\ Live(active[k]) /\ keyOf[active[k]] = k
  BY DEF Inv, TypeOK, MapIsLive, Interrupt
<1>2. TypeOK'
  BY <1>1, EntryAssumption DEF Inv, TypeOK, Interrupt, Stop, Wait
<1>3. OneExecution' /\ MapIsLive'
  BY <1>1 DEF Inv, TypeOK, OneExecution, MapIsLive, Live, Interrupt, Stop
<1>4. WakeIsKept'
  BY <1>1 DEF Inv, TypeOK, WakeIsKept, MapIsLive, Interrupt, Stop
<1> QED BY <1>2, <1>3, <1>4 DEF Inv

\* Every step keeps the invariant.
LEMMA NextKeeps == Inv /\ [Next]_coordinator => Inv'
<1> SUFFICES ASSUME Inv, [Next]_coordinator PROVE Inv'
  OBVIOUS
<1>1. ASSUME NEW c \in Caller, NEW k \in Key, Run(c, k) PROVE Inv'
  BY <1>1, JoinKeeps DEF Run
<1>2. ASSUME NEW c \in Caller, NEW k \in Key, Interrupt(c, k) PROVE Inv'
  BY <1>2, InterruptKeeps
<1>3. ASSUME NEW c \in Caller, Retry(c) PROVE Inv'
  <2>1. wants[c] \in Key
    BY <1>3 DEF Retry, Inv, TypeOK
  <2> QED BY <1>3, <2>1, JoinKeeps DEF Retry
<1>4. ASSUME NEW c \in Caller, GiveUp(c) PROVE Inv'
  BY <1>4, EntryAssumption DEF GiveUp, Inv, TypeOK, OneExecution, MapIsLive, WakeIsKept, Live
<1>5. ASSUME NEW k \in Key, Wake(k) PROVE Inv'
  BY <1>5, WakeKeeps
<1>6. ASSUME NEW e \in Entry, Begin(e) PROVE Inv'
  <2>1. keyOf[e] \in Key /\ active[keyOf[e]] = e
    BY <1>6 DEF Begin, Inv, OneExecution, Live
  <2>2. TypeOK' /\ OneExecution' /\ MapIsLive'
    BY <1>6, <2>1 DEF Begin, Inv, TypeOK, OneExecution, MapIsLive, Live
  <2>3. WakeIsKept'
    BY <1>6, <2>1 DEF Begin, Inv, TypeOK, WakeIsKept, MapIsLive
  <2> QED BY <2>2, <2>3 DEF Inv
<1>7. ASSUME NEW e \in Entry, EndDrain(e) PROVE Inv'
  BY <1>7, SettleKeeps DEF EndDrain, Exit
<1>8. ASSUME NEW e \in Entry, EndCancelled(e) PROVE Inv'
  BY <1>8, SettleKeeps DEF EndCancelled, Exit
<1>9. CASE UNCHANGED coordinator
  BY <1>9 DEF coordinator, Inv, TypeOK, OneExecution, MapIsLive, WakeIsKept, Live
<1> QED BY <1>1, <1>2, <1>3, <1>4, <1>5, <1>6, <1>7, <1>8, <1>9 DEF Next

\* The inductive invariant of the coordinator.
LEMMA InvAlways == Spec => []Inv
<1>1. Init => Inv
  BY InitInv
<1>2. Inv /\ [Next]_coordinator => Inv'
  BY NextKeeps
<1> QED BY <1>1, <1>2, PTL DEF Spec

\* However many runs, wakes and interrupts race for a key, it has one execution.
THEOREM Serialized == Spec => []OneExecution
BY InvAlways, PTL DEF Inv

\* No wake is lost: one that no drain has begun after is recorded with the
\* execution in progress, or is about to begin one.
THEOREM NoLostWake == Spec => []WakeIsKept
BY InvAlways, PTL DEF Inv

-----------------------------------------------------------------------------
(* Those who wait, and why an execution starts. *)

\* A wake is recorded with an execution only until an interrupt drops it.
RecordedWakeIsAsked == \A e \in Entry : Live(e) /\ pendingWake[e] => woken[keyOf[e]] # "no"

Asked == WaitersAreServed /\ StartIsAsked /\ RecordedWakeIsAsked

\* Nobody waits initially.
LEMMA InitAsked == Init => Asked
BY DEF Init, Asked, WaitersAreServed, StartIsAsked, RecordedWakeIsAsked, Live

\* An entry that starts for a run, or for a wake, disturbs no other.
LEMMA StartKeepsAsked ==
  ASSUME Inv, Asked, NEW k \in Key, NEW e \in Entry, NEW f \in BOOLEAN,
         active[k] = None, StartEntry(k, e, f),
         \A z \in Key : woken'[z] = woken[z] \/ woken'[z] = "asked",
         f \/ woken'[k] = "asked"
  PROVE  /\ StartIsAsked' /\ RecordedWakeIsAsked'
         /\ Live(e)' /\ keyOf'[e] = k
         /\ \A g \in Entry : Live(g) => Live(g)' /\ keyOf'[g] = keyOf[g]
<1>1. /\ place' = [place EXCEPT ![e] = "starting"] /\ keyOf' = [keyOf EXCEPT ![e] = k]
      /\ force' = [force EXCEPT ![e] = f] /\ pendingWake' = [pendingWake EXCEPT ![e] = FALSE]
      /\ ~Live(e)
  BY DEF StartEntry
<1>2. /\ place'[e] = "starting" /\ keyOf'[e] = k /\ force'[e] = f /\ pendingWake'[e] = FALSE
      /\ \A g \in Entry : g # e => /\ place'[g] = place[g] /\ keyOf'[g] = keyOf[g]
                                   /\ force'[g] = force[g] /\ pendingWake'[g] = pendingWake[g]
  BY <1>1 DEF Inv, TypeOK
<1>3. \A g \in Entry : Live(g) => g # e /\ keyOf[g] \in Key
  BY <1>1 DEF Inv, OneExecution
<1>4. StartIsAsked'
  BY <1>2, <1>3 DEF Asked, StartIsAsked, Live
<1>5. RecordedWakeIsAsked'
  BY <1>2, <1>3 DEF Asked, RecordedWakeIsAsked, Live
<1> QED BY <1>2, <1>3, <1>4, <1>5 DEF Live

\* A run waits for the entry it joins or starts.
LEMMA JoinKeepsAsked ==
  ASSUME Inv, Asked, NEW c \in Caller, NEW k \in Key, Join(c, k), UNCHANGED woken
  PROVE  Asked'
<1>1. CASE active[k] = None
  <2>1. PICK e \in Entry : StartEntry(k, e, TRUE) /\ Wait(c, k, e, "join")
    BY <1>1 DEF Join
  <2>2. /\ StartIsAsked' /\ RecordedWakeIsAsked' /\ Live(e)' /\ keyOf'[e] = k
        /\ \A g \in Entry : Live(g) => Live(g)' /\ keyOf'[g] = keyOf[g]
    BY <1>1, <2>1, StartKeepsAsked
  <2>3. /\ doing' = [doing EXCEPT ![c] = "join"] /\ on' = [on EXCEPT ![c] = e]
        /\ wants' = [wants EXCEPT ![c] = k]
    BY <2>1 DEF Wait
  <2>4. WaitersAreServed'
    BY <2>2, <2>3 DEF Asked, WaitersAreServed, Inv, TypeOK
  <2> QED BY <2>2, <2>4 DEF Asked
<1>2. CASE active[k] # None
  <2>1. PICK how \in {"join", "again"} : Wait(c, k, active[k], how) /\ UNCHANGED <<active, entry>>
    BY <1>2 DEF Join
  <2>2. active[k] \in Entry /\ Live(active[k]) /\ keyOf[active[k]] = k
    BY <1>2 DEF Inv, TypeOK, MapIsLive
  <2>3. WaitersAreServed'
    BY <2>1, <2>2 DEF Asked, WaitersAreServed, Inv, TypeOK, Wait, Live
  <2>4. StartIsAsked' /\ RecordedWakeIsAsked'
    BY <2>1 DEF Asked, StartIsAsked, RecordedWakeIsAsked, Live
  <2> QED BY <2>3, <2>4 DEF Asked
<1> QED BY <1>1, <1>2

\* A wake starts an entry nobody waits for, or is recorded with a live one.
LEMMA WakeKeepsAsked ==
  ASSUME Inv, Asked, NEW k \in Key, Wake(k)
  PROVE  Asked'
<1>0. /\ woken'[k] = "asked" /\ \A z \in Key : woken'[z] = woken[z] \/ woken'[z] = "asked"
      /\ UNCHANGED caller
  BY DEF Wake, Inv, TypeOK
<1>1. CASE active[k] = None
  <2>1. PICK e \in Entry : StartEntry(k, e, FALSE)
    BY <1>1 DEF Wake, RequestDrain
  <2>2. /\ StartIsAsked' /\ RecordedWakeIsAsked'
        /\ \A g \in Entry : Live(g) => Live(g)' /\ keyOf'[g] = keyOf[g]
    BY <1>0, <1>1, <2>1, StartKeepsAsked
  <2>3. WaitersAreServed'
    BY <1>0, <2>2 DEF Asked, WaitersAreServed
  <2> QED BY <2>2, <2>3 DEF Asked
<1>2. CASE active[k] # None
  <2>1. /\ pendingWake' = [pendingWake EXCEPT ![active[k]] = TRUE]
        /\ UNCHANGED <<active, keyOf, place, force, stopping>>
    BY <1>2 DEF Wake, RequestDrain
  <2>2. active[k] \in Entry /\ keyOf[active[k]] = k
    BY <1>2 DEF Inv, TypeOK, MapIsLive
  <2>3. WaitersAreServed'
    BY <1>0, <2>1 DEF Asked, WaitersAreServed, Live
  <2>4. StartIsAsked'
    BY <1>0, <2>1 DEF Asked, StartIsAsked, Inv, OneExecution, Live
  <2>5. RecordedWakeIsAsked'
    BY <1>0, <2>1, <2>2 DEF Asked, RecordedWakeIsAsked, Inv, TypeOK, OneExecution, Live
  <2> QED BY <2>3, <2>4, <2>5 DEF Asked
<1> QED BY <1>1, <1>2

\* Whoever waits for an entry that is over is told, and the others wait on.
LEMMA ResolvedServes ==
  ASSUME Inv, Asked, NEW e \in Entry, NEW exit \in Exit, Resolved(e, exit),
         \A g \in Entry : Live(g) /\ g # e => Live(g)' /\ keyOf'[g] = keyOf[g]
  PROVE  WaitersAreServed'
<1> SUFFICES ASSUME NEW c \in Caller, doing'[c] \in {"join", "again", "halt"}
             PROVE  /\ on'[c] \in Entry /\ place'[on'[c]] # "free"
                    /\ keyOf'[on'[c]] = wants'[c]
  BY DEF WaitersAreServed, Live
<1>1. /\ doing'[c] = IF on[c] # e THEN doing[c]
                     ELSE IF doing[c] = "again" /\ exit = "ok" THEN "retry" ELSE "idle"
      /\ on'[c] = IF on[c] = e THEN None ELSE on[c]
      /\ wants' = wants
  BY DEF Resolved
<1>2. on[c] # e /\ on'[c] = on[c] /\ doing'[c] = doing[c]
  BY <1>1
<1>3. on[c] \in Entry /\ Live(on[c]) /\ keyOf[on[c]] = wants[c]
  BY <1>2 DEF Asked, WaitersAreServed
<1> QED BY <1>1, <1>2, <1>3 DEF Live

\* The end of an execution answers those who wait, and goes on only for a wake.
LEMMA SettleKeepsAsked ==
  ASSUME Inv, Asked, NEW e \in Entry, NEW exit \in Exit, Settle(e, exit), Live(e),
         UNCHANGED woken
  PROVE  Asked'
<1> DEFINE k == keyOf[e]
<1>1. k \in Key /\ active[k] = e
  BY DEF Inv, OneExecution
<1>2. CASE pendingWake[e] /\ Restart(e)
  <2>1. woken[k] # "no"
    BY <1>2 DEF Asked, RecordedWakeIsAsked
  <2>2. WaitersAreServed'
    BY <1>2 DEF Asked, WaitersAreServed, Restart, Inv, TypeOK, Live
  <2>3. StartIsAsked'
    BY <1>2, <2>1 DEF Asked, StartIsAsked, Restart, Inv, TypeOK
  <2>4. RecordedWakeIsAsked'
    BY <1>2, <2>1 DEF Asked, RecordedWakeIsAsked, Restart, Inv, TypeOK, Live
  <2> QED BY <2>2, <2>3, <2>4 DEF Asked
<1>3. CASE pendingWake[e] /\ Succeed(e, exit)
  <2>1. PICK s \in Entry :
          /\ ~Live(s)
          /\ keyOf' = [keyOf EXCEPT ![s] = k, ![e] = None]
          /\ place' = [place EXCEPT ![s] = "starting", ![e] = "free"]
    BY <1>3 DEF Succeed
  <2>2. s # e /\ woken[k] # "no"
    BY <1>3, <2>1 DEF Asked, RecordedWakeIsAsked
  <2>3. /\ place'[s] = "starting" /\ keyOf'[s] = k /\ place'[e] = "free"
        /\ \A g \in Entry \ {s, e} : place'[g] = place[g] /\ keyOf'[g] = keyOf[g]
    BY <2>1, <2>2 DEF Inv, TypeOK
  <2>4. /\ \A g \in Entry \ {e} : force'[g] = force[g] /\ pendingWake'[g] = pendingWake[g]
        /\ Resolved(e, exit) /\ pendingWake'[e] = FALSE
    BY <1>3 DEF Succeed, Inv, TypeOK
  <2>5. WaitersAreServed'
    BY <2>1, <2>3, <2>4, ResolvedServes DEF Live
  <2>6. StartIsAsked'
    BY <2>2, <2>3, <2>4 DEF Asked, StartIsAsked
  <2>7. RecordedWakeIsAsked'
    BY <2>2, <2>3, <2>4 DEF Asked, RecordedWakeIsAsked, Live
  <2> QED BY <2>5, <2>6, <2>7 DEF Asked
<1>4. CASE Leave(e, exit)
  <2>1. /\ place'[e] = "free"
        /\ \A g \in Entry \ {e} : /\ place'[g] = place[g] /\ keyOf'[g] = keyOf[g]
                                  /\ force'[g] = force[g] /\ pendingWake'[g] = pendingWake[g]
        /\ Resolved(e, exit)
    BY <1>4 DEF Leave, Inv, TypeOK
  <2>2. WaitersAreServed'
    BY <2>1, ResolvedServes DEF Live
  <2>3. StartIsAsked' /\ RecordedWakeIsAsked'
    BY <2>1 DEF Asked, StartIsAsked, RecordedWakeIsAsked, Live
  <2> QED BY <2>2, <2>3 DEF Asked
<1> QED BY <1>2, <1>3, <1>4 DEF Settle

\* An interrupt stops the execution whose wakes it drops.
LEMMA InterruptKeepsAsked ==
  ASSUME Inv, Asked, NEW c \in Caller, NEW k \in Key, Interrupt(c, k)
  PROVE  Asked'
<1> DEFINE e == active[k]
<1>1. e \in Entry /\ Live(e) /\ keyOf[e] = k
  BY DEF Inv, TypeOK, MapIsLive, Interrupt
<1>2. /\ pendingWake' = [pendingWake EXCEPT ![e] = FALSE]
      /\ place' = [place EXCEPT ![e] = IF @ \in {"starting", "cancelled"} THEN "cancelled" ELSE "unwinding"]
      /\ UNCHANGED <<keyOf, force>> /\ woken' = [woken EXCEPT ![k] = "no"]
      /\ doing' = [doing EXCEPT ![c] = "halt"] /\ on' = [on EXCEPT ![c] = e]
      /\ wants' = [wants EXCEPT ![c] = k]
  BY DEF Interrupt, Stop, Wait
<1>3. /\ place'[e] \in {"cancelled", "unwinding"} /\ pendingWake'[e] = FALSE
      /\ \A g \in Entry \ {e} : place'[g] = place[g] /\ pendingWake'[g] = pendingWake[g]
  BY <1>1, <1>2 DEF Inv, TypeOK
<1>4. \A g \in Entry \ {e} : Live(g) => keyOf[g] \in Key /\ woken'[keyOf[g]] = woken[keyOf[g]]
  BY <1>1, <1>2 DEF Inv, TypeOK, OneExecution
<1>5. WaitersAreServed'
  BY <1>1, <1>2, <1>3 DEF Asked, WaitersAreServed, Inv, TypeOK, Live
<1>6. StartIsAsked' /\ RecordedWakeIsAsked'
  BY <1>2, <1>3, <1>4 DEF Asked, StartIsAsked, RecordedWakeIsAsked, Live
<1> QED BY <1>5, <1>6 DEF Asked

\* Every step keeps those who wait and those who asked.
LEMMA NextKeepsAsked == Inv /\ Asked /\ [Next]_coordinator => Asked'
<1> SUFFICES ASSUME Inv, Asked, [Next]_coordinator PROVE Asked'
  OBVIOUS
<1>1. ASSUME NEW c \in Caller, NEW k \in Key, Run(c, k) PROVE Asked'
  BY <1>1, JoinKeepsAsked DEF Run
<1>2. ASSUME NEW c \in Caller, NEW k \in Key, Interrupt(c, k) PROVE Asked'
  BY <1>2, InterruptKeepsAsked
<1>3. ASSUME NEW c \in Caller, Retry(c) PROVE Asked'
  <2>1. wants[c] \in Key
    BY <1>3 DEF Retry, Inv, TypeOK
  <2> QED BY <1>3, <2>1, JoinKeepsAsked DEF Retry
<1>4. ASSUME NEW c \in Caller, GiveUp(c) PROVE Asked'
  BY <1>4 DEF GiveUp, Inv, TypeOK, Asked, WaitersAreServed, StartIsAsked, RecordedWakeIsAsked, Live
<1>5. ASSUME NEW k \in Key, Wake(k) PROVE Asked'
  BY <1>5, WakeKeepsAsked
<1>6. ASSUME NEW e \in Entry, Begin(e) PROVE Asked'
  <2>1. /\ place'[e] = "draining" /\ \A g \in Entry \ {e} : place'[g] = place[g]
        /\ \A z \in Key : woken[z] # "no" => woken'[z] # "no"
        /\ UNCHANGED <<keyOf, force, pendingWake, caller>> /\ Live(e)
    BY <1>6 DEF Begin, Inv, TypeOK, Live
  <2>2. \A g \in Entry : Live(g) => keyOf[g] \in Key
    BY DEF Inv, OneExecution
  <2>3. WaitersAreServed'
    BY <2>1 DEF Asked, WaitersAreServed, Live
  <2>4. StartIsAsked' /\ RecordedWakeIsAsked'
    BY <2>1, <2>2 DEF Asked, StartIsAsked, RecordedWakeIsAsked, Live
  <2> QED BY <2>3, <2>4 DEF Asked
<1>7. ASSUME NEW e \in Entry, EndDrain(e) PROVE Asked'
  BY <1>7, SettleKeepsAsked DEF EndDrain, Exit, Live
<1>8. ASSUME NEW e \in Entry, EndCancelled(e) PROVE Asked'
  BY <1>8, SettleKeepsAsked DEF EndCancelled, Exit, Live
<1>9. CASE UNCHANGED coordinator
  BY <1>9 DEF coordinator, Asked, WaitersAreServed, StartIsAsked, RecordedWakeIsAsked, Live
<1> QED BY <1>1, <1>2, <1>3, <1>4, <1>5, <1>6, <1>7, <1>8, <1>9 DEF Next

\* The second half of the invariant, which rests on the first.
LEMMA AskedAlways == Spec => []Asked
<1>1. Init => Inv /\ Asked
  BY InitInv, InitAsked
<1>2. Inv /\ Asked /\ [Next]_coordinator => Inv' /\ Asked'
  BY NextKeeps, NextKeepsAsked
<1> QED BY <1>1, <1>2, PTL DEF Spec

\* The map, the entries and the callers keep their types, and a caller waits
\* exactly when it has an entry to wait for.
THEOREM TypeCorrect == Spec => []TypeOK
BY InvAlways, PTL DEF Inv

\* Nobody is left behind on an execution that is over: settle answers the
\* joined runs, the interrupts and the runs to be repeated, whichever way it ends.
THEOREM NobodyIsForgotten == Spec => []WaitersAreServed
BY AskedAlways, PTL DEF Asked

\* An interrupt drops the wakes before it: what starts later goes back to a run
\* or to a wake that came after.
THEOREM NothingStartsUnasked == Spec => []StartIsAsked
BY AskedAlways, PTL DEF Asked

-----------------------------------------------------------------------------
(* The refinement of ExecutionPerKey: the entries are hidden.               *)

\* An entry is marked as stopping while its fiber is, and keeps no wake when it
\* is free.
Marked ==
  \A e \in Entry :
    /\ stopping[e] <=> place[e] \in {"unwinding", "cancelled"}
    /\ place[e] = "free" => ~pendingWake[e]

\* No entry is in use initially.
LEMMA InitMarked == Init => Marked
BY DEF Init, Marked

\* Every step that moves a fiber marks its entry.
LEMMA NextMarked == Inv /\ Marked /\ [Next]_coordinator => Marked'
<1> SUFFICES ASSUME Inv, Marked, [Next]_coordinator PROVE Marked'
  OBVIOUS
<1>1. ASSUME NEW k \in Key, NEW e \in Entry, NEW f \in BOOLEAN, StartEntry(k, e, f) PROVE Marked'
  BY <1>1 DEF StartEntry, Marked, Inv, TypeOK
<1>2. ASSUME UNCHANGED entry PROVE Marked'
  BY <1>2 DEF Marked
<1>3. ASSUME NEW c \in Caller, NEW k, k \in Key, Join(c, k) PROVE Marked'
  BY <1>1, <1>2, <1>3 DEF Join
<1>4. ASSUME NEW c \in Caller, NEW k \in Key, Interrupt(c, k) PROVE Marked'
  BY <1>4 DEF Interrupt, Stop, Marked, Inv, TypeOK, MapIsLive, Live
<1>5. ASSUME NEW k \in Key, Wake(k) PROVE Marked'
  <2>1. CASE active[k] = None
    BY <1>1, <1>5, <2>1 DEF Wake, RequestDrain
  <2>2. CASE active[k] # None
    <3>1. /\ pendingWake' = [pendingWake EXCEPT ![active[k]] = TRUE]
          /\ UNCHANGED <<place, stopping>>
      BY <1>5, <2>2 DEF Wake, RequestDrain
    <3>2. active[k] \in Entry /\ place[active[k]] # "free"
      BY <2>2 DEF Inv, TypeOK, MapIsLive, Live
    <3> QED BY <3>1, <3>2 DEF Marked, Inv, TypeOK
  <2> QED BY <2>1, <2>2
<1>6. ASSUME NEW e \in Entry, Begin(e) PROVE Marked'
  BY <1>6 DEF Begin, Marked, Inv, TypeOK
<1>7. ASSUME NEW e \in Entry, NEW exit, Settle(e, exit), Live(e) PROVE Marked'
  <2>1. CASE ~stopping[e] /\ Restart(e)
    BY <2>1 DEF Restart, Marked, Inv, TypeOK
  <2>2. CASE Succeed(e, exit)
    BY <2>2 DEF Succeed, Live, Marked, Inv, TypeOK
  <2>3. CASE Leave(e, exit)
    BY <2>3 DEF Leave, Marked, Inv, TypeOK
  <2> QED BY <1>7, <2>1, <2>2, <2>3 DEF Settle
<1>8. ASSUME NEW c \in Caller, Retry(c) PROVE Marked'
  BY <1>3, <1>8 DEF Retry, Inv, TypeOK
<1>9. ASSUME NEW c \in Caller, GiveUp(c) PROVE Marked'
  BY <1>2, <1>9 DEF GiveUp
<1>10. ASSUME NEW e \in Entry, EndDrain(e) \/ EndCancelled(e) PROVE Marked'
  BY <1>7, <1>10 DEF EndDrain, EndCancelled, Live
<1> QED BY <1>2, <1>3, <1>4, <1>5, <1>6, <1>8, <1>9, <1>10 DEF Next, Run, coordinator

\* The phase of a key whose entry a step leaves alone.
LEMMA PhaseKept ==
  ASSUME NEW z \in Key, active'[z] = active[z],
         active[z] # None =>
           place'[active[z]] = place[active[z]] /\ pendingWake'[active[z]] = pendingWake[active[z]]
  PROVE  Phase(z)' = Phase(z) /\ Again(z)' = Again(z)
BY DEF Phase, Again

\* An entry that starts takes its key from idle to asked.
LEMMA StartIsAsk ==
  ASSUME Inv, NEW k \in Key, NEW e \in Entry, NEW f \in BOOLEAN,
         active[k] = None, StartEntry(k, e, f)
  PROVE  /\ Phase(k) = "idle" /\ Phase(k)' = "asked"
         /\ \A z \in Key : (z # k => Phase(z)' = Phase(z)) /\ Again(z)' = Again(z)
<1>1. /\ active'[k] = e /\ place'[e] = "starting" /\ pendingWake'[e] = FALSE
      /\ \A z \in Key : z # k => active'[z] = active[z]
      /\ \A g \in Entry : g # e => place'[g] = place[g] /\ pendingWake'[g] = pendingWake[g]
  BY DEF StartEntry, Inv, TypeOK
<1>2. \A z \in Key : z # k => Phase(z)' = Phase(z) /\ Again(z)' = Again(z)
  <2> SUFFICES ASSUME NEW z \in Key, z # k PROVE Phase(z)' = Phase(z) /\ Again(z)' = Again(z)
    OBVIOUS
  <2>1. active[z] # None => active[z] \in Entry /\ active[z] # e
    BY DEF Inv, TypeOK, MapIsLive, StartEntry
  <2> QED BY <1>1, <2>1, PhaseKept
<1>3. Phase(k) = "idle" /\ Phase(k)' = "asked" /\ Again(k) = FALSE /\ Again(k)' = FALSE
  BY <1>1, EntryAssumption DEF Phase, Again
<1> QED BY <1>2, <1>3

\* A run asks or waits, whatever entry that takes.
LEMMA JoinRefines ==
  ASSUME Inv, Marked, NEW c \in Caller, NEW k \in Key, Join(c, k),
         doing[c] = "idle" \/ (doing[c] = "retry" /\ wants[c] = k)
  PROVE  PerKey!Run(c, k)
<1>1. CASE active[k] = None
  <2>1. PICK e \in Entry : StartEntry(k, e, TRUE) /\ Wait(c, k, e, "join")
    BY <1>1 DEF Join
  <2>2. /\ Phase(k) = "idle" /\ Phase(k)' = "asked"
        /\ \A z \in Key : (z # k => Phase(z)' = Phase(z)) /\ Again(z)' = Again(z)
    BY <1>1, <2>1, StartIsAsk
  <2>3. PerKey!Ask(k) /\ [z \in Key |-> Again(z)]' = [z \in Key |-> Again(z)]
    BY <2>2 DEF PerKey!Ask
  <2>4. PerKey!Await(c, k, "join")
    BY <2>1 DEF Wait, PerKey!Await
  <2> QED BY <2>3, <2>4 DEF PerKey!Run
<1>2. CASE active[k] # None
  <2>1. /\ Wait(c, k, active[k], IF stopping[active[k]] THEN "again" ELSE "join")
        /\ UNCHANGED <<active, entry>>
    BY <1>2 DEF Join
  <2>2. \A z \in Key : Phase(z)' = Phase(z) /\ Again(z)' = Again(z)
    BY <2>1, PhaseKept
  <2>3. IF stopping[active[k]] THEN Phase(k) = "stopping" ELSE Phase(k) \in {"asked", "running"}
    BY <1>2 DEF Inv, TypeOK, MapIsLive, Marked, Live, Phase
  <2>4. PerKey!Await(c, k, IF stopping[active[k]] THEN "again" ELSE "join")
    BY <2>1 DEF Wait, PerKey!Await
  <2> QED BY <2>2, <2>3, <2>4 DEF PerKey!Run
<1> QED BY <1>1, <1>2

\* A wake asks, or is kept with the execution.
LEMMA WakeRefines ==
  ASSUME Inv, NEW k \in Key, Wake(k)
  PROVE  PerKey!Wake(k)
<1>1. CASE active[k] = None
  <2>1. PICK e \in Entry : StartEntry(k, e, FALSE)
    BY <1>1 DEF Wake, RequestDrain
  <2>2. /\ Phase(k) = "idle" /\ Phase(k)' = "asked"
        /\ \A z \in Key : (z # k => Phase(z)' = Phase(z)) /\ Again(z)' = Again(z)
    BY <1>1, <2>1, StartIsAsk
  <2>3. PerKey!Ask(k) /\ [z \in Key |-> Again(z)]' = [z \in Key |-> Again(z)]
    BY <2>2 DEF PerKey!Ask
  <2> QED BY <2>3 DEF Wake, PerKey!Wake
<1>2. CASE active[k] # None
  <2>1. /\ pendingWake' = [pendingWake EXCEPT ![active[k]] = TRUE]
        /\ UNCHANGED <<active, place, doing, wants, result>>
    BY <1>2 DEF Wake, RequestDrain
  <2>2. active[k] \in Entry /\ Phase(k) # "idle"
    BY <1>2 DEF Inv, TypeOK, Phase
  <2>3. \A z \in Key : z # k => active[z] = None \/ active[z] # active[k]
    BY <1>2 DEF Inv, MapIsLive
  <2>4. \A z \in Key : Phase(z)' = Phase(z) /\ (z # k => Again(z)' = Again(z))
    BY <2>1, <2>3 DEF Phase, Again, Inv, TypeOK
  <2>5. Again(k)' = TRUE
    BY <1>2, <2>1, <2>2 DEF Again, Inv, TypeOK
  <2> QED BY <2>1, <2>2, <2>4, <2>5 DEF PerKey!Wake
<1> QED BY <1>1, <1>2

\* An interrupt stops the execution of its key and drops its wake.
LEMMA InterruptRefines ==
  ASSUME Inv, NEW c \in Caller, NEW k \in Key, Interrupt(c, k)
  PROVE  PerKey!Interrupt(c, k)
<1> DEFINE e == active[k]
<1>1. e \in Entry /\ place[e] # "free" /\ Phase(k) # "idle"
  BY DEF Interrupt, Inv, TypeOK, MapIsLive, Live, Phase
<1>2. /\ active' = active
      /\ pendingWake' = [pendingWake EXCEPT ![e] = FALSE]
      /\ place' = [place EXCEPT ![e] = IF @ \in {"starting", "cancelled"} THEN "cancelled" ELSE "unwinding"]
  BY DEF Interrupt, Stop
<1>3. \A z \in Key : z # k => active[z] = None \/ active[z] # e
  BY DEF Interrupt, Inv, MapIsLive
<1>4. \A z \in Key : z # k => Phase(z)' = Phase(z) /\ Again(z)' = Again(z)
  BY <1>2, <1>3 DEF Phase, Again, Inv, TypeOK
<1>5. Phase(k)' = "stopping" /\ Again(k)' = FALSE
  BY <1>1, <1>2 DEF Phase, Again, Interrupt, Inv, TypeOK
<1>6. PerKey!Await(c, k, "halt") /\ doing[c] = "idle"
  BY DEF Interrupt, Stop, Wait, PerKey!Await
<1> QED BY <1>1, <1>4, <1>5, <1>6 DEF PerKey!Interrupt

\* An entry that is over resolves exactly those who await its key.
LEMMA ResolvedAwaits ==
  ASSUME Inv, Asked, NEW e \in Entry, Live(e), NEW k \in Key, k = keyOf[e],
         NEW exit \in Exit, Resolved(e, exit)
  PROVE  /\ doing' = [c \in Caller |->
              IF ~PerKey!Awaits(c, k) THEN doing[c]
              ELSE IF doing[c] = "again" /\ exit = "ok" THEN "retry" ELSE "idle"]
         /\ result' = [c \in Caller |->
              IF ~PerKey!Awaits(c, k) THEN result[c]
              ELSE IF doing[c] = "halt" THEN "ok"
              ELSE IF doing[c] = "again" /\ exit = "ok" THEN "none" ELSE exit]
         /\ UNCHANGED wants
<1>1. active[k] = e
  BY DEF Inv, OneExecution
<1>2. ASSUME NEW c \in Caller PROVE on[c] = e <=> PerKey!Awaits(c, k)
  <2>1. CASE on[c] = e
    BY <2>1, EntryAssumption DEF Inv, TypeOK, Asked, WaitersAreServed, PerKey!Awaits
  <2>2. CASE PerKey!Awaits(c, k)
    BY <1>1, <2>2 DEF Inv, OneExecution, Asked, WaitersAreServed, PerKey!Awaits
  <2> QED BY <2>1, <2>2
<1>3. ASSUME NEW c \in Caller, on[c] = e PROVE doing[c] \in {"join", "again", "halt"}
  BY <1>2, <1>3 DEF PerKey!Awaits
<1>4. doing' = [c \in Caller |->
         IF ~PerKey!Awaits(c, k) THEN doing[c]
         ELSE IF doing[c] = "again" /\ exit = "ok" THEN "retry" ELSE "idle"]
  BY <1>2 DEF Resolved
<1>5. result' = [c \in Caller |->
         IF ~PerKey!Awaits(c, k) THEN result[c]
         ELSE IF doing[c] = "halt" THEN "ok"
         ELSE IF doing[c] = "again" /\ exit = "ok" THEN "none" ELSE exit]
  <2>1. \A c \in Caller : result'[c] =
         IF ~PerKey!Awaits(c, k) THEN result[c]
         ELSE IF doing[c] = "halt" THEN "ok"
         ELSE IF doing[c] = "again" /\ exit = "ok" THEN "none" ELSE exit
    BY <1>2, <1>3 DEF Resolved
  <2>2. result' = [c \in Caller |-> result'[c]]
    BY DEF Resolved
  <2> QED BY <2>1, <2>2
<1> QED BY <1>4, <1>5 DEF Resolved

\* A key that follows up, other keys being left alone.
LEMMA FollowsUp ==
  ASSUME NEW k \in Key,
         \A z \in Key : z # k => Phase(z)' = Phase(z) /\ Again(z)' = Again(z),
         Phase(k)' = (IF Again(k) THEN "asked" ELSE "idle"), Again(k)' = FALSE
  PROVE  PerKey!FollowUp(k)
<1>1. [z \in Key |-> Phase(z)]' = [[z \in Key |-> Phase(z)] EXCEPT ![k] = IF Again(k) THEN "asked" ELSE "idle"]
  OBVIOUS
<1>2. [z \in Key |-> Again(z)]' = [[z \in Key |-> Again(z)] EXCEPT ![k] = FALSE]
  OBVIOUS
<1> QED BY <1>1, <1>2 DEF PerKey!FollowUp

\* The end of an execution: it goes on in its entry, or answers and leaves its
\* wake to another.
LEMMA SettleRefines ==
  ASSUME Inv, Asked, Marked, NEW e \in Entry, NEW exit \in Exit, Settle(e, exit),
         \/ place[e] = "draining" /\ exit \in {"ok", "fail"}
         \/ place[e] \in {"unwinding", "cancelled"}
  PROVE  \E k \in Key : PerKey!GoOn(k) \/ PerKey!End(k, exit)
<1>1. PICK k \in Key : k = keyOf[e] /\ active[k] = e /\ Live(e)
  BY DEF Inv, OneExecution, Live
<1>2. /\ place[e] = "draining" => Phase(k) = "running"
      /\ place[e] # "draining" => Phase(k) = "stopping"
      /\ Again(k) <=> pendingWake[e]
  BY <1>1, EntryAssumption DEF Phase, Again
<1>3. \A z \in Key : z # k => active[z] = None \/ (active[z] \in Entry /\ active[z] # e /\ Live(active[z]))
  BY <1>1 DEF Inv, TypeOK, MapIsLive
<1>4. CASE Restart(e) /\ exit = "ok" /\ ~stopping[e] /\ pendingWake[e]
  <2>1. place[e] = "draining"
    BY <1>4 DEF Marked
  <2>2. /\ place' = [place EXCEPT ![e] = "starting"] /\ pendingWake' = [pendingWake EXCEPT ![e] = FALSE]
        /\ UNCHANGED <<active, doing, wants, result>>
    BY <1>4 DEF Restart
  <2>3. \A z \in Key : z # k => Phase(z)' = Phase(z) /\ Again(z)' = Again(z)
    BY <1>3, <2>2, PhaseKept DEF Inv, TypeOK
  <2>4. active'[k] = e /\ e # None /\ place'[e] = "starting" /\ pendingWake'[e] = FALSE
    BY <1>1, <2>2, EntryAssumption DEF Inv, TypeOK
  <2>5. Phase(k)' = "asked" /\ Again(k)' = FALSE
    BY <2>4 DEF Phase, Again
  <2>6. PerKey!FollowUp(k)
    BY <1>1, <1>2, <1>4, <2>3, <2>5, FollowsUp
  <2> QED BY <1>1, <1>2, <1>4, <2>1, <2>2, <2>6 DEF PerKey!GoOn
<1>7. ASSUME PerKey!FollowUp(k), Resolved(e, exit),
             place[e] = "draining" /\ exit = "ok" => ~pendingWake[e]
      PROVE  PerKey!End(k, exit)
  <2>1. \/ Phase(k) = "running" /\ exit \in {"ok", "fail"} /\ (exit = "ok" => ~Again(k))
        \/ Phase(k) = "stopping" /\ exit \in {"ok", "fail", "interrupted"}
    BY <1>2, <1>7 DEF Exit
  <2>2. [z \in Key |-> Phase(z)][k] = Phase(k) /\ [z \in Key |-> Again(z)][k] = Again(k)
    BY <1>1
  <2> QED BY <1>1, <1>7, <2>1, <2>2, ResolvedAwaits DEF PerKey!End
<1>5. CASE Succeed(e, exit) /\ pendingWake[e] /\ ~(exit = "ok" /\ ~stopping[e])
  <2>1. PICK s \in Entry :
          /\ ~Live(s)
          /\ active' = [active EXCEPT ![k] = s]
          /\ place' = [place EXCEPT ![s] = "starting", ![e] = "free"]
    BY <1>1, <1>5 DEF Succeed
  <2>2. s # e /\ pendingWake[s] = FALSE
    BY <1>1, <2>1 DEF Live, Marked, Inv, TypeOK
  <2>3. pendingWake' = [pendingWake EXCEPT ![e] = FALSE] /\ Resolved(e, exit)
    BY <1>5 DEF Succeed
  <2>4. \A z \in Key : z # k => Phase(z)' = Phase(z) /\ Again(z)' = Again(z)
    <3> SUFFICES ASSUME NEW z \in Key, z # k PROVE Phase(z)' = Phase(z) /\ Again(z)' = Again(z)
      OBVIOUS
    <3>1. active'[z] = active[z]
      BY <2>1 DEF Inv, TypeOK
    <3>2. ASSUME active[z] # None
          PROVE  place'[active[z]] = place[active[z]] /\ pendingWake'[active[z]] = pendingWake[active[z]]
      BY <1>3, <2>1, <2>3, <3>2 DEF Inv, TypeOK
    <3> QED BY <3>1, <3>2, PhaseKept
  <2>5. active'[k] = s /\ s # None /\ place'[s] = "starting" /\ pendingWake'[s] = FALSE
    BY <1>1, <2>1, <2>2, <2>3, EntryAssumption DEF Inv, TypeOK
  <2>6. Phase(k)' = "asked" /\ Again(k)' = FALSE
    BY <2>5 DEF Phase, Again
  <2>7. PerKey!FollowUp(k)
    BY <1>1, <1>2, <1>5, <2>4, <2>6, FollowsUp
  <2>8. exit = "ok" => place[e] # "draining"
    BY <1>5 DEF Marked
  <2> QED BY <1>7, <2>3, <2>7, <2>8
<1>6. CASE Leave(e, exit) /\ ~pendingWake[e]
  <2>1. /\ active' = [active EXCEPT ![k] = None]
        /\ place' = [place EXCEPT ![e] = "free"]
        /\ pendingWake' = [pendingWake EXCEPT ![e] = FALSE] /\ Resolved(e, exit)
    BY <1>1, <1>6 DEF Leave
  <2>2. \A z \in Key : z # k => Phase(z)' = Phase(z) /\ Again(z)' = Again(z)
    <3> SUFFICES ASSUME NEW z \in Key, z # k PROVE Phase(z)' = Phase(z) /\ Again(z)' = Again(z)
      OBVIOUS
    <3>1. active'[z] = active[z]
      BY <2>1 DEF Inv, TypeOK
    <3>2. ASSUME active[z] # None
          PROVE  place'[active[z]] = place[active[z]] /\ pendingWake'[active[z]] = pendingWake[active[z]]
      BY <1>3, <2>1, <3>2 DEF Inv, TypeOK
    <3> QED BY <3>1, <3>2, PhaseKept
  <2>3. active'[k] = None
    BY <1>1, <2>1 DEF Inv, TypeOK
  <2>4. Phase(k)' = "idle" /\ Again(k)' = FALSE
    BY <2>3 DEF Phase, Again
  <2>5. PerKey!FollowUp(k)
    BY <1>1, <1>2, <1>6, <2>2, <2>4, FollowsUp
  <2> QED BY <1>6, <1>7, <2>1, <2>5
<1> QED BY <1>4, <1>5, <1>6 DEF Settle

\* Every step of the coordinator is a step that ExecutionPerKey allows of one
\* key, or none that callers can tell.
THEOREM Refinement == Spec => PerKeySpec
<1>1. Init => PerKey!Init
  <2> SUFFICES ASSUME Init PROVE PerKey!Init
    OBVIOUS
  <2>1. \A k \in Key : Phase(k) = "idle" /\ Again(k) = FALSE
    BY DEF Init, Phase, Again
  <2> QED BY <2>1 DEF Init, PerKey!Init
<1>2. Inv /\ Asked /\ Marked /\ [Next]_coordinator => [PerKey!Next]_PerKey!execution
  <2> SUFFICES ASSUME Inv, Asked, Marked, [Next]_coordinator
               PROVE  PerKey!Next \/ UNCHANGED PerKey!execution
    OBVIOUS
  <2>1. ASSUME NEW c \in Caller, NEW k \in Key, Run(c, k) PROVE PerKey!Run(c, k)
    BY <2>1, JoinRefines DEF Run
  <2>2. ASSUME NEW c \in Caller, NEW k \in Key, Interrupt(c, k) PROVE PerKey!Interrupt(c, k)
    BY <2>2, InterruptRefines
  <2>3. ASSUME NEW c \in Caller, Retry(c) PROVE PerKey!Run(c, wants[c]) /\ wants[c] \in Key
    BY <2>3, JoinRefines DEF Retry, Inv, TypeOK
  <2>4. ASSUME NEW c \in Caller, GiveUp(c) PROVE PerKey!GiveUp(c)
    BY <2>4, PhaseKept DEF GiveUp, PerKey!GiveUp
  <2>5. ASSUME NEW k \in Key, Wake(k) PROVE PerKey!Wake(k)
    BY <2>5, WakeRefines
  <2>6. ASSUME NEW e \in Entry, Begin(e) PROVE \E k \in Key : PerKey!Begin(k)
    <3>1. PICK k \in Key : k = keyOf[e] /\ active[k] = e /\ e # None
      BY <2>6, EntryAssumption DEF Begin, Live, Inv, OneExecution
    <3>2. /\ place[e] = "starting" /\ place'[e] = "draining"
          /\ \A g \in Entry : g # e => place'[g] = place[g]
          /\ UNCHANGED <<active, pendingWake, doing, wants, result>>
      BY <2>6 DEF Begin, Inv, TypeOK
    <3>3. \A z \in Key : z # k => active[z] = None \/ (active[z] \in Entry /\ active[z] # e)
      BY <3>1 DEF Inv, TypeOK, MapIsLive
    <3>4. \A z \in Key : (z # k => Phase(z)' = Phase(z)) /\ Again(z)' = Again(z)
      BY <3>2, <3>3 DEF Phase, Again
    <3>5. Phase(k) = "asked" /\ Phase(k)' = "running"
      BY <3>1, <3>2 DEF Phase
    <3> QED BY <3>1, <3>2, <3>4, <3>5 DEF PerKey!Begin
  <2>7. ASSUME NEW e \in Entry, EndDrain(e) \/ EndCancelled(e) PROVE PerKey!Next
    <3>1. PICK exit \in Exit :
            /\ Settle(e, exit)
            /\ \/ place[e] = "draining" /\ exit \in {"ok", "fail"}
               \/ place[e] \in {"unwinding", "cancelled"}
      BY <2>7 DEF EndDrain, EndCancelled, Exit
    <3> QED BY <3>1, SettleRefines DEF PerKey!Next, Exit
  <2>8. ASSUME UNCHANGED coordinator PROVE UNCHANGED PerKey!execution
    BY <2>8, PhaseKept DEF coordinator, PerKey!execution
  <2> QED BY <2>1, <2>2, <2>3, <2>4, <2>5, <2>6, <2>7, <2>8 DEF Next, PerKey!Next
<1>3. Spec => []Marked
  <2>1. Inv /\ Marked /\ [Next]_coordinator => Marked'
    BY NextMarked
  <2> QED BY InitMarked, InvAlways, <2>1, PTL DEF Spec
<1> QED BY <1>1, <1>2, <1>3, InvAlways, AskedAlways, PTL DEF Spec, PerKeySpec, PerKey!Spec

-----------------------------------------------------------------------------
(* What the refinement says to the callers.                                 *)

\* Whoever is answered was waiting, and hears of it when the execution of the key it
\* waited for ends: with its exit, or with none where it is to run again.
EndAnswers(k, exit) ==
  /\ Phase(k) \in {"running", "stopping"} /\ Phase(k)' \in {"idle", "asked"}
  /\ \A c \in Caller :
       doing[c] \in {"join", "again", "halt"} /\ wants[c] = k =>
         /\ doing'[c] # doing[c]
         /\ doing[c] = "join" => doing'[c] = "idle" /\ result'[c] = exit

Answered(c) ==
  \E k \in Key, exit \in Exit : wants[c] = k /\ EndAnswers(k, exit)

LEMMA HowToAnswer ==
  ASSUME Inv, [PerKey!Next]_PerKey!execution, NEW c \in Caller,
         doing[c] \in {"join", "halt"}, doing'[c] # doing[c],
         doing[c] = "join" => result'[c] # "abandoned"
  PROVE  Answered(c)
<1> USE DEF Inv, TypeOK
<1>1. ~UNCHANGED PerKey!execution
  BY DEF PerKey!execution
<1>2. ASSUME NEW b \in Caller, PerKey!GiveUp(b) PROVE FALSE
  BY <1>2 DEF PerKey!GiveUp
<1>3. ASSUME NEW b \in Caller, NEW k \in Key, PerKey!Run(b, k) \/ PerKey!Interrupt(b, k) PROVE FALSE
  BY <1>3 DEF PerKey!Run, PerKey!Interrupt, PerKey!Await
<1>4. ASSUME NEW k \in Key, PerKey!Wake(k) \/ PerKey!Begin(k) \/ PerKey!GoOn(k) PROVE FALSE
  BY <1>4 DEF PerKey!Wake, PerKey!Begin, PerKey!GoOn
<1>5. ASSUME NEW k \in Key, NEW exit \in Exit, PerKey!End(k, exit)
      PROVE  k = wants[c] /\ EndAnswers(k, exit)
  <2>1. \A b \in Caller : doing'[b] = IF ~PerKey!Awaits(b, k) THEN doing[b]
                                     ELSE IF doing[b] = "again" /\ exit = "ok" THEN "retry" ELSE "idle"
    BY <1>5 DEF PerKey!End
  <2>2. k = wants[c]
    BY <2>1 DEF PerKey!Awaits
  <2>3. Phase(k) \in {"running", "stopping"}
    BY <1>5 DEF PerKey!End
  <2>4. Phase(k)' \in {"idle", "asked"}
    BY <1>5 DEF PerKey!End, PerKey!FollowUp
  <2>5. ASSUME NEW b \in Caller, doing[b] \in {"join", "again", "halt"}, wants[b] = k
        PROVE  doing'[b] # doing[b] /\ (doing[b] = "join" => doing'[b] = "idle" /\ result'[b] = exit)
    <3>1. PerKey!Awaits(b, k)
      BY <2>5 DEF PerKey!Awaits
    <3>2. result'[b] = IF doing[b] = "halt" THEN "ok"
                       ELSE IF doing[b] = "again" /\ exit = "ok" THEN "none" ELSE exit
      BY <1>5, <3>1 DEF PerKey!End
    <3> QED BY <2>1, <2>5, <3>1, <3>2
  <2> QED BY <2>2, <2>3, <2>4, <2>5 DEF EndAnswers
<1> QED BY <1>1, <1>2, <1>3, <1>4, <1>5 DEF PerKey!Next, Answered, Exit

\* Those who join one execution hear the same of it: when a run is answered, every
\* run that has joined the same key returns in the same step, with the same exit
\* (run joins the entry's Deferred, which settle completes once).
SharedAnswer ==
  \A c, d \in Caller :
    /\ doing[c] = "join" /\ doing[d] = "join" /\ wants[c] = wants[d]
    /\ doing'[c] = "idle" /\ result'[c] # "abandoned"
    => doing'[d] = "idle" /\ result'[d] = result'[c]

\* Concurrent runs of a key are answered together, whatever entries, drains, wakes and
\* interrupts come between.
THEOREM JoinersHearTheSame == Spec => [][SharedAnswer]_coordinator
<1>1. Inv /\ [PerKey!Next]_PerKey!execution => SharedAnswer
  <2> SUFFICES ASSUME Inv, [PerKey!Next]_PerKey!execution, NEW c \in Caller, NEW d \in Caller,
                      doing[c] = "join", doing[d] = "join", wants[c] = wants[d],
                      doing'[c] = "idle", result'[c] # "abandoned"
               PROVE  doing'[d] = "idle" /\ result'[d] = result'[c]
    BY DEF SharedAnswer
  <2>1. PICK k \in Key, exit \in Exit : wants[c] = k /\ EndAnswers(k, exit)
    BY HowToAnswer DEF Answered
  <2> QED BY <2>1 DEF EndAnswers
<1> QED BY <1>1, InvAlways, Refinement, PTL DEF PerKeySpec, PerKey!Spec

\* An interrupt waits for nothing but an execution that it has told to stop.
HaltsAreHeard ==
  \A c \in Caller : doing[c] = "halt" => wants[c] \in Key /\ Phase(wants[c]) = "stopping"

LEMMA HaltsStay ==
  ASSUME Inv, HaltsAreHeard, [PerKey!Next]_PerKey!execution
  PROVE  HaltsAreHeard'
<1> SUFFICES ASSUME NEW c \in Caller, doing'[c] = "halt"
             PROVE  wants'[c] \in Key /\ Phase(wants[c])' = "stopping"
  BY DEF HaltsAreHeard
<1> DEFINE Goal == wants'[c] \in Key /\ Phase(wants[c])' = "stopping"
           Same == doing[c] = "halt" /\ wants'[c] = wants[c]
           StopsStand == \A k \in Key : Phase(k) = "stopping" => Phase(k)' = "stopping"
<1> USE DEF Inv, TypeOK
<1>1. Same /\ StopsStand => Goal
  BY DEF HaltsAreHeard
<1>2. CASE UNCHANGED PerKey!execution
  <2>1. Same /\ StopsStand
    BY <1>2 DEF PerKey!execution
  <2> QED BY <1>1, <2>1
<1>3. ASSUME NEW b \in Caller, PerKey!GiveUp(b) PROVE Goal
  <2>1. Same /\ StopsStand
    BY <1>3 DEF PerKey!GiveUp
  <2> QED BY <1>1, <2>1
<1>4. ASSUME NEW b \in Caller, NEW k \in Key, PerKey!Run(b, k) PROVE Goal
  <2>1. Same
    BY <1>4 DEF PerKey!Run, PerKey!Await
  <2>2. CASE PerKey!Ask(k)
    <3>1. StopsStand
      BY <2>2 DEF PerKey!Ask
    <3> QED BY <1>1, <2>1, <3>1
  <2>3. CASE [z \in Key |-> Phase(z)]' = [z \in Key |-> Phase(z)]
    <3>1. \A x \in Key : Phase(x)' = [z \in Key |-> Phase(z)]'[x] /\ Phase(x) = [z \in Key |-> Phase(z)][x]
      OBVIOUS
    <3>2. StopsStand
      BY <2>3, <3>1
    <3> QED BY <1>1, <2>1, <3>2
  <2> QED BY <1>4, <2>2, <2>3 DEF PerKey!Run
<1>5. ASSUME NEW b \in Caller, NEW k \in Key, PerKey!Interrupt(b, k) PROVE Goal
  <2>1. Phase(k)' = "stopping" /\ StopsStand
    BY <1>5 DEF PerKey!Interrupt
  <2>2. IF b = c THEN wants'[c] = k ELSE Same
    BY <1>5 DEF PerKey!Interrupt, PerKey!Await
  <2> QED BY <1>1, <2>1, <2>2
<1>6. ASSUME NEW k \in Key, PerKey!Wake(k) PROVE Goal
  <2>1. Same /\ StopsStand
    BY <1>6 DEF PerKey!Wake, PerKey!Ask
  <2> QED BY <1>1, <2>1
<1>7. ASSUME NEW k \in Key, PerKey!Begin(k) \/ PerKey!GoOn(k) PROVE Goal
  <2>1. Same /\ StopsStand
    BY <1>7 DEF PerKey!Begin, PerKey!GoOn, PerKey!FollowUp
  <2> QED BY <1>1, <2>1
<1>8. ASSUME NEW k \in Key, NEW exit \in Exit, PerKey!End(k, exit) PROVE Goal
  <2>1. Same /\ wants[c] # k
    BY <1>8 DEF PerKey!End, PerKey!Awaits
  <2>2. \A x \in Key : x # k => Phase(x)' = Phase(x)
    BY <1>8 DEF PerKey!End, PerKey!FollowUp
  <2> QED BY <2>1, <2>2 DEF HaltsAreHeard
<1> QED BY <1>2, <1>3, <1>4, <1>5, <1>6, <1>7, <1>8 DEF PerKey!Next, Exit

\* An interrupt returns in the step in which the execution that it stopped is over,
\* and in no other: whoever interrupts a key may count on nothing of it to go on
\* afterwards, unless it is asked for anew (interrupt awaits the entry's Deferred).
HaltEnds ==
  \A c \in Caller : doing[c] = "halt" /\ doing'[c] # "halt" =>
    \E k \in Key : wants[c] = k /\ Phase(k) = "stopping" /\ Phase(k)' \in {"idle", "asked"}

\* An interrupt outlasts what it interrupts, whoever joins, wakes, gives up or
\* interrupts once more meanwhile.
THEOREM InterruptOutlasts == Spec => [][HaltEnds]_coordinator
<1>1. Spec => [][PerKey!Next]_PerKey!execution
  BY Refinement, PTL DEF PerKeySpec, PerKey!Spec
<1>2. Init => HaltsAreHeard
  BY DEF Init, HaltsAreHeard
<1>3. Inv /\ HaltsAreHeard /\ [PerKey!Next]_PerKey!execution => HaltsAreHeard'
  BY HaltsStay
<1>4. Inv /\ HaltsAreHeard /\ [PerKey!Next]_PerKey!execution => HaltEnds
  <2> SUFFICES ASSUME Inv, HaltsAreHeard, [PerKey!Next]_PerKey!execution,
                      NEW c \in Caller, doing[c] = "halt", doing'[c] # "halt"
               PROVE  \E k \in Key : /\ wants[c] = k
                                     /\ Phase(k) = "stopping" /\ Phase(k)' \in {"idle", "asked"}
    BY DEF HaltEnds
  <2>1. PICK k \in Key, exit \in Exit : wants[c] = k /\ EndAnswers(k, exit)
    BY HowToAnswer DEF Answered
  <2>2. Phase(k) = "stopping" /\ Phase(k)' \in {"idle", "asked"}
    BY <2>1 DEF EndAnswers, HaltsAreHeard
  <2> QED BY <2>1, <2>2
<1> QED BY <1>1, <1>2, <1>3, <1>4, InvAlways, PTL DEF Spec
=============================================================================
