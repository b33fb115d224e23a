----------------------- MODULE MCSessionExecutionOwner -----------------------
(***************************************************************************)
(* Instances of SessionExecutionOwner for TLC.  Process pb may have two    *)
(* hosts, the V2 execution service and a second job of the same process;   *)
(* pa and pc have one.                                                     *)
(***************************************************************************)
EXTENDS SessionExecutionOwner, TLC

CONSTANTS pa, pb, pc, ha, hb, hb2, hc

TwoProcOf == (ha :> pa) @@ (hb :> pb) @@ (hb2 :> pb)
ApartProcOf == (ha :> pa) @@ (hb :> pb) @@ (hc :> pc)
ThreeProcOf == (ha :> pa) @@ (hb :> pb) @@ (hb2 :> pb) @@ (hc :> pc)

\* pb drains and runs the boot sweep; the only host of pa drains and serves the
\* operator's Stop.
SweepDuty == (ha :> {"drain", "stop"}) @@ (hb :> {"drain"}) @@ (hb2 :> {"sweep"})
\* Every host drains, two of them in one process; one of these serves the Stop.
StopDuty == (ha :> {"drain"}) @@ (hb :> {"drain"}) @@ (hb2 :> {"drain", "stop"})
\* Two recoverers, and an owner that only drains.
TakeoverDuty == (ha :> {"drain"}) @@ (hb :> {"sweep"}) @@ (hc :> {"sweep"})
SealDuty == (ha :> {"drain"}) @@ (hb :> {"sweep"}) @@ (hb2 :> {"stop"}) @@ (hc :> {"drain"})

\* State constraint of the counterexample runs: no prompt, no tool call and no
\* interrupt request is needed, and every process starts first.
Quiet ==
  /\ \A s \in Session : ~pending[s] /\ ~openTool[s] /\ ~interrupted[s]
  /\ (\E s \in Session : gen[s] # 0) => (\A x \in Process : life[x] # "new")
=============================================================================
