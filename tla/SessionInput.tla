------------------------------ MODULE SessionInput ------------------------------
(***************************************************************************)
(* The durable inbox of one Session (packages/core/src/session/input.ts):  *)
(* inputs of three classes in five lanes of fixed priority.  An admission  *)
(* of a user input retires, in its own transaction, the older work that    *)
(* may be preempted; automatic inputs carry the user frontier they were    *)
(* authorized for.                                                         *)
(***************************************************************************)
EXTENDS Naturals, FiniteSets

CONSTANTS
  UserInput, HostInput,
  Reservation,   \* automatic inputs: each is named by the reservation it carries out
  Steer,         \* inputs with delivery "steer"; the others are queued
  Preemptible    \* host inputs admitted as userPreemptible

Input == UserInput \cup HostInput \cup Reservation

\* Automatic input is queue-only.
ASSUME LaneAssumption == Steer \subseteq UserInput \cup HostInput /\ Preemptible \subseteq HostInput
ASSUME ClassAssumption ==
  /\ UserInput \cap HostInput = {} /\ UserInput \cap Reservation = {} /\ HostInput \cap Reservation = {}
  /\ IsFiniteSet(Input)

VARIABLES
  inbox,  \* Input -> "absent", "pending", "promoted" or "revoked"
  seq     \* admitted_seq, counted within a class: inputs of two classes are never
          \* compared; zero for an absent input

inputs == <<inbox, seq>>

InitInputs ==
  /\ inbox = [i \in Input |-> "absent"]
  /\ seq = [i \in Input |-> 0]

Pending == {i \in Input : inbox[i] = "pending"}

Class(i) == IF i \in UserInput THEN "user" ELSE IF i \in HostInput THEN "host" ELSE "automatic"

\* Lanes are numbered by priority.
NoLane == 5
AutomaticLane == 4
SteerLane(c) == IF c = "user" THEN 0 ELSE 2
Lane(i) ==
  IF i \in Reservation THEN AutomaticLane
  ELSE SteerLane(Class(i)) + (IF i \in Steer THEN 0 ELSE 1)
LaneClass(l) ==
  IF l \in {0, 1} THEN "user" ELSE IF l \in {2, 3} THEN "host" ELSE IF l = 4 THEN "automatic" ELSE "none"

NextLane ==
  CHOOSE l \in 0..NoLane :
    /\ l = NoLane \/ \E i \in Pending : Lane(i) = l
    /\ \A i \in Pending : l <= Lane(i)

PendingUser == Pending \cap UserInput # {}

\* Is input of a higher class waiting than the one a cycle runs for?
HigherPending(c) ==
  \/ c = "host" /\ LaneClass(NextLane) = "user"
  \/ c = "automatic" /\ LaneClass(NextLane) \in {"user", "host"}

\* The last of some admissions, zero when there are none.
Last(f) == CHOOSE n \in {f[i] : i \in DOMAIN f} \cup {0} : \A i \in DOMAIN f : f[i] <= n
SeqOf(S) == [i \in S |-> seq[i]]
LatestUserSeq == Last(SeqOf(UserInput))
LatestPromotedUserSeq == Last(SeqOf({i \in UserInput : inbox[i] = "promoted"}))

NumberAdmission(i) ==
  /\ inbox[i] = "absent"
  /\ seq' = [seq EXCEPT ![i] = 1 + Cardinality({j \in Input : Class(j) = Class(i) /\ seq[j] > 0})]

\* A mutated admission: older preemptible work is left to the runner.
RetiredNone(i) == FALSE

Retired(i) == i \in Preemptible \cup Reservation /\ inbox[i] = "pending"

ProjectAdmitted(i) ==
  /\ i \in UserInput
  /\ NumberAdmission(i)
  /\ inbox' = [j \in Input |->
       IF j = i THEN "pending" ELSE IF Retired(j) THEN "revoked" ELSE inbox[j]]

AdmitSynthetic(i) ==
  /\ i \in HostInput \cup Reservation
  /\ NumberAdmission(i)
  /\ inbox' = [inbox EXCEPT ![i] = "pending"]

FirstPending(l) ==
  {i \in Pending : Lane(i) = l /\ \A j \in Pending : Lane(j) = l => seq[i] <= seq[j]}

\* What promoteLane selects: all of a steer lane, or the first of a queue and the
\* steers of its class.
Selected(l) ==
  IF l \in {0, 2} THEN {i \in Pending : Lane(i) = l}
  ELSE FirstPending(l) \cup {i \in Pending : l # AutomaticLane /\ Lane(i) = SteerLane(LaneClass(l))}

PromoteLane(l) ==
  /\ inbox' = [i \in Input |-> IF i \in Selected(l) THEN "promoted" ELSE inbox[i]]
  /\ UNCHANGED seq

RevokeFirst(l) ==
  /\ inbox' = [i \in Input |-> IF i \in FirstPending(l) THEN "revoked" ELSE inbox[i]]
  /\ UNCHANGED seq

TypeOKInputs ==
  /\ inbox \in [Input -> {"absent", "pending", "promoted", "revoked"}]
  /\ seq \in [Input -> Nat]
=============================================================================
