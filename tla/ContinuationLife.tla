---------------------------- MODULE ContinuationLife ----------------------------
(***************************************************************************)
(* What the automation of a Goal promises to the people who talk to its    *)
(* Session: work that nobody asked for is reserved once, for the user's    *)
(* last word; a reservation is worked on by one worker at a time, from     *)
(* when it is taken up for the word it was made for until it is judged,    *)
(* and never again; and nothing of it enters the transcript once the user  *)
(* has spoken.  There is no row, no claim, no lease and no process here.   *)
(***************************************************************************)
EXTENDS Naturals

CONSTANTS Reservation, Worker, None

VARIABLES
  word,    \* the user's last word, counted
  fence,   \* Reservation -> the word it was made for
  life,    \* Reservation -> "unmade", "open", "judged" or "gone"
  input,   \* Reservation -> its input: "absent", "pending", "promoted" or "revoked"
  task     \* Worker -> the reservation it works on

continuation == <<word, fence, life, input, task>>

Init ==
  /\ word = 0
  /\ fence = [r \in Reservation |-> 0]
  /\ life = [r \in Reservation |-> "unmade"]
  /\ input = [r \in Reservation |-> "absent"]
  /\ task = [a \in Worker |-> None]

Current(r) == fence[r] = word
Idle == \A a \in Worker : task[a] = None

\* The reservations of R are given up.
Closed(R) == [r \in Reservation |-> IF r \in R /\ life[r] \in {"open", "judged"} THEN "gone" ELSE life[r]]
\* The inputs of R that wait are revoked.
Revoked(R) == [r \in Reservation |-> IF r \in R /\ input[r] = "pending" THEN "revoked" ELSE input[r]]

\* The user speaks, and retires what waits.
Speak ==
  /\ word' \in Nat /\ word' > word
  /\ input' = Revoked(Reservation)
  /\ UNCHANGED <<fence, life, task>>

\* A new reservation, for a word that was spoken, replaces any other.
Reserve(r) ==
  /\ life[r] = "unmade"
  /\ life' = [Closed(Reservation) EXCEPT ![r] = "open"]
  /\ \E n \in 0..word : fence' = [fence EXCEPT ![r] = n]
  /\ UNCHANGED <<word, input, task>>

Take(a, r) ==
  /\ life[r] = "open" /\ Current(r) /\ Idle
  /\ task' = [task EXCEPT ![a] = r]
  /\ UNCHANGED <<word, fence, life, input>>

Admit(a) ==
  /\ task[a] # None /\ input[task[a]] = "absent" /\ Current(task[a])
  /\ input' = [input EXCEPT ![task[a]] = "pending"]
  /\ UNCHANGED <<word, fence, life, task>>

\* A worker promotes what waits.
Promote(R) ==
  /\ ~Idle
  /\ \A r \in R : input[r] = "pending" /\ Current(r)
  /\ input' = [r \in Reservation |-> IF r \in R THEN "promoted" ELSE input[r]]
  /\ UNCHANGED <<word, fence, life, task>>

\* Its audit begins: nobody works on it.
Judge(r) ==
  /\ life[r] = "open"
  /\ \A a \in Worker : task[a] # r
  /\ life' = [life EXCEPT ![r] = "judged"]
  /\ UNCHANGED <<word, fence, input, task>>

\* Workers stop, reservations are given up, inputs are revoked.
Withdraw ==
  /\ \E S \in SUBSET Worker : task' = [a \in Worker |-> IF a \in S THEN None ELSE task[a]]
  /\ \E R \in SUBSET Reservation : life' = Closed(R)
  /\ \E R \in SUBSET Reservation : input' = Revoked(R)
  /\ UNCHANGED <<word, fence>>

Next ==
  \/ Speak \/ Withdraw
  \/ \E r \in Reservation : Reserve(r) \/ Judge(r)
  \/ \E a \in Worker : Admit(a) \/ \E r \in Reservation : Take(a, r)
  \/ \E R \in SUBSET Reservation : Promote(R)

Spec == Init /\ [][Next]_continuation
=============================================================================
