---------------------------- MODULE JobContract ----------------------------
(***************************************************************************)
(* What a provider's job lifecycle promises the code that consumes it,     *)
(* whichever provider runs the job: a row stays open through at most       *)
(* MaxAttempts attempts, is completed only over a result its current       *)
(* attempt produced, is consumed once, and never comes back.  RunpodJobs,  *)
(* DoctorJobs and MistralJobs are checked to implement it.                 *)
(***************************************************************************)
EXTENDS Naturals

CONSTANTS Rows, MaxAttempts

VARIABLES
  state,    \* [Rows -> State]
  attempt,  \* the attempt a row is on
  results   \* the results that exist, as <<row, attempt>>

vars == <<state, attempt, results>>

State == {"open", "completed", "consumed", "dead"}

TypeOK ==
  /\ state \in [Rows -> State]
  /\ attempt \in [Rows -> 1..MaxAttempts]
  /\ results \in SUBSET (Rows \X (1..MaxAttempts))

Init ==
  /\ state = [r \in Rows |-> "open"]
  /\ attempt = [r \in Rows |-> 1]
  /\ results = {}

\* A worker delivers a result; a late one, of an attempt already given up, too.
Produce(r) ==
  /\ \E a \in 1..attempt[r] : results' = results \cup {<<r, a>>}
  /\ UNCHANGED <<state, attempt>>

Resubmit(r) ==
  /\ state[r] = "open"
  /\ attempt[r] < MaxAttempts
  /\ attempt' = [attempt EXCEPT ![r] = @ + 1]
  /\ UNCHANGED <<state, results>>

Harvest(r) ==
  /\ state[r] = "open"
  /\ <<r, attempt[r]>> \in results
  /\ state' = [state EXCEPT ![r] = "completed"]
  /\ UNCHANGED <<attempt, results>>

Consume(r) ==
  /\ state[r] = "completed"
  /\ state' = [state EXCEPT ![r] = "consumed"]
  /\ UNCHANGED <<attempt, results>>

\* Failed, cancelled or expired; an abandon writes off several rows at once.
WriteOff(S) ==
  /\ \A r \in S : state[r] \in {"open", "completed"}
  /\ state' = [r \in Rows |-> IF r \in S THEN "dead" ELSE state[r]]
  /\ UNCHANGED <<attempt, results>>

Next ==
  \/ \E r \in Rows : Produce(r) \/ Resubmit(r) \/ Harvest(r) \/ Consume(r)
  \/ \E S \in SUBSET Rows : WriteOff(S)

Spec == Init /\ [][Next]_vars
=============================================================================
