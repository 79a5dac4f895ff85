-------------------------- MODULE DoctorJobs_proofs --------------------------
(***************************************************************************)
(* Proofs about the conversions sent to doctor: the type invariant, that   *)
(* the lifecycle implements the contract of a job, that no attempt is      *)
(* given up while doctor still works on it, and that a late result wins.   *)
(*                                                                         *)
(* Neither tick locks a row: each swaps on the status it read.  The        *)
(* inductive invariant IInv says why that is enough here: a wave's copy of *)
(* a claimed row and a sweep's copy of a row in flight are of the row's    *)
(* own attempt, unless the row has left flight since; then the copy is not *)
(* overdue and, if nobody answers for doctor, nothing ran for its attempt. *)
(* Only the contract needs the latter.                                     *)
(***************************************************************************)
EXTENDS DoctorJobs, TLAPS

\* One daemon loop, or nothing in front of doctor that answers for it: a gateway's
\* 5xx retries an attempt doctor goes on with, and a sweep of another worker may
\* then harvest the next attempt over the object of the first.
OwnAnswers == Serial \/ "gateway" \notin Faults

\* Doctor has been asked for attempt a of row r, and took it.
Ran(r, a) == <<r, a>> \in running \cup objects

\* Nothing has run for an attempt that is not claimed yet, and none for a later one.
RowFits(r) ==
  /\ row[r].ext = NoId
  /\ row[r].status \in InFlight => row[r].status = "submitted" /\ row[r].key = row[r].attempt
  /\ \A a \in Attempts : Ran(r, a) => a <= row[r].attempt
  /\ row[r].status = "pending" => ~Ran(r, row[r].attempt)

\* The steps at which the wave has claimed its row.
Asked == WaveSteps \ {"idle", "read"}

\* The wave's copy: of the attempt it claimed, and what its step says of doctor.
WaveFits(r) ==
  LET read == wave[r].read IN
  /\ wave[r].step = "read" =>
       read.status = "pending" /\ (row[r] = read \/ row[r].status \in Terminal)
  /\ wave[r].step \in Asked =>
       /\ read.status = "submitted" /\ read.ext = NoId
       /\ read.key = read.attempt /\ read.attempt = row[r].attempt
       /\ row[r].status # "pending" /\ row[r].deadline # "passed"
  /\ wave[r].step \in {"claimed", "unsigned", "refused", "rejected"} =>
       ~Ran(r, read.attempt)
  /\ wave[r].step = "done" => <<r, read.attempt>> \in objects
  /\ wave[r].step = "gateway" => "gateway" \in Faults

\* The sweep's copy: of the row's attempt, or of one that is not overdue and, if
\* nobody answers for doctor, never ran.
SweepFits(r) ==
  LET read == sweep[r].read IN
  sweep[r].step # "idle" =>
    /\ read.status = "submitted" /\ read.ext = NoId
    /\ read.key = read.attempt /\ read.attempt <= row[r].attempt
    /\ read.attempt = row[r].attempt => row[r].status # "pending"
    /\ read.attempt # row[r].attempt => read.deadline # "passed"
    /\ read.attempt # row[r].attempt /\ OwnAnswers => ~Ran(r, read.attempt)
    /\ read.deadline = "passed" =>
         /\ wave[r].step = "idle"
         /\ row[r].status \in InFlight => row[r].deadline = "passed"
    /\ sweep[r].step = "done" => <<r, read.attempt>> \in objects
    /\ sweep[r].step = "overdue" => read.deadline = "passed"
    /\ Serial => wave[r].step = "idle"

Fits(r) == RowFits(r) /\ WaveFits(r) /\ SweepFits(r)

\* The inductive invariant.
IInv == TypeOK /\ \A r \in Rows : Fits(r)

-----------------------------------------------------------------------------
\* A new row and an idle slot have their type.
LEMMA RowFacts ==
  /\ NewRow \in Row /\ NewRow.status = "pending" /\ NewRow.attempt = 1
  /\ NewRow.ext = NoId /\ Attempts \subseteq Nat /\ 1 \in Attempts
  /\ Idle \in WaveSlot /\ Idle \in SweepSlot /\ Idle.step = "idle"
BY JobRowsAssumption DEF Row, NewRow, Statuses, Open, InFlight, Attempts, Ids, NoId, NoKey,
   Idle, WaveSlot, SweepSlot, WaveSteps, SweepSteps

\* The sets of statuses, listed.
LEMMA StatusFacts ==
  /\ InFlight = {"submitted", "in_queue", "in_progress"}
  /\ Dead = {"failed", "cancelled", "expired"}
  /\ Terminal = {"consumed", "failed", "cancelled", "expired"}
  /\ Open = {"pending", "completed", "submitted", "in_queue", "in_progress"}
  /\ Statuses = Open \cup Terminal
BY DEF InFlight, Dead, Terminal, Open, Statuses

\* What a change of status leaves alone.
LEMMA WithStatusFacts ==
  ASSUME NEW cur \in Row, NEW s \in Statuses
  PROVE  /\ WithStatus(cur, s) \in Row
         /\ WithStatus(cur, s).status = s
         /\ WithStatus(cur, s).attempt = cur.attempt
         /\ WithStatus(cur, s).ext = cur.ext
         /\ WithStatus(cur, s).key = cur.key
         /\ WithStatus(cur, s).deadline = cur.deadline
BY DEF WithStatus, Row

\* What a claim writes.
LEMMA ClaimedFacts ==
  ASSUME NEW cur \in Row, NEW read \in Row
  PROVE  /\ Claimed(cur, read, AnswerBudget) \in Row
         /\ Claimed(cur, read, AnswerBudget).status = "submitted"
         /\ Claimed(cur, read, AnswerBudget).attempt = cur.attempt
         /\ Claimed(cur, read, AnswerBudget).ext = cur.ext
         /\ Claimed(cur, read, AnswerBudget).key = read.attempt
         /\ Claimed(cur, read, AnswerBudget).deadline = "running"
BY DEF Claimed, AnswerBudget, Row, Statuses, Open, InFlight

\* What a retry writes.
LEMMA RetriedFacts ==
  ASSUME NEW cur \in Row, NEW read \in Row, ~OutOfAttempts(read)
  PROVE  /\ Retried(cur, read) \in Row
         /\ Retried(cur, read).status = "pending"
         /\ Retried(cur, read).attempt = read.attempt + 1
         /\ Retried(cur, read).ext = NoId
         /\ Retried(cur, read).deadline = "none"
<1>1. read.attempt + 1 \in Attempts
  BY JobRowsAssumption DEF Row, Attempts, OutOfAttempts
<1> QED
  BY <1>1 DEF Retried, Row, Statuses, Open

\* What is known of one row and its slots.
LEMMA Slots ==
  ASSUME IInv, NEW r \in Rows
  PROVE  /\ row[r] \in Row /\ wave[r].read \in Row /\ sweep[r].read \in Row
         /\ wave[r] \in WaveSlot /\ sweep[r] \in SweepSlot
         /\ row[r].attempt \in Attempts /\ wave[r].read.attempt \in Attempts
         /\ sweep[r].read.attempt \in Attempts
         /\ row[r].attempt \in Nat /\ sweep[r].read.attempt \in Nat
         /\ row[r].status \in Statuses
         /\ Fits(r)
BY RowFacts DEF IInv, TypeOK, WaveSlot, SweepSlot, Row

\* A row none of whose state moves still fits, if nothing ran for it.
Untouched(q) ==
  /\ row'[q] = row[q] /\ wave'[q] = wave[q] /\ sweep'[q] = sweep[q]
  /\ \A a \in Attempts : Ran(q, a)' => Ran(q, a)
  /\ \A a \in Attempts : <<q, a>> \in objects => <<q, a>> \in objects'

\* An untouched row still fits.
LEMMA UntouchedFits == ASSUME IInv, NEW q \in Rows, Untouched(q) PROVE Fits(q)'
<1>1. RowFits(q)'
  BY Slots DEF Fits, RowFits, Untouched
<1>2. WaveFits(q)'
  BY Slots DEF Fits, WaveFits, Untouched
<1>3. SweepFits(q)'
  BY Slots DEF Fits, SweepFits, Untouched
<1> QED
  BY <1>1, <1>2, <1>3 DEF Fits

\* A step on one row has only that row to show.
LEMMA Others ==
  ASSUME IInv, TypeOK', NEW r \in Rows, Fits(r)',
         \A q \in Rows \ {r} : Untouched(q)
  PROVE  IInv'
BY UntouchedFits DEF IInv

\* A swap writes its row or nothing.
LEMMA SwapFacts ==
  ASSUME IInv, NEW r \in Rows, NEW read, NEW new, Swap(r, read, new),
         Matches(row[r], read) => new \in Row
  PROVE  /\ row' \in [Rows -> Row]
         /\ \A q \in Rows \ {r} : row'[q] = row[q]
         /\ Matches(row[r], read) => row'[r] = new
         /\ ~Matches(row[r], read) => row'[r] = row[r]
BY DEF Swap, IInv, TypeOK

-----------------------------------------------------------------------------
(* The submit tick.                                                         *)

\* The wave reads pending rows: no slot held a claim.
LEMMA WaveReadStep == IInv /\ WaveRead => IInv'
<1> SUFFICES ASSUME IInv, WaveRead PROVE IInv'
  OBVIOUS
<1>1. PICK S \in SUBSET PendingRows :
        wave' = [r \in Rows |->
                   IF r \in S THEN [step |-> "read", read |-> row[r]] ELSE Idle]
  BY DEF WaveRead
<1>2. UNCHANGED <<row, sweep, running, objects, crashes>>
  BY DEF WaveRead
<1>3. \A r \in Rows : wave[r].step = "idle"
  BY DEF WaveRead, SubmitIdle
<1>4. TypeOK'
  BY <1>1, <1>2, Slots, RowFacts DEF IInv, TypeOK, WaveSlot, WaveSteps
<1>5. ASSUME NEW r \in Rows PROVE Fits(r)'
  <2>1. RowFits(r)'
    BY <1>2, Slots DEF Fits, RowFits, Ran
  <2>2. CASE r \in S
    <3>1. wave'[r].step = "read" /\ wave'[r].read = row[r] /\ row[r].status = "pending"
      BY <1>1, <2>2 DEF PendingRows
    <3>2. WaveFits(r)'
      BY <3>1, <1>2 DEF WaveFits, Asked, WaveSteps
    <3>3. SweepFits(r)'
      BY <3>1, <1>2, Slots DEF Fits, SweepFits, Ran, WaveRead, SweepDone
    <3> QED
      BY <2>1, <3>2, <3>3 DEF Fits
  <2>3. CASE r \notin S
    <3>1. wave'[r].step = "idle"
      BY <1>1, <2>3, RowFacts
    <3>2. WaveFits(r)'
      BY <3>1 DEF WaveFits, Asked
    <3>3. SweepFits(r)'
      BY <3>1, <1>2, Slots DEF Fits, SweepFits, Ran
    <3> QED
      BY <2>1, <3>2, <3>3 DEF Fits
  <2> QED
    BY <2>2, <2>3
<1> QED
  BY <1>4, <1>5 DEF IInv

\* A claim finds its row as read, or over.
LEMMA ClaimStep == ASSUME IInv, NEW r \in Rows, Claim(r) PROVE IInv'
<1> DEFINE read == wave[r].read
           new  == Claimed(row[r], read, AnswerBudget)
           held == Claimed(read, read, AnswerBudget)
<1>1. /\ wave[r].step = "read" /\ read \in Row /\ row[r] \in Row
      /\ UNCHANGED <<sweep, running, objects, crashes>>
      /\ Swap(r, read, new)
  BY Slots DEF Claim
<1>2. Fits(r) /\ read.status = "pending" /\ (row[r] = read \/ row[r].status \in Terminal)
  BY <1>1, Slots DEF Fits, WaveFits
<1>3. new \in Row /\ held \in Row
  BY <1>1, ClaimedFacts
<1>4. /\ row' \in [Rows -> Row]
      /\ \A q \in Rows \ {r} : row'[q] = row[q]
      /\ Matches(row[r], read) => row'[r] = new
      /\ ~Matches(row[r], read) => row'[r] = row[r]
  BY <1>1, <1>3, SwapFacts
<1>5. CASE Matches(row[r], read)
  <2>1. row[r] = read
    BY <1>2, <1>5, StatusFacts DEF Matches
  <2>2. PICK step \in {"claimed", "unsigned"} :
          wave' = [wave EXCEPT ![r] = [step |-> step, read |-> held]]
    BY <1>5 DEF Claim
  <2>3. TypeOK'
    BY <1>1, <1>3, <1>4, <2>2 DEF IInv, TypeOK, WaveSlot, WaveSteps
  <2>4. /\ wave'[r].step = step /\ wave'[r].read = held
        /\ \A q \in Rows \ {r} : wave'[q] = wave[q]
    BY <2>2 DEF IInv, TypeOK
  <2>5. row'[r] = held /\ held.status = "submitted" /\ held.key = held.attempt
        /\ held.attempt = row[r].attempt /\ held.ext = row[r].ext
        /\ held.deadline = "running"
    BY <1>1, <1>4, <1>5, <2>1, ClaimedFacts
  <2>6. row[r].status = "pending" /\ ~Ran(r, row[r].attempt) /\ row[r].ext = NoId
    BY <1>2, <2>1 DEF Fits, RowFits
  <2>7. RowFits(r)'
    BY <1>1, <1>2, <2>5, <2>6 DEF Fits, RowFits, Ran
  <2>8. WaveFits(r)'
    BY <1>1, <2>4, <2>5, <2>6 DEF WaveFits, Ran
  <2>9. SweepFits(r)'
    BY <1>1, <1>2, <2>4, <2>5, <2>6 DEF Fits, SweepFits, Ran
  <2>10. \A q \in Rows \ {r} : Untouched(q)
    BY <1>1, <1>4, <2>4 DEF Untouched, Ran
  <2> QED
    BY <2>3, <2>7, <2>8, <2>9, <2>10, Others DEF Fits
<1>6. CASE ~Matches(row[r], read)
  <2>1. wave' = [wave EXCEPT ![r] = Idle]
    BY <1>6 DEF Claim
  <2>2. TypeOK'
    BY <1>1, <1>4, <2>1, RowFacts DEF IInv, TypeOK
  <2>3. /\ wave'[r].step = "idle"
        /\ \A q \in Rows \ {r} : wave'[q] = wave[q]
    BY <2>1, RowFacts DEF IInv, TypeOK
  <2>4. RowFits(r)' /\ WaveFits(r)' /\ SweepFits(r)'
    BY <1>1, <1>2, <1>4, <1>6, <2>3 DEF Fits, RowFits, WaveFits, SweepFits, Ran, Asked
  <2>5. \A q \in Rows \ {r} : Untouched(q)
    BY <1>1, <1>4, <2>3 DEF Untouched, Ran
  <2> QED
    BY <2>2, <2>4, <2>5, Others DEF Fits
<1> QED
  BY <1>5, <1>6

\* A step of the wave on r that writes no row.
LEMMA WaveMoves ==
  ASSUME IInv, NEW r \in Rows, NEW step \in WaveSteps,
         wave' = [wave EXCEPT ![r].step = step],
         UNCHANGED <<row, sweep, crashes>>
  PROVE  /\ wave' \in [Rows -> WaveSlot]
         /\ wave'[r].step = step /\ wave'[r].read = wave[r].read
         /\ \A q \in Rows \ {r} : wave'[q] = wave[q]
BY DEF IInv, TypeOK, WaveSlot

\* Doctor takes an attempt that never ran.
LEMMA SendStep == ASSUME IInv, NEW r \in Rows, Send(r) PROVE IInv'
<1> DEFINE read == wave[r].read
<1>1. /\ wave[r].step = "claimed" /\ Fits(r) /\ read.attempt \in Attempts
      /\ UNCHANGED <<row, sweep, objects, crashes>>
  BY Slots DEF Send
<1>2. /\ read.key = read.attempt /\ read.attempt = row[r].attempt
      /\ row[r].status # "pending" /\ ~Ran(r, read.attempt)
  BY <1>1 DEF Fits, WaveFits, Asked, WaveSteps
<1>3. CASE wave' = [wave EXCEPT ![r].step = "sent"] /\ running' = running \cup {Conversion(r, read)}
  <2>1. /\ wave' \in [Rows -> WaveSlot]
        /\ wave'[r].step = "sent" /\ wave'[r].read = wave[r].read
        /\ \A q \in Rows \ {r} : wave'[q] = wave[q]
    BY <1>1, <1>3, WaveMoves DEF WaveSteps
  <2>2. running' = running \cup {<<r, row[r].attempt>>}
    BY <1>2, <1>3 DEF Conversion
  <2>3. TypeOK'
    BY <1>1, <1>2, <2>1, <2>2 DEF IInv, TypeOK
  <2>4. RowFits(r)'
    BY <1>1, <1>2, <2>2, Slots DEF Fits, RowFits, Ran
  <2>5. WaveFits(r)'
    BY <1>1, <2>1 DEF Fits, WaveFits, Asked, WaveSteps
  <2>6. SweepFits(r)'
    BY <1>1, <2>1, <2>2 DEF Fits, SweepFits, Ran
  <2>7. \A q \in Rows \ {r} : Untouched(q)
    BY <1>1, <2>1, <2>2 DEF Untouched, Ran
  <2> QED
    BY <2>3, <2>4, <2>5, <2>6, <2>7, Others DEF Fits
<1>4. CASE wave' = [wave EXCEPT ![r].step = "refused"] /\ UNCHANGED running
  <2>1. /\ wave' \in [Rows -> WaveSlot]
        /\ wave'[r].step = "refused" /\ wave'[r].read = wave[r].read
        /\ \A q \in Rows \ {r} : wave'[q] = wave[q]
    BY <1>1, <1>4, WaveMoves DEF WaveSteps
  <2>2. TypeOK'
    BY <1>1, <1>4, <2>1 DEF IInv, TypeOK
  <2>3. RowFits(r)' /\ WaveFits(r)' /\ SweepFits(r)'
    BY <1>1, <1>2, <1>4, <2>1 DEF Fits, RowFits, WaveFits, SweepFits, Ran, Asked, WaveSteps
  <2>4. \A q \in Rows \ {r} : Untouched(q)
    BY <1>1, <1>4, <2>1 DEF Untouched, Ran
  <2> QED
    BY <2>2, <2>3, <2>4, Others DEF Fits
<1> QED
  BY <1>3, <1>4 DEF Send

\* A done answer has its object; a refusal has nothing running.
LEMMA AnswerStep == ASSUME IInv, NEW r \in Rows, Answer(r) PROVE IInv'
<1> DEFINE read == wave[r].read
<1>1. /\ wave[r].step = "sent" /\ Fits(r) /\ read.attempt \in Attempts
      /\ UNCHANGED <<row, sweep, running, objects, crashes>>
  BY Slots DEF Answer
<1>2. PICK answer \in Answers(r) : wave' = [wave EXCEPT ![r].step = answer]
  BY DEF Answer
<1>3. read.key = read.attempt /\ Conversion(r, read) = <<r, read.attempt>>
  BY <1>1 DEF Fits, WaveFits, Asked, WaveSteps, Conversion
<1>4. /\ answer \in {"done", "unanswered", "refused", "rejected", "gateway"}
      /\ answer = "done" => <<r, read.attempt>> \in objects
      /\ answer \in {"refused", "rejected"} => ~Ran(r, read.attempt)
      /\ answer = "gateway" => "gateway" \in Faults
  BY <1>3 DEF Answers, Ran
<1>5. /\ wave' \in [Rows -> WaveSlot]
      /\ wave'[r].step = answer /\ wave'[r].read = wave[r].read
      /\ \A q \in Rows \ {r} : wave'[q] = wave[q]
  BY <1>1, <1>2, <1>4, WaveMoves DEF WaveSteps
<1>6. TypeOK'
  BY <1>1, <1>5 DEF IInv, TypeOK
<1>7. RowFits(r)' /\ SweepFits(r)'
  BY <1>1, <1>5 DEF Fits, RowFits, SweepFits, Ran
<1>8. WaveFits(r)'
  BY <1>1, <1>4, <1>5 DEF Fits, WaveFits, Ran, Asked, WaveSteps
<1>9. \A q \in Rows \ {r} : Untouched(q)
  BY <1>1, <1>5 DEF Untouched, Ran
<1> QED
  BY <1>6, <1>7, <1>8, <1>9, Others DEF Fits

\* Nothing has run for the attempt a retry begins.
LEMMA FreshAttempt ==
  ASSUME NEW r \in Rows, RowFits(r), row[r].attempt \in Nat,
         row'[r] \in Row, row'[r].status = "pending", row'[r].ext = NoId,
         row'[r].attempt = row[r].attempt + 1, UNCHANGED <<running, objects>>
  PROVE  RowFits(r)'
<1> DEFINE n == row[r].attempt
<1>1. row'[r].status \notin InFlight /\ Attempts \subseteq Nat /\ n \in Nat
  BY StatusFacts, RowFacts
<1>2. \A a \in Attempts : Ran(r, a) => a <= n
  BY DEF RowFits
<1>3. n + 1 \in Attempts
  BY DEF Row
<1> HIDE DEF n
<1>4. \A a \in Attempts : Ran(r, a) => a <= n + 1
  BY <1>1, <1>2
<1>5. ~Ran(r, n + 1)
  BY <1>1, <1>2, <1>3
<1>6. \A a \in Attempts : <<r, a>> \in running' \cup objects' => a <= n + 1
  BY <1>4 DEF Ran
<1>7. <<r, n + 1>> \notin running' \cup objects'
  BY <1>5 DEF Ran
<1> QED
  BY <1>1, <1>6, <1>7 DEF RowFits, n, Ran

\* What the outcome of a request may do to its row.
Outcome(r) ==
  \/ UNCHANGED row
  \/ /\ row[r].status = "submitted"
     /\ \/ /\ wave[r].step = "done"
           /\ row' = [row EXCEPT ![r] = WithStatus(row[r], "completed")]
        \/ row' = [row EXCEPT ![r] = WithStatus(row[r], "failed")]
        \/ /\ wave[r].step \in {"refused", "unsigned", "gateway"}
           /\ ~OutOfAttempts(row[r])
           /\ row' = [row EXCEPT ![r] = Retried(row[r], row[r])]

\* An outcome is written over the attempt the wave claimed.
LEMMA OutcomeIs == ASSUME IInv, NEW r \in Rows, ApplyOutcome(r) PROVE Outcome(r)
<1> DEFINE read == wave[r].read
<1>1. /\ wave[r].step \in Asked /\ Fits(r) /\ row[r] \in Row
  BY Slots DEF ApplyOutcome, Asked, WaveSteps
<1>2. read.status = "submitted" /\ read.attempt = row[r].attempt
  BY <1>1 DEF Fits, WaveFits
<1>3. /\ OutOfAttempts(read) <=> OutOfAttempts(row[r])
      /\ Retried(row[r], read) = Retried(row[r], row[r])
  BY <1>2 DEF OutOfAttempts, Retried
<1> QED
  BY <1>1, <1>2, <1>3 DEF ApplyOutcome, Swap, Matches, RetriedOrFailed, Outcome

\* An outcome of the wave; a gateway's answer may retry an attempt that ran.
LEMMA ApplyOutcomeStep ==
  ASSUME IInv, NEW r \in Rows, ApplyOutcome(r) PROVE IInv'
<1>1. /\ wave[r].step \in Asked /\ Fits(r) /\ row[r] \in Row
      /\ wave' = [wave EXCEPT ![r] = Idle]
      /\ UNCHANGED <<sweep, running, objects, crashes>>
  BY Slots DEF ApplyOutcome, Asked, WaveSteps
<1>2. Outcome(r)
  BY OutcomeIs
<1>3. /\ wave' \in [Rows -> WaveSlot] /\ wave'[r].step = "idle"
      /\ \A q \in Rows \ {r} : wave'[q] = wave[q]
  BY <1>1, RowFacts DEF IInv, TypeOK
<1>4. WaveFits(r)'
  BY <1>3 DEF WaveFits, Asked
<1>5. CASE UNCHANGED row
  <2>1. TypeOK'
    BY <1>1, <1>3, <1>5 DEF IInv, TypeOK
  <2>2. RowFits(r)' /\ SweepFits(r)'
    BY <1>1, <1>3, <1>5 DEF Fits, RowFits, SweepFits, Ran
  <2>3. \A q \in Rows \ {r} : Untouched(q)
    BY <1>1, <1>3, <1>5 DEF Untouched, Ran
  <2> QED
    BY <1>4, <2>1, <2>2, <2>3, Others DEF Fits
<1>6. ASSUME NEW s \in {"completed", "failed"}, row' = [row EXCEPT ![r] = WithStatus(row[r], s)]
      PROVE  IInv'
  <2>1. /\ WithStatus(row[r], s) \in Row /\ s \notin InFlight /\ s # "pending"
        /\ row'[r] = WithStatus(row[r], s)
        /\ \A q \in Rows \ {r} : row'[q] = row[q]
    BY <1>1, <1>6, StatusFacts, WithStatusFacts DEF IInv, TypeOK
  <2>2. /\ row'[r].status = s /\ row'[r].attempt = row[r].attempt
        /\ row'[r].ext = row[r].ext
    BY <1>1, <2>1, StatusFacts, WithStatusFacts
  <2>3. TypeOK'
    BY <1>1, <1>3, <1>6, <2>1 DEF IInv, TypeOK
  <2>4. RowFits(r)' /\ SweepFits(r)'
    BY <1>1, <1>3, <2>1, <2>2 DEF Fits, RowFits, SweepFits, Ran
  <2>5. \A q \in Rows \ {r} : Untouched(q)
    BY <1>1, <1>3, <2>1 DEF Untouched, Ran
  <2> QED
    BY <1>4, <2>3, <2>4, <2>5, Others DEF Fits
<1>7. CASE /\ wave[r].step \in {"refused", "unsigned", "gateway"}
           /\ ~OutOfAttempts(row[r])
           /\ row' = [row EXCEPT ![r] = Retried(row[r], row[r])]
  <2>1. /\ Retried(row[r], row[r]) \in Row
        /\ row'[r] = Retried(row[r], row[r])
        /\ \A q \in Rows \ {r} : row'[q] = row[q]
    BY <1>1, <1>7, RetriedFacts DEF IInv, TypeOK
  <2>2. /\ row'[r].status = "pending" /\ row'[r].attempt = row[r].attempt + 1
        /\ row'[r].ext = NoId /\ row[r].attempt \in Nat
    BY <1>1, <1>7, <2>1, RetriedFacts, Slots
  <2>3. TypeOK'
    BY <1>1, <1>3, <1>7, <2>1 DEF IInv, TypeOK
  <2>4. RowFits(r)'
    <3>1. RowFits(r) /\ row'[r] \in Row /\ UNCHANGED <<running, objects>>
      BY <1>1, <2>1 DEF Fits
    <3> QED
      BY <2>2, <3>1, FreshAttempt
  <2>5. SweepFits(r)'
    <3>1. CASE sweep[r].step = "idle"
      BY <1>1, <3>1 DEF SweepFits
    <3>2. CASE sweep[r].step # "idle"
      <4>1. sweep[r].read.deadline # "passed" /\ ~Serial
        BY <1>1, <3>2 DEF Fits, SweepFits, Asked
      <4>2. OwnAnswers => ~Ran(r, row[r].attempt)
        BY <1>1, <1>7, <4>1 DEF Fits, WaveFits, OwnAnswers
      <4> QED
        BY <1>1, <1>3, <2>2, <3>2, <4>1, <4>2, Slots DEF Fits, SweepFits, Ran
    <3> QED
      BY <3>1, <3>2
  <2>6. \A q \in Rows \ {r} : Untouched(q)
    BY <1>1, <1>3, <2>1 DEF Untouched, Ran
  <2> QED
    BY <1>4, <2>3, <2>4, <2>5, <2>6, Others DEF Fits
<1> QED
  BY <1>2, <1>5, <1>6, <1>7 DEF Outcome

-----------------------------------------------------------------------------
(* The sweep tick.                                                          *)

\* The sweep reads rows in flight, and an overdue one has no request open.
LEMMA SweepReadStep == IInv /\ SweepRead => IInv'
<1> SUFFICES ASSUME IInv, SweepRead PROVE IInv'
  OBVIOUS
<1>1. /\ UNCHANGED <<row, wave, running, objects, crashes>>
      /\ sweep' = [r \in Rows |-> IF r \in InFlightRows
                                  THEN [step |-> "read", read |-> row[r]] ELSE Idle]
      /\ Serial => \A r \in Rows : wave[r].step = "idle"
  BY DEF SweepRead, SubmitIdle
<1>2. TypeOK'
  BY <1>1, Slots, RowFacts DEF IInv, TypeOK, SweepSlot, SweepSteps
<1>3. ASSUME NEW r \in Rows PROVE Fits(r)'
  <2>1. Fits(r) /\ row[r].attempt \in Nat
    BY Slots
  <2>2. RowFits(r)' /\ WaveFits(r)'
    BY <1>1, <2>1 DEF Fits, RowFits, WaveFits, Ran
  <2>3. CASE row[r].status \in InFlight
    <3>1. sweep'[r].step = "read" /\ sweep'[r].read = row[r]
      BY <1>1, <2>3 DEF InFlightRows
    <3>2. row[r].status = "submitted" /\ row[r].key = row[r].attempt /\ row[r].ext = NoId
      BY <2>1, <2>3 DEF Fits, RowFits
    <3>3. row[r].deadline = "passed" => wave[r].step = "idle"
      BY <2>1, <3>2, Slots, StatusFacts DEF Fits, WaveFits, Asked, WaveSlot
    <3>4. SweepFits(r)'
      BY <1>1, <2>1, <3>1, <3>2, <3>3 DEF SweepFits
    <3> QED
      BY <2>2, <3>4 DEF Fits
  <2>4. CASE row[r].status \notin InFlight
    BY <1>1, <2>2, <2>4, RowFacts DEF InFlightRows, SweepFits, Fits
  <2> QED
    BY <2>3, <2>4
<1> QED
  BY <1>2, <1>3 DEF IInv

\* A look finds the object of the copy, or its deadline passed.
LEMMA LookStep == ASSUME IInv, NEW r \in Rows, Look(r) PROVE IInv'
<1> DEFINE read == sweep[r].read
<1>1. /\ sweep[r].step = "read" /\ Fits(r)
      /\ UNCHANGED <<row, wave, running, objects, crashes>>
  BY Slots DEF Look
<1>2. read.key = read.attempt /\ Conversion(r, read) = <<r, read.attempt>>
  BY <1>1 DEF Fits, SweepFits, Conversion
<1>3. RowFits(r)' /\ WaveFits(r)'
  BY <1>1 DEF Fits, RowFits, WaveFits, Ran
<1>4. ASSUME NEW step \in {"done", "overdue"}, sweep' = [sweep EXCEPT ![r].step = step],
             step = "done" => <<r, read.attempt>> \in objects,
             step = "overdue" => read.deadline = "passed"
      PROVE  IInv'
  <2>1. /\ sweep' \in [Rows -> SweepSlot]
        /\ sweep'[r].step = step /\ sweep'[r].read = read
        /\ \A q \in Rows \ {r} : sweep'[q] = sweep[q]
    BY <1>4 DEF IInv, TypeOK, SweepSlot, SweepSteps
  <2>2. TypeOK'
    BY <1>1, <2>1 DEF IInv, TypeOK
  <2>3. SweepFits(r)'
    BY <1>1, <1>4, <2>1 DEF Fits, SweepFits, Ran
  <2>4. \A q \in Rows \ {r} : Untouched(q)
    BY <1>1, <2>1 DEF Untouched, Ran
  <2> QED
    BY <1>3, <2>2, <2>3, <2>4, Others DEF Fits
<1>5. CASE sweep' = [sweep EXCEPT ![r] = Idle]
  <2>1. /\ sweep' \in [Rows -> SweepSlot] /\ sweep'[r].step = "idle"
        /\ \A q \in Rows \ {r} : sweep'[q] = sweep[q]
    BY <1>5, RowFacts DEF IInv, TypeOK
  <2>2. TypeOK' /\ SweepFits(r)'
    BY <1>1, <2>1 DEF IInv, TypeOK, SweepFits
  <2>3. \A q \in Rows \ {r} : Untouched(q)
    BY <1>1, <2>1 DEF Untouched, Ran
  <2> QED
    BY <1>3, <2>2, <2>3, Others DEF Fits
<1> QED
  BY <1>2, <1>4, <1>5 DEF Look, Present, IsOverdue

\* What the verdict of the sweep may do to a row.
Verdict(r) ==
  \/ UNCHANGED row
  \/ /\ row[r].status = "submitted"
     /\ OwnAnswers => sweep[r].read.attempt = row[r].attempt
     /\ \/ /\ sweep[r].step = "done"
           /\ row' = [row EXCEPT ![r] = WithStatus(row[r], "completed")]
        \/ /\ sweep[r].step = "overdue"
           /\ row' = [row EXCEPT ![r] = WithStatus(row[r], "failed")]
        \/ /\ sweep[r].step = "overdue" /\ ~OutOfAttempts(row[r])
           /\ row' = [row EXCEPT ![r] = Retried(row[r], row[r])]

\* A verdict is written over the attempt the sweep read.
LEMMA VerdictIs == ASSUME IInv, NEW r \in Rows, Judge(r) PROVE Verdict(r)
<1> DEFINE read == sweep[r].read
<1>1. /\ sweep[r].step \in {"done", "overdue"} /\ Fits(r) /\ row[r] \in Row
  BY Slots DEF Judge
<1>2. /\ read.status = "submitted"
      /\ sweep[r].step = "done" => <<r, read.attempt>> \in objects
      /\ sweep[r].step = "overdue" => read.deadline = "passed"
      /\ read.attempt # row[r].attempt => read.deadline # "passed"
      /\ read.attempt # row[r].attempt /\ OwnAnswers => ~Ran(r, read.attempt)
  BY <1>1 DEF Fits, SweepFits
<1>3. OwnAnswers \/ sweep[r].step = "overdue" => read.attempt = row[r].attempt
  BY <1>1, <1>2 DEF Ran
<1>4. sweep[r].step = "overdue" =>
      /\ OutOfAttempts(read) <=> OutOfAttempts(row[r])
      /\ Retried(row[r], read) = Retried(row[r], row[r])
  BY <1>3 DEF OutOfAttempts, Retried
<1> QED
  BY <1>1, <1>2, <1>3, <1>4 DEF Judge, Swap, Matches, RetriedOrFailed, Verdict

\* A verdict of the sweep.
LEMMA JudgeStep == ASSUME IInv, NEW r \in Rows, Judge(r) PROVE IInv'
<1>1. /\ sweep[r].step \in {"done", "overdue"} /\ Fits(r) /\ row[r] \in Row
      /\ sweep' = [sweep EXCEPT ![r] = Idle]
      /\ UNCHANGED <<wave, running, objects, crashes>>
  BY Slots DEF Judge
<1>2. Verdict(r)
  BY VerdictIs
<1>3. /\ sweep' \in [Rows -> SweepSlot] /\ sweep'[r].step = "idle"
      /\ \A q \in Rows \ {r} : sweep'[q] = sweep[q]
  BY <1>1, RowFacts DEF IInv, TypeOK
<1>4. SweepFits(r)'
  BY <1>3 DEF SweepFits
<1>5. CASE UNCHANGED row
  <2>1. TypeOK' /\ RowFits(r)' /\ WaveFits(r)'
    BY <1>1, <1>3, <1>5 DEF IInv, TypeOK, Fits, RowFits, WaveFits, Ran
  <2>2. \A q \in Rows \ {r} : Untouched(q)
    BY <1>1, <1>3, <1>5 DEF Untouched, Ran
  <2> QED
    BY <1>4, <2>1, <2>2, Others DEF Fits
<1>6. ASSUME NEW s \in {"completed", "failed"}, row[r].status = "submitted",
             row' = [row EXCEPT ![r] = WithStatus(row[r], s)]
      PROVE  IInv'
  <2>1. /\ WithStatus(row[r], s) \in Row /\ s \notin InFlight /\ s # "pending"
        /\ row'[r] = WithStatus(row[r], s)
        /\ \A q \in Rows \ {r} : row'[q] = row[q]
    BY <1>1, <1>6, StatusFacts, WithStatusFacts DEF IInv, TypeOK
  <2>2. /\ row'[r].status = s /\ row'[r].attempt = row[r].attempt
        /\ row'[r].ext = row[r].ext /\ row'[r].deadline = row[r].deadline
    BY <1>1, <2>1, StatusFacts, WithStatusFacts
  <2>3. TypeOK'
    BY <1>1, <1>3, <1>6, <2>1 DEF IInv, TypeOK
  <2>4. RowFits(r)'
    BY <1>1, <2>1, <2>2 DEF Fits, RowFits, Ran
  <2>5. WaveFits(r)'
    <3>1. wave[r].step # "read"
      BY <1>1, <1>6, StatusFacts DEF Fits, WaveFits
    <3> QED
      BY <1>1, <2>1, <2>2, <3>1 DEF Fits, WaveFits, Ran
  <2>6. \A q \in Rows \ {r} : Untouched(q)
    BY <1>1, <1>3, <2>1 DEF Untouched, Ran
  <2> QED
    BY <1>4, <2>3, <2>4, <2>5, <2>6, Others DEF Fits
<1>7. CASE /\ row[r].status = "submitted" /\ sweep[r].step = "overdue"
           /\ ~OutOfAttempts(row[r])
           /\ row' = [row EXCEPT ![r] = Retried(row[r], row[r])]
  <2>1. /\ Retried(row[r], row[r]) \in Row
        /\ row'[r] = Retried(row[r], row[r])
        /\ \A q \in Rows \ {r} : row'[q] = row[q]
    BY <1>1, <1>7, RetriedFacts DEF IInv, TypeOK
  <2>2. /\ row'[r].status = "pending" /\ row'[r].attempt = row[r].attempt + 1
        /\ row'[r].ext = NoId /\ row[r].attempt \in Nat
    BY <1>1, <1>7, <2>1, RetriedFacts, Slots
  <2>3. TypeOK'
    BY <1>1, <1>3, <1>7, <2>1 DEF IInv, TypeOK
  <2>4. RowFits(r)'
    <3>1. RowFits(r) /\ row'[r] \in Row /\ UNCHANGED <<running, objects>>
      BY <1>1, <2>1 DEF Fits
    <3> QED
      BY <2>2, <3>1, FreshAttempt
  <2>5. WaveFits(r)'
    <3>1. wave[r].step = "idle"
      BY <1>1, <1>7 DEF Fits, SweepFits
    <3> QED
      BY <1>1, <3>1 DEF WaveFits, Asked
  <2>6. \A q \in Rows \ {r} : Untouched(q)
    BY <1>1, <1>3, <2>1 DEF Untouched, Ran
  <2> QED
    BY <1>4, <2>3, <2>4, <2>5, <2>6, Others DEF Fits
<1> QED
  BY <1>2, <1>5, <1>6, <1>7 DEF Verdict

-----------------------------------------------------------------------------
(* The web process, the merge tick, doctor, the clock, the kill.            *)

\* An abandon takes rows out of flight and changes no attempt.
LEMMA AbandonStep == IInv /\ Abandon => IInv'
<1> SUFFICES ASSUME IInv, Abandon PROVE IInv'
  OBVIOUS
<1>1. PICK statuses \in {Open, Open \ {"completed"}} :
        row' = [r \in Rows |-> IF row[r].status \in statuses
                              THEN WithStatus(row[r], "cancelled") ELSE row[r]]
  BY DEF Abandon
<1>2. UNCHANGED <<wave, sweep, running, objects, crashes>>
  BY DEF Abandon
<1>3. ASSUME NEW r \in Rows
      PROVE  /\ row'[r] \in Row /\ row'[r].attempt = row[r].attempt
             /\ row'[r].ext = row[r].ext /\ row'[r].deadline = row[r].deadline
             /\ row'[r] = row[r] \/ row'[r].status = "cancelled"
  BY <1>1, Slots, StatusFacts, WithStatusFacts
<1>4. TypeOK'
  BY <1>1, <1>2, <1>3 DEF IInv, TypeOK
<1>5. ASSUME NEW r \in Rows PROVE Fits(r)'
  <2>1. CASE row'[r] = row[r]
    BY <1>2, <2>1, UntouchedFits DEF Untouched, Ran
  <2>2. CASE row'[r].status = "cancelled"
    <3>1. Fits(r) /\ "cancelled" \notin InFlight /\ "cancelled" \in Terminal
      BY Slots, StatusFacts
    <3>2. RowFits(r)' /\ WaveFits(r)' /\ SweepFits(r)'
      BY <1>2, <1>3, <2>2, <3>1 DEF Fits, RowFits, WaveFits, SweepFits, Ran
    <3> QED
      BY <3>2 DEF Fits
  <2> QED
    BY <1>3, <2>1, <2>2
<1> QED
  BY <1>4, <1>5 DEF IInv

\* A merge consumes a completed row.
LEMMA ConsumeStep == ASSUME IInv, NEW r \in Rows, Consume(r) PROVE IInv'
<1>1. /\ row[r].status = "completed" /\ Fits(r) /\ row[r] \in Row
      /\ row' = [row EXCEPT ![r] = WithStatus(row[r], "consumed")]
      /\ UNCHANGED <<wave, sweep, running, objects, crashes>>
  BY Slots DEF Consume
<1>2. /\ WithStatus(row[r], "consumed") \in Row
      /\ row'[r] = WithStatus(row[r], "consumed")
      /\ \A q \in Rows \ {r} : row'[q] = row[q]
  BY <1>1, StatusFacts, WithStatusFacts DEF IInv, TypeOK
<1>3. /\ row'[r].status = "consumed" /\ row'[r].attempt = row[r].attempt
      /\ row'[r].ext = row[r].ext /\ row'[r].deadline = row[r].deadline
      /\ "consumed" \notin InFlight /\ "consumed" \in Terminal
      /\ "completed" \notin Terminal
  BY <1>1, <1>2, StatusFacts, WithStatusFacts
<1>4. TypeOK'
  BY <1>1, <1>2 DEF IInv, TypeOK
<1>5. RowFits(r)' /\ WaveFits(r)' /\ SweepFits(r)'
  BY <1>1, <1>3 DEF Fits, RowFits, WaveFits, SweepFits, Ran
<1>6. \A q \in Rows \ {r} : Untouched(q)
  BY <1>1, <1>2 DEF Untouched, Ran
<1> QED
  BY <1>4, <1>5, <1>6, Others DEF Fits

\* A conversion that ends goes from running to objects, or is lost.
LEMMA ConversionStep ==
  ASSUME IInv, NEW c \in Rows \X Attempts, ConversionEnds(c) PROVE IInv'
<1>1. /\ c \in running /\ running' = running \ {c}
      /\ objects' = objects \cup {c} \/ objects' = objects
      /\ UNCHANGED <<row, wave, sweep, crashes>>
  BY DEF ConversionEnds
<1>2. TypeOK'
  BY <1>1 DEF IInv, TypeOK
<1>3. \A q \in Rows : Untouched(q)
  BY <1>1 DEF Untouched, Ran
<1> QED
  BY <1>2, <1>3, UntouchedFits DEF IInv

\* A deadline passes when neither tick holds the row.
LEMMA DeadlineStep == ASSUME IInv, NEW r \in Rows, DeadlinePasses(r) PROVE IInv'
<1> DEFINE new == [row[r] EXCEPT !.deadline = "passed"]
<1>1. /\ wave[r].step = "idle" /\ sweep[r].step = "idle" /\ Fits(r) /\ row[r] \in Row
      /\ row' = [row EXCEPT ![r] = new]
      /\ UNCHANGED <<wave, sweep, running, objects, crashes>>
  BY Slots DEF DeadlinePasses
<1>2. /\ new \in Row /\ new.status = row[r].status /\ new.attempt = row[r].attempt
      /\ new.ext = row[r].ext /\ new.key = row[r].key
  BY <1>1 DEF Row
<1>3. row'[r] = new /\ \A q \in Rows \ {r} : row'[q] = row[q]
  BY <1>1 DEF IInv, TypeOK
<1>4. TypeOK'
  BY <1>1, <1>2 DEF IInv, TypeOK
<1>5. RowFits(r)' /\ WaveFits(r)' /\ SweepFits(r)'
  BY <1>1, <1>2, <1>3 DEF Fits, RowFits, WaveFits, SweepFits, Ran, Asked
<1>6. \A q \in Rows \ {r} : Untouched(q)
  BY <1>1, <1>3 DEF Untouched, Ran
<1> QED
  BY <1>4, <1>5, <1>6, Others DEF Fits

\* A killed process leaves idle slots.
LEMMA CrashStep == IInv /\ Crash => IInv'
<1> SUFFICES ASSUME IInv, Crash PROVE IInv'
  OBVIOUS
<1>1. /\ wave' = wave \/ wave' = [r \in Rows |-> Idle]
      /\ sweep' = sweep \/ sweep' = [r \in Rows |-> Idle]
      /\ crashes' \in 0..MaxCrashes
      /\ UNCHANGED <<row, running, objects>>
  BY DoctorAssumption DEF Crash, IInv, TypeOK
<1>2. TypeOK'
  BY <1>1, RowFacts DEF IInv, TypeOK
<1>3. ASSUME NEW r \in Rows PROVE Fits(r)'
  <2>1. /\ wave'[r] = wave[r] \/ wave'[r].step = "idle"
        /\ sweep'[r] = sweep[r] \/ sweep'[r].step = "idle"
        /\ Fits(r)
    BY <1>1, Slots, RowFacts
  <2>2. RowFits(r)'
    BY <1>1, <2>1 DEF Fits, RowFits, Ran
  <2>3. WaveFits(r)'
    BY <1>1, <2>1 DEF Fits, WaveFits, Ran, Asked
  <2>4. SweepFits(r)'
    BY <1>1, <2>1 DEF Fits, SweepFits, Ran
  <2> QED
    BY <2>2, <2>3, <2>4 DEF Fits
<1> QED
  BY <1>2, <1>3 DEF IInv

-----------------------------------------------------------------------------
(* The invariant.                                                           *)

\* The invariant holds at first.
LEMMA InitIInv == Init => IInv
<1> SUFFICES ASSUME Init PROVE IInv
  OBVIOUS
<1>1. TypeOK
  BY RowFacts, DoctorAssumption DEF Init, TypeOK
<1>2. ASSUME NEW r \in Rows PROVE Fits(r)
  BY RowFacts, StatusFacts DEF Init, Fits, RowFits, WaveFits, SweepFits, Ran, Asked
<1> QED
  BY <1>1, <1>2 DEF IInv

\* Every step keeps the invariant.
LEMMA NextIInv == IInv /\ [Next]_vars => IInv'
<1> SUFFICES ASSUME IInv, [Next]_vars PROVE IInv'
  OBVIOUS
<1>1. CASE SubmitNext
  BY <1>1, WaveReadStep, ClaimStep, SendStep, AnswerStep, ApplyOutcomeStep DEF SubmitNext
<1>2. CASE SweepNext
  BY <1>2, SweepReadStep, LookStep, JudgeStep DEF SweepNext
<1>3. CASE Abandon \/ Crash
  BY <1>3, AbandonStep, CrashStep
<1>4. ASSUME NEW r \in Rows, Consume(r) \/ DeadlinePasses(r) PROVE IInv'
  BY <1>4, ConsumeStep, DeadlineStep
<1>5. ASSUME NEW c \in Rows \X Attempts, ConversionEnds(c) PROVE IInv'
  BY <1>5, ConversionStep
<1>6. CASE UNCHANGED vars
  <2>1. TypeOK' /\ \A q \in Rows : Untouched(q)
    BY <1>6 DEF vars, IInv, TypeOK, Untouched, Ran
  <2> QED
    BY <2>1, UntouchedFits DEF IInv
<1> QED
  BY <1>1, <1>2, <1>3, <1>4, <1>5, <1>6 DEF Next

\* The invariant holds for ever.
LEMMA Invariance == Spec => []IInv
BY InitIInv, NextIInv, PTL DEF Spec

-----------------------------------------------------------------------------
(* The contract.                                                            *)

StateOf(cur) == CASE cur.status = "completed" -> "completed"
                  [] cur.status = "consumed"  -> "consumed"
                  [] cur.status \in Dead      -> "dead"
                  [] OTHER                    -> "open"

States   == [r \in Rows |-> StateOf(row[r])]
Attempt  == [r \in Rows |-> row[r].attempt]

\* The steps of the contract, over the mapped state.
LEMMA Stuttering ==
  ASSUME UNCHANGED <<States, Attempt, objects>> PROVE UNCHANGED Contract!vars
BY DEF Contract!vars, States, StateOf, Attempt

LEMMA Producing ==
  ASSUME NEW r \in Rows, NEW a \in 1..row[r].attempt, objects' = objects \cup {<<r, a>>},
         UNCHANGED <<States, Attempt>>
  PROVE  Contract!Next
<1>1. Contract!Produce(r)
  BY DEF Contract!Produce, States, StateOf, Attempt
<1> QED
  BY <1>1 DEF Contract!Next

LEMMA Harvesting ==
  ASSUME NEW r \in Rows, StateOf(row[r]) = "open", <<r, row[r].attempt>> \in objects,
         States' = [States EXCEPT ![r] = "completed"], UNCHANGED <<Attempt, objects>>
  PROVE  Contract!Next
<1>1. Contract!Harvest(r)
  BY DEF Contract!Harvest, States, StateOf, Attempt
<1> QED
  BY <1>1 DEF Contract!Next

LEMMA Resubmitting ==
  ASSUME NEW r \in Rows, StateOf(row[r]) = "open", row[r].attempt < MaxAttempts,
         Attempt' = [Attempt EXCEPT ![r] = @ + 1], UNCHANGED <<States, objects>>
  PROVE  Contract!Next
<1>1. Contract!Resubmit(r)
  BY DEF Contract!Resubmit, States, StateOf, Attempt
<1> QED
  BY <1>1 DEF Contract!Next

LEMMA Consuming ==
  ASSUME NEW r \in Rows, StateOf(row[r]) = "completed",
         States' = [States EXCEPT ![r] = "consumed"], UNCHANGED <<Attempt, objects>>
  PROVE  Contract!Next
<1>1. Contract!Consume(r)
  BY DEF Contract!Consume, States, StateOf, Attempt
<1> QED
  BY <1>1 DEF Contract!Next

LEMMA WritingOff ==
  ASSUME NEW S \in SUBSET Rows, \A r \in S : StateOf(row[r]) \in {"open", "completed"},
         States' = [r \in Rows |-> IF r \in S THEN "dead" ELSE States[r]],
         UNCHANGED <<Attempt, objects>>
  PROVE  Contract!Next
<1>1. Contract!WriteOff(S)
  BY DEF Contract!WriteOff, States, StateOf, Attempt
<1> QED
  BY <1>1 DEF Contract!Next

\* Two functions on the rows that differ at one row.
LEMMA OneChanges ==
  ASSUME NEW f, NEW g, NEW r \in Rows, \A q \in Rows \ {r} : g[q] = f[q],
         f = [q \in Rows |-> f[q]], g = [q \in Rows |-> g[q]]
  PROVE  g = [f EXCEPT ![r] = g[r]]
OBVIOUS

\* A row that keeps its attempt and goes to a status of another state.
LEMMA StateMoves ==
  ASSUME IInv, NEW r \in Rows, NEW s \in {"completed", "consumed", "failed"},
         row' = [row EXCEPT ![r] = WithStatus(row[r], s)]
  PROVE  /\ UNCHANGED Attempt
         /\ States' = [States EXCEPT ![r] = IF s = "failed" THEN "dead" ELSE s]
<1>1. /\ row'[r] = WithStatus(row[r], s)
      /\ \A q \in Rows \ {r} : row'[q] = row[q]
  BY DEF IInv, TypeOK
<1>2. row'[r].status = s /\ row'[r].attempt = row[r].attempt
  BY <1>1, Slots, StatusFacts, WithStatusFacts
<1>3. StateOf(row'[r]) = IF s = "failed" THEN "dead" ELSE s
  BY <1>2, StatusFacts DEF StateOf
<1>4. UNCHANGED Attempt
  BY <1>1, <1>2 DEF Attempt
<1>5. \A q \in Rows : States[q] = StateOf(row[q]) /\ States'[q] = StateOf(row'[q])
  BY DEF States, StateOf
<1>6. /\ States  = [q \in Rows |-> States[q]]
      /\ States' = [q \in Rows |-> States'[q]]
  BY DEF States
<1>7. States' = [States EXCEPT ![r] = States'[r]]
  BY <1>1, <1>5, <1>6, OneChanges
<1> QED
  BY <1>3, <1>4, <1>5, <1>7

\* A failed row is the contract writing it off.
LEMMA FailedIsWrittenOff ==
  ASSUME IInv, NEW r \in Rows, StateOf(row[r]) = "open",
         row' = [row EXCEPT ![r] = WithStatus(row[r], "failed")], UNCHANGED objects
  PROVE  Contract!Next
<1>1. UNCHANGED Attempt /\ States' = [States EXCEPT ![r] = "dead"]
  BY StateMoves
<1>2. States' = [q \in Rows |-> IF q \in {r} THEN "dead" ELSE States[q]]
  BY <1>1 DEF States
<1>3. \A q \in {r} : StateOf(row[q]) \in {"open", "completed"}
  OBVIOUS
<1> QED
  BY <1>1, <1>2, <1>3, WritingOff

\* A retried row is the contract resubmitting it.
LEMMA RetriedIsResubmitted ==
  ASSUME IInv, NEW r \in Rows, StateOf(row[r]) = "open", ~OutOfAttempts(row[r]),
         row' = [row EXCEPT ![r] = Retried(row[r], row[r])], UNCHANGED objects
  PROVE  Contract!Next
<1>1. /\ row'[r] = Retried(row[r], row[r])
      /\ \A q \in Rows \ {r} : row'[q] = row[q]
  BY DEF IInv, TypeOK
<1>2. row'[r].status = "pending" /\ row'[r].attempt = row[r].attempt + 1
  BY <1>1, Slots, RetriedFacts
<1>3. StateOf(row'[r]) = "open"
  BY <1>2, StatusFacts DEF StateOf
<1>4. UNCHANGED States
  BY <1>1, <1>3 DEF States
<1>5. \A q \in Rows : Attempt[q] = row[q].attempt /\ Attempt'[q] = row'[q].attempt
  BY DEF Attempt
<1>6. /\ Attempt  = [q \in Rows |-> Attempt[q]]
      /\ Attempt' = [q \in Rows |-> Attempt'[q]]
  BY DEF Attempt
<1>7. Attempt' = [Attempt EXCEPT ![r] = Attempt'[r]]
  BY <1>1, <1>5, <1>6, OneChanges
<1>8. Attempt' = [Attempt EXCEPT ![r] = @ + 1]
  BY <1>2, <1>5, <1>7
<1>9. row[r].attempt < MaxAttempts
  BY Slots, JobRowsAssumption DEF OutOfAttempts
<1> QED
  BY <1>4, <1>8, <1>9, Resubmitting

\* A submitted row is open.
LEMMA SubmittedIsOpen ==
  ASSUME NEW cur, cur.status = "submitted" PROVE StateOf(cur) = "open"
BY StatusFacts DEF StateOf

\* An outcome is a harvest, a write-off, a resubmission or nothing.
LEMMA OutcomeKeepsContract ==
  ASSUME IInv, NEW r \in Rows, ApplyOutcome(r)
  PROVE  Contract!Next \/ UNCHANGED Contract!vars
<1>1. UNCHANGED objects /\ Outcome(r) /\ Fits(r)
  BY OutcomeIs, Slots DEF ApplyOutcome
<1>2. CASE UNCHANGED row
  BY <1>1, <1>2, Stuttering DEF States, Attempt
<1>3. CASE row[r].status = "submitted"
  <2>1. StateOf(row[r]) = "open"
    BY <1>3, SubmittedIsOpen
  <2>2. CASE /\ wave[r].step = "done"
             /\ row' = [row EXCEPT ![r] = WithStatus(row[r], "completed")]
    <3>1. <<r, row[r].attempt>> \in objects
      BY <1>1, <2>2 DEF Fits, WaveFits, Asked, WaveSteps
    <3> QED
      BY <1>1, <2>1, <2>2, <3>1, StateMoves, Harvesting
  <2>3. CASE row' = [row EXCEPT ![r] = WithStatus(row[r], "failed")]
    BY <1>1, <2>1, <2>3, FailedIsWrittenOff
  <2>4. CASE ~OutOfAttempts(row[r]) /\ row' = [row EXCEPT ![r] = Retried(row[r], row[r])]
    BY <1>1, <2>1, <2>4, RetriedIsResubmitted
  <2> QED
    BY <1>1, <1>2, <2>2, <2>3, <2>4 DEF Outcome
<1> QED
  BY <1>1, <1>2, <1>3 DEF Outcome

\* So is a verdict.
LEMMA VerdictKeepsContract ==
  ASSUME IInv, OwnAnswers, NEW r \in Rows, Judge(r)
  PROVE  Contract!Next \/ UNCHANGED Contract!vars
<1>1. UNCHANGED objects /\ Verdict(r) /\ Fits(r)
  BY VerdictIs, Slots DEF Judge
<1>2. CASE UNCHANGED row
  BY <1>1, <1>2, Stuttering DEF States, Attempt
<1>3. CASE row[r].status = "submitted"
  <2>1. StateOf(row[r]) = "open"
    BY <1>3, SubmittedIsOpen
  <2>2. CASE /\ sweep[r].step = "done" /\ sweep[r].read.attempt = row[r].attempt
             /\ row' = [row EXCEPT ![r] = WithStatus(row[r], "completed")]
    <3>1. <<r, row[r].attempt>> \in objects
      BY <1>1, <2>2 DEF Fits, SweepFits
    <3> QED
      BY <1>1, <2>1, <2>2, <3>1, StateMoves, Harvesting
  <2>3. CASE row' = [row EXCEPT ![r] = WithStatus(row[r], "failed")]
    BY <1>1, <2>1, <2>3, FailedIsWrittenOff
  <2>4. CASE ~OutOfAttempts(row[r]) /\ row' = [row EXCEPT ![r] = Retried(row[r], row[r])]
    BY <1>1, <2>1, <2>4, RetriedIsResubmitted
  <2> QED
    BY <1>1, <1>2, <2>2, <2>3, <2>4 DEF Verdict
<1> QED
  BY <1>1, <1>2, <1>3 DEF Verdict

\* An abandon writes off its rows at once.
LEMMA AbandonKeepsContract == ASSUME IInv, Abandon PROVE Contract!Next
<1>1. PICK statuses \in {Open, Open \ {"completed"}} :
        row' = [r \in Rows |-> IF row[r].status \in statuses
                              THEN WithStatus(row[r], "cancelled") ELSE row[r]]
  BY DEF Abandon
<1> DEFINE S == {r \in Rows : row[r].status \in statuses}
<1>2. \A r \in S : StateOf(row[r]) \in {"open", "completed"}
  BY StatusFacts DEF StateOf
<1>3. \A r \in Rows : row'[r].attempt = row[r].attempt
  BY <1>1, Slots, StatusFacts, WithStatusFacts
<1>4. \A r \in S : StateOf(row'[r]) = "dead"
  BY <1>1, Slots, StatusFacts, WithStatusFacts DEF StateOf
<1>5. \A r \in Rows \ S : row'[r] = row[r]
  BY <1>1
<1>6. UNCHANGED Attempt
  BY <1>3 DEF Attempt
<1>7. States' = [r \in Rows |-> IF r \in S THEN "dead" ELSE States[r]]
  BY <1>4, <1>5 DEF States
<1>8. UNCHANGED objects /\ S \in SUBSET Rows
  BY DEF Abandon
<1> QED
  BY <1>2, <1>6, <1>7, <1>8, WritingOff

\* A claim leaves an open row open.
LEMMA ClaimStutters ==
  ASSUME IInv, NEW r \in Rows, Claim(r) PROVE UNCHANGED Contract!vars
<1> DEFINE read == wave[r].read
           new  == Claimed(row[r], read, AnswerBudget)
<1>1. /\ Swap(r, read, new) /\ UNCHANGED objects /\ Fits(r) /\ wave[r].step = "read"
      /\ read \in Row /\ row[r] \in Row
  BY Slots DEF Claim
<1>2. CASE ~Matches(row[r], read)
  BY <1>1, <1>2, Stuttering DEF Swap, States, Attempt
<1>3. CASE Matches(row[r], read)
  <2>1. row[r].status = "pending"
    BY <1>1, <1>3 DEF Fits, WaveFits, Matches
  <2>2. row'[r] = new /\ \A q \in Rows \ {r} : row'[q] = row[q]
    BY <1>1, <1>3 DEF Swap, IInv, TypeOK
  <2>3. row'[r].status = "submitted" /\ row'[r].attempt = row[r].attempt
    BY <1>1, <2>2, ClaimedFacts
  <2>4. StateOf(row'[r]) = StateOf(row[r])
    BY <2>1, <2>3, StatusFacts DEF StateOf
  <2> QED
    BY <1>1, <2>2, <2>3, <2>4, Stuttering DEF States, Attempt
<1> QED
  BY <1>2, <1>3

\* The contract has no clock.
LEMMA DeadlineStutters ==
  ASSUME IInv, NEW r \in Rows, DeadlinePasses(r) PROVE UNCHANGED Contract!vars
<1> DEFINE new == [row[r] EXCEPT !.deadline = "passed"]
<1>1. /\ row' = [row EXCEPT ![r] = new] /\ UNCHANGED objects /\ row[r] \in Row
  BY Slots DEF DeadlinePasses
<1>2. new.status = row[r].status /\ new.attempt = row[r].attempt
  BY <1>1 DEF Row
<1>3. row'[r] = new /\ \A q \in Rows \ {r} : row'[q] = row[q]
  BY <1>1 DEF IInv, TypeOK
<1> QED
  BY <1>1, <1>2, <1>3, Stuttering DEF States, Attempt, StateOf

\* A conversion that ends is the contract producing its result.
LEMMA ConversionKeepsContract ==
  ASSUME IInv, NEW c \in Rows \X Attempts, ConversionEnds(c)
  PROVE  Contract!Next \/ UNCHANGED Contract!vars
<1>1. UNCHANGED <<States, Attempt>> /\ c \in running
  BY DEF ConversionEnds, States, Attempt
<1>2. PICK r \in Rows, a \in Attempts : c = <<r, a>>
  OBVIOUS
<1>3. a <= row[r].attempt
  BY <1>1, <1>2, Slots DEF Fits, RowFits, Ran
<1>4. a \in 1..row[r].attempt
  BY <1>3, Slots DEF Attempts
<1>5. CASE objects' = objects \cup {c}
  BY <1>1, <1>2, <1>4, <1>5, Producing
<1>6. CASE UNCHANGED objects
  BY <1>1, <1>6, Stuttering
<1> QED
  BY <1>5, <1>6 DEF ConversionEnds

\* Every step is a step of the contract, or none of it.
LEMMA StepKeepsContract ==
  OwnAnswers /\ IInv /\ [Next]_vars => Contract!Next \/ UNCHANGED Contract!vars
<1> SUFFICES ASSUME OwnAnswers, IInv, [Next]_vars PROVE Contract!Next \/ UNCHANGED Contract!vars
  OBVIOUS
<1>1. ASSUME UNCHANGED <<row, objects>> PROVE UNCHANGED Contract!vars
  BY <1>1, Stuttering DEF States, Attempt
<1>2. CASE SubmitNext
  <2>1. ASSUME NEW r \in Rows, ApplyOutcome(r) PROVE Contract!Next \/ UNCHANGED Contract!vars
    BY <2>1, OutcomeKeepsContract
  <2>2. ASSUME NEW r \in Rows, Claim(r) PROVE UNCHANGED Contract!vars
    BY <2>2, ClaimStutters
  <2>3. ASSUME NEW r \in Rows, Send(r) \/ Answer(r) PROVE UNCHANGED Contract!vars
    BY <1>1, <2>3 DEF Send, Answer
  <2>4. CASE WaveRead
    BY <1>1, <2>4 DEF WaveRead
  <2> QED
    BY <1>2, <2>1, <2>2, <2>3, <2>4 DEF SubmitNext
<1>3. CASE SweepNext
  <2>1. ASSUME NEW r \in Rows, Judge(r) PROVE Contract!Next \/ UNCHANGED Contract!vars
    BY <2>1, VerdictKeepsContract
  <2>2. ASSUME NEW r \in Rows, Look(r) PROVE UNCHANGED Contract!vars
    BY <1>1, <2>2 DEF Look
  <2>3. CASE SweepRead
    BY <1>1, <2>3 DEF SweepRead
  <2> QED
    BY <1>3, <2>1, <2>2, <2>3 DEF SweepNext
<1>4. CASE Abandon
  BY <1>4, AbandonKeepsContract
<1>5. CASE Crash \/ UNCHANGED vars
  BY <1>1, <1>5 DEF Crash, vars
<1>6. ASSUME NEW r \in Rows, Consume(r) PROVE Contract!Next
  <2>1. /\ row[r].status = "completed" /\ UNCHANGED objects
        /\ row' = [row EXCEPT ![r] = WithStatus(row[r], "consumed")]
    BY <1>6 DEF Consume
  <2>2. StateOf(row[r]) = "completed"
    BY <2>1, StatusFacts DEF StateOf
  <2> QED
    BY <2>1, <2>2, StateMoves, Consuming
<1>7. ASSUME NEW r \in Rows, DeadlinePasses(r) PROVE UNCHANGED Contract!vars
  BY <1>7, DeadlineStutters
<1>8. ASSUME NEW c \in Rows \X Attempts, ConversionEnds(c)
      PROVE  Contract!Next \/ UNCHANGED Contract!vars
  BY <1>8, ConversionKeepsContract
<1> QED
  BY <1>2, <1>3, <1>4, <1>5, <1>6, <1>7, <1>8 DEF Next

\* The first states are the contract's.
LEMMA InitContract == Init => Contract!Init
<1> SUFFICES ASSUME Init PROVE Contract!Init
  OBVIOUS
<1>1. \A r \in Rows : StateOf(row[r]) = "open" /\ row[r].attempt = 1
  BY RowFacts, StatusFacts DEF Init, StateOf
<1>2. States = [r \in Rows |-> "open"] /\ Attempt = [r \in Rows |-> 1] /\ objects = {}
  BY <1>1 DEF States, Attempt, Init
<1> QED
  BY <1>2 DEF Contract!Init, States, StateOf, Attempt

\* The state invariant of the tables and of both ticks' memories: every attempt
\* stays within 1..MaxAttempts, whatever copies the ticks write from.
THEOREM TypeCorrect == Spec => []TypeOK
<1>1. IInv => TypeOK
  BY DEF IInv
<1> QED
  BY <1>1, Invariance, PTL

\* The lifecycle of a conversion implements the contract every provider's rows
\* keep: a row is harvested over its own attempt's object only, and a finished row
\* never comes back (_apply_doctor_outcome, _sweep_doctor_job).
THEOREM ContractIsImplemented == ASSUME OwnAnswers PROVE Spec => ImplementsContract
<1>1. Spec => []IInv
  BY Invariance
<1>2. IInv /\ [Next]_vars => [Contract!Next]_Contract!vars
  BY StepKeepsContract
<1> QED
  BY <1>1, <1>2, InitContract, PTL DEF Spec, ImplementsContract, Contract!Spec

-----------------------------------------------------------------------------
(* The properties of the conversions.                                       *)

\* The bodies of the two action properties, for one row.
GivenUpInTime(r) ==
  row'[r].attempt # row[r].attempt /\ Conversion(r, row[r]) \in running
  => row[r].deadline = "passed" \/ wave[r].step = "gateway"

\* Only an outcome and a verdict change a row's attempt.
LEMMA AttemptKept ==
  ASSUME IInv, [Next]_vars, NEW r \in Rows, ~ApplyOutcome(r), ~Judge(r)
  PROVE  row'[r].attempt = row[r].attempt
<1>1. CASE SubmitNext
  <2>1. CASE UNCHANGED row
    BY <2>1
  <2>2. ASSUME NEW q \in Rows, Claim(q) PROVE row'[r].attempt = row[r].attempt
    <3>1. wave[q].read \in Row /\ row[q] \in Row
          /\ Swap(q, wave[q].read, Claimed(row[q], wave[q].read, AnswerBudget))
      BY <2>2, Slots DEF Claim
    <3> QED
      BY <3>1, ClaimedFacts, SwapFacts
  <2>3. ASSUME NEW q \in Rows \ {r}, ApplyOutcome(q) PROVE row'[r].attempt = row[r].attempt
    BY <2>3 DEF ApplyOutcome, Swap, IInv, TypeOK
  <2> QED
    BY <1>1, <2>1, <2>2, <2>3 DEF SubmitNext, WaveRead, Send, Answer
<1>2. CASE SweepNext
  <2>1. CASE UNCHANGED row
    BY <2>1
  <2>2. ASSUME NEW q \in Rows \ {r}, Judge(q) PROVE row'[r].attempt = row[r].attempt
    BY <2>2 DEF Judge, Swap, IInv, TypeOK
  <2> QED
    BY <1>2, <2>1, <2>2 DEF SweepNext, SweepRead, Look
<1>3. CASE Abandon
  BY <1>3, Slots, StatusFacts, WithStatusFacts DEF Abandon
<1>4. ASSUME NEW q \in Rows, Consume(q) PROVE row'[r].attempt = row[r].attempt
  <2>1. row' = [row EXCEPT ![q] = WithStatus(row[q], "consumed")]
    BY <1>4 DEF Consume
  <2> QED
    BY <2>1, Slots, StatusFacts, WithStatusFacts DEF IInv, TypeOK
<1>5. ASSUME NEW q \in Rows, DeadlinePasses(q) PROVE row'[r].attempt = row[r].attempt
  <2>1. row' = [row EXCEPT ![q] = [row[q] EXCEPT !.deadline = "passed"]]
    BY <1>5 DEF DeadlinePasses
  <2> QED
    BY <2>1, Slots DEF IInv, TypeOK, Row
<1>6. CASE UNCHANGED row
  BY <1>6
<1> QED
  BY <1>1, <1>2, <1>3, <1>4, <1>5, <1>6 DEF Next, ConversionEnds, Crash, vars

\* A retry of the wave follows a refusal, one of the sweep a deadline.
LEMMA AttemptsAreGivenUpInTime ==
  ASSUME IInv, [Next]_vars, NEW r \in Rows PROVE GivenUpInTime(r)
<1>1. Fits(r)
  BY Slots
<1>2. CASE UNCHANGED row
  BY <1>2 DEF GivenUpInTime
<1>3. ASSUME row[r].status = "submitted",
             NEW s \in Statuses, row' = [row EXCEPT ![r] = WithStatus(row[r], s)]
      PROVE  GivenUpInTime(r)
  BY <1>3, Slots, WithStatusFacts DEF GivenUpInTime, IInv, TypeOK
<1>4. CASE ApplyOutcome(r)
  <2>1. Outcome(r)
    BY <1>4, OutcomeIs
  <2>2. CASE row[r].status = "submitted" /\ wave[r].step \in {"refused", "unsigned"}
    <3>1. row[r].key = row[r].attempt /\ ~Ran(r, row[r].attempt)
      BY <1>1, <2>2, StatusFacts DEF Fits, RowFits, WaveFits, Asked, WaveSteps
    <3> QED
      BY <3>1 DEF GivenUpInTime, Conversion, Ran
  <2>3. CASE wave[r].step = "gateway"
    BY <2>3 DEF GivenUpInTime
  <2> QED
    BY <1>2, <1>3, <2>1, <2>2, <2>3, StatusFacts DEF Outcome
<1>5. CASE Judge(r)
  <2>1. Verdict(r)
    BY <1>5, VerdictIs
  <2>2. CASE row[r].status = "submitted" /\ sweep[r].step = "overdue"
    <3>1. row[r].deadline = "passed"
      BY <1>1, <2>2, StatusFacts DEF Fits, SweepFits
    <3> QED
      BY <3>1 DEF GivenUpInTime
  <2> QED
    BY <1>2, <1>3, <2>1, <2>2, StatusFacts DEF Verdict
<1>6. CASE ~ApplyOutcome(r) /\ ~Judge(r)
  BY <1>6, AttemptKept DEF GivenUpInTime
<1> QED
  BY <1>4, <1>5, <1>6

\* An attempt doctor still works on is given up only past its answer budget, or on
\* an answer of a gateway (_apply_doctor_outcome, _sweep_doctor_job).
THEOREM ConvertedOnce == Spec => OneConversion
<1>1. IInv /\ [Next]_vars => [\A r \in Rows : GivenUpInTime(r)]_row
  BY AttemptsAreGivenUpInTime
<1>2. OneConversion <=> [][\A r \in Rows : GivenUpInTime(r)]_row
  BY PTL DEF OneConversion, GivenUpInTime
<1> QED
  BY <1>1, <1>2, Invariance, PTL DEF Spec

StaysLanded(r) == Landed(r) => Landed(r)' /\ row'[r].attempt = row[r].attempt

\* No step decides against a result that has landed.
LEMMA LandedStays ==
  ASSUME IInv, [Next]_vars, NEW r \in Rows, Landed(r)
  PROVE  Landed(r)' /\ row'[r].attempt = row[r].attempt
<1>1. /\ Fits(r) /\ wave[r].step = "idle" /\ sweep[r].step # "overdue"
      /\ row[r] \in Row /\ row[r].attempt \in Attempts
      /\ row[r].status \notin {"pending", "failed"}
      /\ <<r, row[r].attempt>> \in objects
  BY Slots DEF Landed
<1>2. objects \subseteq objects'
  BY DEF Next, SubmitNext, SweepNext, WaveRead, Claim, Send, Answer, ApplyOutcome, SweepRead,
     Look, Judge, Abandon, Crash, Consume, DeadlinePasses, ConversionEnds, vars
<1>3. ~ApplyOutcome(r) /\ ~Claim(r) /\ ~Send(r) /\ ~Answer(r)
  BY <1>1 DEF ApplyOutcome, Claim, Send, Answer
<1>4. wave'[r].step = "idle"
  <2>1. CASE WaveRead
    <3>1. PICK S \in SUBSET PendingRows :
            wave' = [q \in Rows |-> IF q \in S THEN [step |-> "read", read |-> row[q]]
                                               ELSE Idle]
      BY <2>1 DEF WaveRead
    <3>2. r \notin S
      BY <1>1 DEF PendingRows
    <3> QED
      BY <3>1, <3>2, RowFacts
  <2>2. ASSUME NEW q \in Rows, Claim(q) \/ Send(q) \/ Answer(q) \/ ApplyOutcome(q)
        PROVE  wave'[r].step = "idle"
    <3>1. q # r
      BY <1>3, <2>2
    <3> QED
      BY <1>1, <2>2, <3>1 DEF Claim, Send, Answer, ApplyOutcome, IInv, TypeOK
  <2>3. CASE UNCHANGED wave
    BY <1>1, <2>3
  <2>4. CASE Crash
    BY <1>1, <2>4, RowFacts DEF Crash
  <2> QED
    BY <2>1, <2>2, <2>3, <2>4 DEF Next, SubmitNext, SweepNext, SweepRead, Look, Judge,
       Abandon, Consume, DeadlinePasses, ConversionEnds, vars
<1>5. sweep'[r].step # "overdue"
  <2>1. CASE SweepRead
    BY <2>1, RowFacts DEF SweepRead
  <2>2. CASE Look(r)
    <3>1. sweep[r].step = "read" /\ sweep[r].read.key = sweep[r].read.attempt
      BY <1>1, <2>2 DEF Look, Fits, SweepFits
    <3>2. CASE IsOverdue(sweep[r].read)
      <4>1. sweep[r].read.attempt = row[r].attempt
        BY <1>1, <3>1, <3>2 DEF Fits, SweepFits, IsOverdue
      <4>2. Present(r, sweep[r].read)
        BY <1>1, <3>1, <4>1 DEF Present, Conversion
      <4> QED
        BY <2>2, <4>2, RowFacts DEF Look, IInv, TypeOK, SweepSlot
    <3>3. CASE ~IsOverdue(sweep[r].read)
      BY <2>2, <3>3, RowFacts DEF Look, IInv, TypeOK, SweepSlot
    <3> QED
      BY <3>2, <3>3
  <2>3. ASSUME NEW q \in Rows \ {r}, Look(q) PROVE sweep'[r] = sweep[r]
    BY <2>3 DEF Look, IInv, TypeOK
  <2>4. ASSUME NEW q \in Rows, Judge(q) PROVE sweep'[r] = sweep[r] \/ sweep'[r] = Idle
    BY <2>4 DEF Judge, IInv, TypeOK
  <2>5. CASE UNCHANGED sweep
    BY <1>1, <2>5
  <2>6. CASE Crash
    BY <1>1, <2>6, RowFacts DEF Crash
  <2> QED
    BY <1>1, <2>1, <2>2, <2>3, <2>4, <2>5, <2>6, RowFacts DEF Next, SubmitNext, SweepNext,
       WaveRead, Claim, Send, Answer, ApplyOutcome, Abandon, Consume, DeadlinePasses,
       ConversionEnds, vars
<1>6. ~Judge(r) => row'[r].attempt = row[r].attempt
  BY <1>3, AttemptKept
<1>7. row'[r].attempt = row[r].attempt /\ row'[r].status \notin {"pending", "failed"}
  <2>1. CASE Judge(r)
    <3>1. Verdict(r)
      BY <2>1, VerdictIs
    <3>2. UNCHANGED row \/ row' = [row EXCEPT ![r] = WithStatus(row[r], "completed")]
      BY <1>1, <3>1 DEF Verdict
    <3> QED
      BY <1>1, <3>2, StatusFacts, WithStatusFacts DEF IInv, TypeOK
  <2>2. ASSUME ~Judge(r) PROVE row'[r].status \notin {"pending", "failed"}
    <3>1. CASE row'[r] = row[r]
      BY <1>1, <3>1
    <3>2. CASE Abandon
      BY <1>1, <3>2, Slots, StatusFacts, WithStatusFacts DEF Abandon
    <3>3. CASE Consume(r)
      <4>1. row' = [row EXCEPT ![r] = WithStatus(row[r], "consumed")]
        BY <3>3 DEF Consume
      <4> QED
        BY <1>1, <4>1, StatusFacts, WithStatusFacts DEF IInv, TypeOK
    <3>4. CASE DeadlinePasses(r)
      <4>1. row' = [row EXCEPT ![r] = [row[r] EXCEPT !.deadline = "passed"]]
        BY <3>4 DEF DeadlinePasses
      <4> QED
        BY <1>1, <4>1 DEF IInv, TypeOK, Row
    <3>5. ASSUME NEW q \in Rows \ {r},
                 Claim(q) \/ ApplyOutcome(q) \/ Judge(q) \/ Consume(q) \/ DeadlinePasses(q)
          PROVE  row'[r] = row[r]
      BY <3>5 DEF Claim, ApplyOutcome, Judge, Consume, DeadlinePasses, Swap, IInv, TypeOK
    <3> QED
      BY <1>3, <2>2, <3>1, <3>2, <3>3, <3>4, <3>5 DEF Next, SubmitNext, SweepNext, WaveRead,
         Send, Answer, SweepRead, Look, ConversionEnds, Crash, vars
  <2> QED
    BY <1>6, <2>1, <2>2
<1> QED
  BY <1>1, <1>2, <1>4, <1>5, <1>7 DEF Landed

\* A result that landed with no tick holding a decision against it is never retried
\* nor written off, however late the next sweep comes (_sweep_doctor_job).
THEOREM LateResultsWin == Spec => LateResultWins
<1>1. IInv /\ [Next]_vars => [\A r \in Rows : StaysLanded(r)]_vars
  BY LandedStays DEF StaysLanded
<1>2. LateResultWins <=> [][\A r \in Rows : StaysLanded(r)]_vars
  BY PTL DEF LateResultWins, StaysLanded
<1> QED
  BY <1>1, <1>2, Invariance, PTL DEF Spec
=============================================================================
