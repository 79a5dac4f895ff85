-------------------------- MODULE RunpodJobs_proofs --------------------------
(***************************************************************************)
(* Proofs about RunpodJobs, for any rows, attempts, cap, faults and mode:   *)
(* the types, the finality of a finished row, and the concurrency cap;      *)
(* then, of one loop, that a key is signed once and that the contract is    *)
(* kept; then, without the faults that orphan a job, that none is.          *)
(***************************************************************************)
EXTENDS RunpodJobs, TLAPS, FiniteSetTheorems, SequenceTheorems

-----------------------------------------------------------------------------
(* The inductive invariant.  n is the number of provider jobs so far, and   *)
(* every provider id a row or an actor holds is one of theirs.  An actor    *)
(* holds a copy of a row in the status its step needs, and a retry is       *)
(* decided only with an attempt left.                                       *)

RowFits(cur, n) == cur \in Row /\ cur.ext <= n

WaveFits(slot, n) ==
  /\ slot \in WaveSlot
  /\ slot.id <= n
  /\ slot.step = "read" => slot.read.status = "pending"
  /\ slot.step \notin {"idle", "read"} =>
       slot.read.status = "submitted" /\ slot.read.key \in Attempts

SweepFits(slot, n) ==
  /\ slot \in SweepSlot
  /\ slot.read.ext <= n
  /\ slot.step = "stranded" => slot.read.status = "pending"
  /\ slot.step \notin {"idle", "stranded", "cancel"} => slot.read.status \in InFlight
  /\ slot.step = "retry" => ~OutOfAttempts(slot.read)

SlotsFit == \A r \in Rows : /\ RowFits(row[r], Len(jobs))
                           /\ WaveFits(wave[r], Len(jobs))
                           /\ SweepFits(sweep[r], Len(jobs))

\* The rows that take up room: in flight, or read for a wave under way.
Held == {r \in Rows : row[r].status \in InFlight \/ wave[r].step = "read"}

IInv == TypeOK /\ SlotsFit

-----------------------------------------------------------------------------
(* The row operators keep rows well formed.                                *)

LEMMA RowFacts ==
  /\ NewRow \in Row
  /\ \A cur \in Row : /\ cur.ext \in Nat /\ cur.attempt \in Nat
                      /\ cur.status \in Statuses
                      /\ cur.key \in Attempts \cup {NoKey}
BY JobRowsAssumption DEF Row, NewRow, Statuses, Open, InFlight, Attempts, Ids, NoId, NoKey

LEMMA WithStatusFacts ==
  ASSUME NEW cur \in Row, NEW s \in Statuses
  PROVE  /\ WithStatus(cur, s) \in Row
         /\ WithStatus(cur, s).status = s
         /\ WithStatus(cur, s).ext = cur.ext
BY DEF WithStatus, Row

LEMMA ClaimedFacts ==
  ASSUME NEW cur \in Row, NEW read \in Row, NEW stamp
  PROVE  /\ Claimed(cur, read, stamp) \in Row
         /\ Claimed(cur, read, stamp).status = "submitted"
         /\ Claimed(cur, read, stamp).key \in Attempts
         /\ Claimed(cur, read, stamp).ext = cur.ext
BY DEF Claimed, Row, Statuses, Open, InFlight

LEMMA DeferredFacts ==
  ASSUME NEW cur \in Row
  PROVE  Deferred(cur) \in Row /\ Deferred(cur).ext = NoId
BY DEF Deferred, Row, Statuses, Open

LEMMA RetriedFacts ==
  ASSUME NEW cur \in Row, NEW read \in Row, ~OutOfAttempts(read)
  PROVE  Retried(cur, read) \in Row /\ Retried(cur, read).ext = NoId
<1>1. read.attempt + 1 \in Attempts
  BY JobRowsAssumption DEF Row, Attempts, OutOfAttempts
<1> QED
  BY <1>1 DEF Retried, Row, Statuses, Open

LEMMA ProgressedFacts ==
  ASSUME NEW cur \in Row, NEW read \in Row, NEW s \in Statuses
  PROVE  /\ Progressed(cur, read, s) \in Row
         /\ Progressed(cur, read, s).status = s
         /\ Progressed(cur, read, s).ext = cur.ext
BY DEF Progressed, WithStatus, Row

LEMMA CancelFacts ==
  ASSUME jobs \in Seq(PJob), NEW ids, CancelJobs(ids)
  PROVE  jobs' \in Seq(PJob) /\ Len(jobs') = Len(jobs)
<1>1. CASE UNCHANGED jobs
  BY <1>1
<1>2. CASE jobs' = Stopped(ids)
  <2>1. jobs \in [1..Len(jobs) -> PJob] /\ Len(jobs) \in Nat /\ DOMAIN jobs = 1..Len(jobs)
    OBVIOUS
  <2>2. \A i \in 1..Len(jobs) : [jobs[i] EXCEPT !.state = "cancelled"] \in PJob
    BY <2>1 DEF PJob
  <2>3. Stopped(ids) \in [1..Len(jobs) -> PJob]
    BY <2>1, <2>2 DEF Stopped
  <2> QED
    BY <1>2, <2>1, <2>3, IsASeq
<1> QED
  BY <1>1, <1>2 DEF CancelJobs

-----------------------------------------------------------------------------
(* What every step but the reading of a wave does: it leaves a slot alone    *)
(* or replaces it with one that fits, moves no finished row, and takes up    *)
(* no room.                                                                  *)

RowMoves(r, cur) ==
  \/ cur = row[r]
  \/ /\ row[r].status \notin Terminal
     /\ RowFits(cur, Len(jobs))
     /\ cur.status \in InFlight =>
          row[r].status \in InFlight \/ wave[r].step = "read"

WaveMoves(r, slot, n) ==
  slot = wave[r] \/ (WaveFits(slot, n) /\ slot.step # "read")

SweepMoves(r, slot) == slot = sweep[r] \/ SweepFits(slot, Len(jobs))

RowsStep ==
  /\ row' \in [Rows -> Row]
  /\ \A r \in Rows : RowMoves(r, row'[r])

WaveStep ==
  /\ wave' \in [Rows -> WaveSlot]
  /\ \A r \in Rows : WaveMoves(r, wave'[r], Len(jobs'))

SweepStep ==
  /\ sweep' \in [Rows -> SweepSlot]
  /\ \A r \in Rows : SweepMoves(r, sweep'[r])

JobsStep ==
  /\ jobs' \in Seq(PJob)
  /\ Len(jobs') \in Nat
  /\ Len(jobs) <= Len(jobs') /\ Len(jobs') <= MaxPosts

RestStep ==
  /\ web' \in WebSlot
  /\ objects' \in SUBSET (Rows \X Attempts)
  /\ crashes' \in 0..MaxCrashes

Step == RowsStep /\ WaveStep /\ SweepStep /\ JobsStep /\ RestStep

LEMMA LenJobs == ASSUME IInv PROVE Len(jobs) \in Nat
BY LenProperties DEF IInv, TypeOK

\* The parts of Step that hold when the variable does not change.
LEMMA Unmoved ==
  ASSUME IInv
  PROVE  /\ UNCHANGED row => RowsStep
         /\ UNCHANGED wave => WaveStep
         /\ UNCHANGED sweep => SweepStep
         /\ UNCHANGED jobs => JobsStep
         /\ UNCHANGED <<web, objects, crashes>> => RestStep
<1>1. UNCHANGED row => RowsStep
  BY DEF IInv, TypeOK, RowsStep, RowMoves
<1>2. UNCHANGED wave => WaveStep
  BY DEF IInv, TypeOK, WaveStep, WaveMoves
<1>3. UNCHANGED sweep => SweepStep
  BY DEF IInv, TypeOK, SweepStep, SweepMoves
<1>4. UNCHANGED jobs => JobsStep
  BY LenJobs, JobRowsAssumption DEF IInv, TypeOK, JobsStep
<1>5. UNCHANGED <<web, objects, crashes>> => RestStep
  BY DEF IInv, TypeOK, RestStep
<1> QED
  BY <1>1, <1>2, <1>3, <1>4, <1>5

\* What is known of one row's slots.
LEMMA Slots ==
  ASSUME IInv, NEW r \in Rows
  PROVE  /\ RowFits(row[r], Len(jobs)) /\ WaveFits(wave[r], Len(jobs))
         /\ SweepFits(sweep[r], Len(jobs))
         /\ row[r] \in Row /\ wave[r].read \in Row /\ sweep[r].read \in Row
         /\ wave[r] \in WaveSlot /\ sweep[r] \in SweepSlot
         /\ wave[r].id \in Nat
         /\ row[r].ext <= Len(jobs) /\ wave[r].id <= Len(jobs)
         /\ sweep[r].read.ext <= Len(jobs)
BY DEF IInv, SlotsFit, RowFits, WaveFits, SweepFits, WaveSlot, SweepSlot, Ids, NoId

LEMMA IdleFits ==
  ASSUME IInv, NEW n \in Nat
  PROVE  /\ WaveFits(WaveIdle, n) /\ SweepFits(SweepIdle, n)
         /\ WaveIdle.step = "idle" /\ WaveIdle \in WaveSlot
         /\ SweepIdle \in SweepSlot
BY RowFacts DEF WaveIdle, SweepIdle, WaveSlot, SweepSlot, WaveSteps, SweepSteps,
   NewRow, NoId, WaveFits, SweepFits

\* Replacing one slot.
LEMMA WaveSet ==
  ASSUME IInv, NEW r \in Rows, NEW slot, wave' = [wave EXCEPT ![r] = slot],
         WaveMoves(r, slot, Len(jobs'))
  PROVE  WaveStep
BY Slots DEF IInv, TypeOK, WaveStep, WaveMoves, WaveFits

LEMMA SweepSet ==
  ASSUME IInv, NEW r \in Rows, NEW slot, sweep' = [sweep EXCEPT ![r] = slot],
         SweepMoves(r, slot)
  PROVE  SweepStep
BY Slots DEF IInv, TypeOK, SweepStep, SweepMoves, SweepFits

LEMMA RowSet ==
  ASSUME IInv, NEW r \in Rows, NEW cur, row' = [row EXCEPT ![r] = cur],
         RowMoves(r, cur)
  PROVE  RowsStep
BY Slots DEF IInv, TypeOK, RowsStep, RowMoves, RowFits

\* A swap that wins found the row in the status of the copy.
LEMMA SwapStep ==
  ASSUME IInv, NEW r \in Rows, NEW read \in Row, NEW new, Swap(r, read, new),
         RowFits(new, Len(jobs)),
         read.status \notin Terminal,
         new.status \in InFlight => read.status \in InFlight \/ wave[r].step = "read"
  PROVE  RowsStep
<1>1. CASE Matches(row[r], read)
  BY <1>1, RowSet DEF Swap, RowMoves, Matches
<1>2. CASE ~Matches(row[r], read)
  BY <1>2, Unmoved DEF Swap
<1> QED
  BY <1>1, <1>2

LEMMA CancelStep == ASSUME IInv, NEW ids, CancelJobs(ids) PROVE JobsStep
BY CancelFacts, LenJobs, JobRowsAssumption DEF IInv, TypeOK, JobsStep

LEMMA StatusFacts ==
  /\ InFlight \cap Terminal = {} /\ "pending" \notin Terminal
  /\ "pending" \notin InFlight /\ "submitted" \in InFlight
  /\ Open \cap Terminal = {} /\ Open \subseteq Statuses /\ InFlight \subseteq Statuses
  /\ \A s \in {"completed", "failed", "cancelled", "consumed"} :
       s \in Statuses /\ s \notin InFlight
BY DEF InFlight, Terminal, Open, Dead, Statuses

\* Writing a row off or finishing it takes up no room.
LEMMA EndingFits ==
  ASSUME IInv, NEW r \in Rows,
         NEW s \in {"completed", "failed", "cancelled", "consumed"}
  PROVE  /\ RowFits(WithStatus(row[r], s), Len(jobs))
         /\ WithStatus(row[r], s).status \notin InFlight
<1>1. s \in Statuses /\ s \notin InFlight
  BY StatusFacts
<1> QED
  BY <1>1, Slots, WithStatusFacts DEF RowFits

-----------------------------------------------------------------------------
(* The submit tick.                                                         *)

LEMMA ClaimStep == ASSUME IInv, NEW r \in Rows, Claim(r) PROVE Step
<1> DEFINE read == wave[r].read
           new  == Claimed(row[r], read, CeilingOnce(read))
           held == Claimed(read, read, CeilingOnce(read))
<1>1. /\ read \in Row /\ read.status = "pending" /\ wave[r].step = "read"
      /\ row[r] \in Row /\ row[r].ext <= Len(jobs)
  BY Slots DEF Claim, WaveFits
<1>2. RowFits(new, Len(jobs)) /\ held \in Row /\ held.status = "submitted"
      /\ held.key \in Attempts
  BY <1>1, ClaimedFacts DEF RowFits
<1>3. Swap(r, read, new)
  BY DEF Claim
<1> HIDE DEF new, held
<1>4. RowsStep
  BY <1>1, <1>2, <1>3, SwapStep, StatusFacts
<1>5. WaveStep
  <2>1. CASE wave' = [wave EXCEPT ![r] = WaveIdle]
    BY <2>1, WaveSet, IdleFits, LenJobs DEF WaveMoves, Claim
  <2>2. ASSUME NEW step \in {"claimed", "refused"},
               wave' = [wave EXCEPT ![r] =
                 [step |-> step, id |-> NoId,
                  fresh |-> CeilingOnce(read) # {}, read |-> held]]
        PROVE  WaveStep
    <3> DEFINE slot == [step |-> step, id |-> NoId,
                        fresh |-> CeilingOnce(read) # {}, read |-> held]
    <3>1. slot \in WaveSlot /\ slot.step = step /\ slot.read = held /\ slot.id = 0
      BY <1>2 DEF WaveSlot, WaveSteps, NoId
    <3>2. Len(jobs') = Len(jobs)
      BY DEF Claim
    <3>3. wave' = [wave EXCEPT ![r] = slot]
      BY <2>2
    <3> HIDE DEF slot
    <3>4. WaveMoves(r, slot, Len(jobs'))
      BY <1>2, <3>1, <3>2, LenJobs DEF WaveMoves, WaveFits
    <3> QED
      BY <3>3, <3>4, WaveSet
  <2> QED
    BY <2>1, <2>2 DEF Claim, held
<1> QED
  BY <1>4, <1>5, Unmoved DEF Claim, Step

LEMMA PostStep == ASSUME IInv, NEW r \in Rows, Post(r) PROVE Step
<1>1. /\ wave[r].read.key \in Attempts /\ wave[r].read.status = "submitted"
      /\ wave[r] \in WaveSlot /\ wave[r].id <= Len(jobs) /\ wave[r].id \in Nat
      /\ Len(jobs) \in Nat
  BY Slots, LenJobs DEF Post, WaveFits
<1>2. ASSUME NEW heard \in BOOLEAN, Accept(r, heard)
      PROVE  JobsStep /\ Len(jobs') = Len(jobs) + 1 /\ Len(jobs) + 1 \in Ids
  <2> DEFINE job == [row |-> r, attempt |-> wave[r].read.key,
                     heard |-> heard, state |-> "queued"]
  <2>1. job \in PJob
    BY <1>1 DEF PJob, Live
  <2>2. jobs \in Seq(PJob) /\ jobs' = Append(jobs, job) /\ Len(jobs) < MaxPosts
    BY <1>2 DEF Accept, IInv, TypeOK
  <2> HIDE DEF job
  <2>3. jobs' \in Seq(PJob) /\ Len(jobs') = Len(jobs) + 1
    BY <2>1, <2>2, AppendProperties
  <2> QED
    BY <1>1, <2>2, <2>3, JobRowsAssumption DEF JobsStep, Ids
<1>3. CASE Accept(r, TRUE)
           /\ wave' = [wave EXCEPT ![r] =
                [@ EXCEPT !.step = "accepted", !.id = Len(jobs) + 1]]
  <2> DEFINE slot == [wave[r] EXCEPT !.step = "accepted", !.id = Len(jobs) + 1]
  <2>0. JobsStep /\ Len(jobs') = Len(jobs) + 1 /\ Len(jobs) + 1 \in Ids
    BY <1>2, <1>3
  <2>9. Len(jobs') \in Nat
    BY <2>0 DEF JobsStep
  <2>1. slot \in WaveSlot /\ slot.id = Len(jobs') /\ slot.step = "accepted"
        /\ slot.read = wave[r].read /\ Len(jobs') \in Nat /\ JobsStep
    BY <1>1, <2>0, <2>9 DEF WaveSlot, WaveSteps
  <2>2. wave' = [wave EXCEPT ![r] = slot]
    BY <1>3
  <2> HIDE DEF slot
  <2>3. WaveMoves(r, slot, Len(jobs'))
    BY <1>1, <2>1 DEF WaveMoves, WaveFits
  <2> QED
    BY <2>1, <2>2, <2>3, WaveSet, Unmoved DEF Post, Step
<1>4. ASSUME NEW answer \in {"rejected", "busy", "refused"}, UNCHANGED jobs,
             wave' = [wave EXCEPT ![r] = [@ EXCEPT !.step = answer]]
      PROVE  Step
  <2> DEFINE slot == [wave[r] EXCEPT !.step = answer]
  <2>1. slot \in WaveSlot /\ slot.id = wave[r].id /\ slot.step = answer
        /\ slot.read = wave[r].read /\ Len(jobs') = Len(jobs)
    BY <1>1, <1>4 DEF WaveSlot, WaveSteps
  <2>2. wave' = [wave EXCEPT ![r] = slot]
    BY <1>4
  <2> HIDE DEF slot
  <2>3. WaveMoves(r, slot, Len(jobs'))
    BY <1>1, <2>1 DEF WaveMoves, WaveFits
  <2> QED
    BY <1>4, <2>2, <2>3, WaveSet, Unmoved DEF Post, Step
<1>5. CASE /\ Accept(r, FALSE) \/ UNCHANGED jobs
           /\ wave' = [wave EXCEPT ![r] = WaveIdle]
  <2>1. JobsStep /\ Len(jobs') \in Nat
    BY <1>1, <1>2, <1>5, Unmoved DEF JobsStep
  <2> QED
    BY <1>5, <2>1, WaveSet, IdleFits, Unmoved DEF Post, Step, WaveMoves
<1> QED
  BY <1>3, <1>4, <1>5 DEF Post

\* The steps that end the wave's hold on a row.
LEMMA ReleaseStep ==
  ASSUME IInv, NEW r \in Rows, wave' = [wave EXCEPT ![r] = WaveIdle],
         RowsStep, JobsStep, UNCHANGED <<sweep, web, objects, crashes>>
  PROVE  Step
BY WaveSet, IdleFits, Unmoved DEF Step, WaveMoves, JobsStep

LEMMA RecordIdStep == ASSUME IInv, NEW r \in Rows, RecordId(r) PROVE Step
<1> DEFINE read == wave[r].read
           new  == [row[r] EXCEPT !.ext = wave[r].id]
           slot == [wave[r] EXCEPT !.step = "cancel"]
<1>1. /\ read \in Row /\ read.status = "submitted" /\ read.key \in Attempts
      /\ row[r] \in Row /\ wave[r] \in WaveSlot /\ wave[r].id <= Len(jobs)
      /\ wave[r].step = "accepted"
  BY Slots DEF RecordId, WaveFits
<1>2. RowFits(new, Len(jobs))
  BY <1>1 DEF RowFits, Row, WaveSlot
<1>3. slot \in WaveSlot /\ slot.id = wave[r].id /\ slot.step = "cancel"
      /\ slot.read = read
  BY <1>1 DEF WaveSlot, WaveSteps
<1>4. Swap(r, read, new)
  BY DEF RecordId
<1>5. wave' = [wave EXCEPT ![r] = WaveIdle] \/ wave' = [wave EXCEPT ![r] = slot]
  BY DEF RecordId
<1>6. Len(jobs') = Len(jobs)
  BY DEF RecordId
<1> HIDE DEF new, slot
<1>7. RowsStep
  BY <1>1, <1>2, <1>4, SwapStep, StatusFacts
<1>8. WaveMoves(r, slot, Len(jobs')) /\ WaveMoves(r, WaveIdle, Len(jobs'))
  BY <1>1, <1>3, <1>6, IdleFits, LenJobs DEF WaveMoves, WaveFits
<1> QED
  BY <1>5, <1>7, <1>8, WaveSet, Unmoved DEF RecordId, Step

LEMMA CancelUnrecordedStep ==
  ASSUME IInv, NEW r \in Rows, CancelUnrecorded(r) PROVE Step
BY CancelStep, Unmoved, ReleaseStep DEF CancelUnrecorded

LEMMA DeferStep == ASSUME IInv, NEW r \in Rows, Defer(r) PROVE Step
<1>1. RowFits(Deferred(row[r]), Len(jobs))
  BY Slots, DeferredFacts, LenJobs DEF RowFits, NoId
<1>2. wave[r].read.status = "submitted"
  BY Slots DEF Defer, WaveFits
<1>3. RowsStep
  BY <1>1, <1>2, Slots, SwapStep, StatusFacts DEF Defer
<1> QED
  BY <1>3, Unmoved, ReleaseStep DEF Defer

LEMMA RetryOrFailSubmitStep ==
  ASSUME IInv, NEW r \in Rows, RetryOrFailSubmit(r) PROVE Step
<1> DEFINE read == wave[r].read
<1>1. read.status = "submitted" /\ read \in Row /\ row[r] \in Row
      /\ row[r].ext <= Len(jobs)
  BY Slots DEF RetryOrFailSubmit, WaveFits
<1>2. CASE Swap(r, read, WithStatus(row[r], "failed"))
  <2>1. RowFits(WithStatus(row[r], "failed"), Len(jobs))
    BY <1>1, WithStatusFacts, StatusFacts DEF RowFits
  <2> QED
    BY <1>1, <1>2, <2>1, SwapStep, StatusFacts, Unmoved, ReleaseStep
       DEF RetryOrFailSubmit
<1>3. CASE ~OutOfAttempts(read) /\ Swap(r, read, Retried(row[r], read))
  <2>1. RowFits(Retried(row[r], read), Len(jobs))
    BY <1>1, <1>3, RetriedFacts, LenJobs DEF RowFits, NoId
  <2> QED
    BY <1>1, <1>3, <2>1, SwapStep, StatusFacts, Unmoved, ReleaseStep
       DEF RetryOrFailSubmit
<1> QED
  BY <1>2, <1>3 DEF RetryOrFailSubmit

-----------------------------------------------------------------------------
(* The sweep tick.                                                          *)

LEMMA LookStep == ASSUME IInv, NEW r \in Rows, Look(r) PROVE Step
<1>1. /\ sweep[r].read \in Row /\ sweep[r].read.status \in InFlight
      /\ sweep[r] \in SweepSlot /\ sweep[r].read.ext <= Len(jobs)
  BY Slots DEF Look, SweepFits
<1>2. PICK answer \in {"idle", "unknown", "queued", "running", "done", "dead", "retriable"} :
        sweep' = [sweep EXCEPT ![r] = IF answer = "idle" THEN SweepIdle
                                      ELSE [@ EXCEPT !.step = answer]]
  <2> DEFINE read == sweep[r].read
  <2>1. ASSUME read.ext # NoId
        PROVE  PollAnswers(r, read) \subseteq
                 {"unknown", "queued", "running", "done", "dead", "retriable"}
    <3>1. jobs \in [1..Len(jobs) -> PJob] /\ read.ext \in 1..Len(jobs)
      BY <1>1, <2>1, LenJobs DEF IInv, TypeOK, Row, Ids, NoId
    <3>2. jobs[read.ext].state \in {"queued", "running", "done", "failed", "cancelled"}
      BY <3>1 DEF PJob, Live
    <3> QED
      BY <3>2 DEF PollAnswers, Live
  <2>2. Absent(read) \in {"retriable", "idle"}
    BY DEF Absent
  <2> QED
    BY <2>1, <2>2 DEF Look
<1> DEFINE slot == [sweep[r] EXCEPT !.step = answer]
<1>3. slot \in SweepSlot /\ slot.step = answer /\ slot.read = sweep[r].read
  BY <1>1 DEF SweepSlot, SweepSteps
<1>4. sweep' = [sweep EXCEPT ![r] = SweepIdle] \/ sweep' = [sweep EXCEPT ![r] = slot]
  BY <1>2
<1> HIDE DEF slot
<1>5. SweepMoves(r, slot) /\ SweepMoves(r, SweepIdle)
  BY <1>1, <1>3, IdleFits, LenJobs DEF SweepMoves, SweepFits
<1> QED
  BY <1>4, <1>5, SweepSet, Unmoved DEF Look, Step

\* The steps that end the sweep's hold on a row.
LEMMA SweepReleaseStep ==
  ASSUME IInv, NEW r \in Rows, sweep' = [sweep EXCEPT ![r] = SweepIdle],
         RowsStep, JobsStep, UNCHANGED <<wave, web, objects, crashes>>
  PROVE  Step
BY SweepSet, IdleFits, LenJobs, Unmoved DEF Step, SweepMoves

LEMMA CompleteStep == ASSUME IInv, NEW r \in Rows, Complete(r) PROVE Step
<1>1. sweep[r].read.status \in InFlight
  BY Slots DEF Complete, SweepFits
<1>2. RowFits(WithStatus(row[r], "completed"), Len(jobs))
  BY EndingFits
<1>3. WithStatus(row[r], "completed").status \notin InFlight
  BY EndingFits
<1>4. RowsStep
  BY <1>1, <1>2, <1>3, Slots, SwapStep, StatusFacts DEF Complete
<1> QED
  BY <1>4, Unmoved, SweepReleaseStep DEF Complete

LEMMA RecordProgressStep == ASSUME IInv, NEW r \in Rows, RecordProgress(r) PROVE Step
<1> DEFINE read   == sweep[r].read
           status == CASE sweep[r].step = "queued"  -> "in_queue"
                       [] sweep[r].step = "running" -> "in_progress"
                       [] OTHER                     -> read.status
           fresh  == Progressed(read, read, status)
           new    == Progressed(row[r], read, status)
           slot   == [step |-> "retriable", read |-> fresh]
<1>1. /\ read \in Row /\ read.status \in InFlight /\ row[r] \in Row
      /\ row[r].ext <= Len(jobs) /\ read.ext <= Len(jobs)
  BY Slots DEF RecordProgress, SweepFits
<1>2. status \in InFlight
  BY <1>1 DEF RecordProgress, InFlight
<1>3. status \in Statuses
  BY <1>2, StatusFacts
<1>4. Swap(r, read, new)
  BY DEF RecordProgress
<1>5. sweep' = [sweep EXCEPT ![r] = SweepIdle] \/ sweep' = [sweep EXCEPT ![r] = slot]
  BY DEF RecordProgress
<1> HIDE DEF status, read
<1>6. new \in Row /\ new.ext = row[r].ext
  BY <1>1, <1>3, ProgressedFacts
<1>7. fresh \in Row /\ fresh.status = status /\ fresh.ext = read.ext
  BY <1>1, <1>3, ProgressedFacts
<1>8. RowFits(new, Len(jobs))
  BY <1>1, <1>6 DEF RowFits
<1> HIDE DEF new, fresh
<1>9. slot \in SweepSlot /\ slot.step = "retriable" /\ slot.read = fresh
  BY <1>7 DEF SweepSlot, SweepSteps
<1>10. RowsStep
  BY <1>1, <1>8, <1>4, SwapStep, StatusFacts
<1>11. SweepMoves(r, slot) /\ SweepMoves(r, SweepIdle)
  BY <1>1, <1>2, <1>7, <1>9, IdleFits, LenJobs DEF SweepMoves, SweepFits
<1> QED
  BY <1>5, <1>10, <1>11, SweepSet, Unmoved DEF RecordProgress, Step

LEMMA FailSweptStep == ASSUME IInv, NEW r \in Rows, FailSwept(r) PROVE Step
<1> DEFINE read == sweep[r].read
           new  == WithStatus(row[r], "failed")
           slot == [sweep[r] EXCEPT !.step = "cancel"]
<1>1. /\ read \in Row /\ read.status \in InFlight \cup {"pending"} /\ row[r] \in Row
      /\ row[r].ext <= Len(jobs) /\ read.ext <= Len(jobs) /\ sweep[r] \in SweepSlot
  BY Slots DEF FailSwept, SweepFits
<1>2. RowFits(new, Len(jobs)) /\ new.status \notin InFlight
  BY <1>1, WithStatusFacts, StatusFacts DEF RowFits
<1>3. Swap(r, read, new)
  BY DEF FailSwept
<1>4. RowsStep
  BY <1>1, <1>2, <1>3, SwapStep, StatusFacts
<1>5. CASE sweep' = [sweep EXCEPT ![r] = SweepIdle]
  BY <1>4, <1>5, SweepReleaseStep, Unmoved DEF FailSwept
<1>6. CASE sweep' = [sweep EXCEPT ![r] = slot] /\ read.ext # NoId
  <2>1. slot \in SweepSlot /\ slot.step = "cancel" /\ slot.read = read
    BY <1>1 DEF SweepSlot, SweepSteps
  <2> HIDE DEF slot
  <2>2. SweepMoves(r, slot)
    BY <1>1, <2>1 DEF SweepMoves, SweepFits
  <2> QED
    BY <1>4, <1>6, <2>2, SweepSet, Unmoved DEF FailSwept, Step
<1> QED
  BY <1>5, <1>6 DEF FailSwept

LEMMA CancelFailedStep == ASSUME IInv, NEW r \in Rows, CancelFailed(r) PROVE Step
BY CancelStep, Unmoved, SweepReleaseStep DEF CancelFailed

LEMMA CancelForRetryStep == ASSUME IInv, NEW r \in Rows, CancelForRetry(r) PROVE Step
<1> DEFINE slot == [sweep[r] EXCEPT !.step = "retry"]
<1>1. /\ sweep[r] \in SweepSlot /\ sweep[r].read.ext <= Len(jobs)
      /\ sweep[r].read.status \in InFlight /\ ~OutOfAttempts(sweep[r].read)
  BY Slots DEF CancelForRetry, SweepFits
<1>2. slot \in SweepSlot /\ slot.step = "retry" /\ slot.read = sweep[r].read
  BY <1>1 DEF SweepSlot, SweepSteps
<1>3. sweep' = [sweep EXCEPT ![r] = slot]
  BY DEF CancelForRetry
<1> HIDE DEF slot
<1>4. SweepMoves(r, slot)
  BY <1>1, <1>2 DEF SweepMoves, SweepFits
<1> QED
  BY <1>3, <1>4, SweepSet, CancelStep, Unmoved DEF CancelForRetry, Step

LEMMA RetrySweptStep == ASSUME IInv, NEW r \in Rows, RetrySwept(r) PROVE Step
<1> DEFINE read == sweep[r].read
<1>1. read \in Row /\ read.status \in InFlight /\ ~OutOfAttempts(read)
  BY Slots DEF RetrySwept, SweepFits
<1>2. RowFits(Retried(row[r], read), Len(jobs))
  BY <1>1, Slots, RetriedFacts, LenJobs DEF RowFits, NoId
<1>3. RowsStep
  BY <1>1, <1>2, SwapStep, StatusFacts DEF RetrySwept
<1> QED
  BY <1>3, Unmoved, SweepReleaseStep DEF RetrySwept

\* A read fills the slots of the rows it selects and clears the others.
LEMMA ReadStep ==
  ASSUME IInv, NEW S, NEW step,
         \/ step = "read" /\ S = InFlightRows
         \/ step = "stranded" /\ S \subseteq PendingRows,
         sweep' = [r \in Rows |-> IF r \in S THEN [step |-> step, read |-> row[r]]
                                  ELSE SweepIdle],
         UNCHANGED <<row, wave, web, jobs, objects, crashes>>
  PROVE  Step
<1> DEFINE slot(r) == [step |-> step, read |-> row[r]]
<1>1. \A r \in Rows : slot(r) \in SweepSlot /\ slot(r).step = step /\ slot(r).read = row[r]
  BY Slots DEF SweepSlot, SweepSteps
<1>2. \A r \in Rows : sweep'[r] = IF r \in S THEN slot(r) ELSE SweepIdle
  OBVIOUS
<1>3. sweep' \in [Rows -> SweepSlot]
  BY <1>1, IdleFits
<1> HIDE DEF slot
<1>4. \A r \in Rows : SweepMoves(r, sweep'[r])
  BY <1>1, <1>2, Slots, IdleFits, LenJobs
     DEF SweepMoves, SweepFits, InFlightRows, PendingRows
<1> QED
  BY <1>3, <1>4, Unmoved DEF Step, SweepStep

LEMMA SweepReadStep == IInv /\ SweepRead => Step
BY ReadStep DEF SweepRead

LEMMA StrandedReadStep == IInv /\ StrandedRead => Step
BY ReadStep DEF StrandedRead

-----------------------------------------------------------------------------
(* The web, the glue, the provider, the clock and the operator.             *)

LEMMA AbandonReadStep == IInv /\ AbandonRead => Step
<1> SUFFICES ASSUME IInv, AbandonRead PROVE Step
  OBVIOUS
<1>1. web' \in WebSlot
  BY DEF AbandonRead, WebSlot, InFlightRows
<1>2. RestStep
  BY <1>1 DEF AbandonRead, RestStep, IInv, TypeOK
<1> QED
  BY <1>2, Unmoved DEF AbandonRead, Step

LEMMA AbandonUpdateStep == IInv /\ AbandonUpdate => Step
<1> SUFFICES ASSUME IInv, AbandonUpdate PROVE Step
  OBVIOUS
<1>1. \A r \in Rows : /\ RowFits(WithStatus(row[r], "cancelled"), Len(jobs))
                      /\ WithStatus(row[r], "cancelled") \in Row
                      /\ WithStatus(row[r], "cancelled").status \notin InFlight
  BY EndingFits DEF RowFits
<1>2. web.statuses \subseteq Open
  BY DEF IInv, TypeOK, WebSlot
<1>3. RowsStep
  <2>1. row' \in [Rows -> Row]
    BY <1>1, Slots DEF AbandonUpdate
  <2>2. \A r \in Rows : RowMoves(r, row'[r])
    BY <1>1, <1>2, StatusFacts DEF AbandonUpdate, RowMoves
  <2> QED
    BY <2>1, <2>2 DEF RowsStep
<1>4. RestStep
  BY DEF AbandonUpdate, RestStep, IInv, TypeOK, WebSlot
<1> QED
  BY <1>3, <1>4, Unmoved DEF AbandonUpdate, Step

LEMMA AbandonCancelStep == IInv /\ AbandonCancel => Step
<1> SUFFICES ASSUME IInv, AbandonCancel PROVE Step
  OBVIOUS
<1>1. WebIdle \in WebSlot
  BY DEF WebIdle, WebSlot
<1>2. RestStep
  BY <1>1 DEF AbandonCancel, RestStep, IInv, TypeOK
<1>3. JobsStep
  BY CancelStep DEF AbandonCancel
<1> QED
  BY <1>2, <1>3, Unmoved DEF AbandonCancel, Step

LEMMA ConsumeStep == ASSUME IInv, NEW r \in Rows, Consume(r) PROVE Step
<1>1. RowMoves(r, WithStatus(row[r], "consumed"))
  BY EndingFits DEF RowMoves, Consume, Terminal, Dead
<1>2. RowsStep
  BY <1>1, RowSet DEF Consume
<1> QED
  BY <1>2, Unmoved DEF Consume, Step

LEMMA DeadlineStep == ASSUME IInv, NEW r \in Rows, DeadlinePasses(r) PROVE Step
<1> DEFINE cur == [row[r] EXCEPT !.deadline = "passed"]
<1>1. cur \in Row /\ cur.ext = row[r].ext /\ cur.status = row[r].status
  BY Slots DEF Row
<1>2. row' = [row EXCEPT ![r] = cur]
  BY DEF DeadlinePasses
<1> HIDE DEF cur
<1>3. RowMoves(r, cur)
  BY <1>1, Slots, StatusFacts DEF RowMoves, RowFits, DeadlinePasses
<1> QED
  BY <1>2, <1>3, RowSet, Unmoved DEF DeadlinePasses, Step

LEMMA SetStateStep ==
  ASSUME IInv, NEW i \in DOMAIN jobs, NEW from,
         NEW to \in Live \cup {"done", "failed", "cancelled"}, SetState(i, from, to)
  PROVE  Step
<1>1. jobs \in [1..Len(jobs) -> PJob] /\ DOMAIN jobs = 1..Len(jobs)
  BY DEF IInv, TypeOK
<1>2. [jobs[i] EXCEPT !.state = to] \in PJob
  BY <1>1 DEF PJob
<1>3. jobs' \in [1..Len(jobs) -> PJob]
  BY <1>1, <1>2 DEF SetState
<1>4. jobs' \in Seq(PJob) /\ Len(jobs') = Len(jobs)
  BY <1>3, LenJobs, IsASeq
<1> QED
  BY <1>4, LenJobs, JobRowsAssumption, Unmoved DEF SetState, Step, JobsStep, IInv, TypeOK

LEMMA UploadStep == ASSUME IInv, NEW i \in DOMAIN jobs, Upload(i) PROVE Step
<1>1. jobs[i] \in PJob /\ jobs[i].row \in Rows /\ jobs[i].attempt \in Attempts
  <2>1. jobs \in [1..Len(jobs) -> PJob] /\ DOMAIN jobs = 1..Len(jobs)
    BY DEF IInv, TypeOK
  <2> QED
    BY <2>1 DEF PJob
<1>2. RestStep
  BY <1>1 DEF Upload, RestStep, IInv, TypeOK
<1> QED
  BY <1>2, Unmoved DEF Upload, Step

LEMMA CrashStep == IInv /\ Crash => Step
<1> SUFFICES ASSUME IInv, Crash PROVE Step
  OBVIOUS
<1>1. WebIdle \in WebSlot
  BY DEF WebIdle, WebSlot
<1>2. RestStep
  BY <1>1, RunpodAssumption DEF Crash, RestStep, IInv, TypeOK
<1>3. wave' = [r \in Rows |-> WaveIdle] => WaveStep
  BY IdleFits, LenJobs DEF WaveStep, WaveMoves, Crash
<1>4. sweep' = [r \in Rows |-> SweepIdle] => SweepStep
  BY IdleFits, LenJobs DEF SweepStep, SweepMoves
<1> QED
  BY <1>2, <1>3, <1>4, Unmoved DEF Crash, Step

-----------------------------------------------------------------------------
(* Every action is a Step, but WaveRead.                                    *)

LEMMA NextStep == IInv /\ [Next]_vars => Step \/ WaveRead
<1> SUFFICES ASSUME IInv, [Next]_vars PROVE Step \/ WaveRead
  OBVIOUS
<1>1. CASE UNCHANGED vars
  BY <1>1, Unmoved DEF vars, Step
<1>2. CASE SubmitNext
  BY <1>2, ClaimStep, PostStep, RecordIdStep, CancelUnrecordedStep, DeferStep,
     RetryOrFailSubmitStep DEF SubmitNext
<1>3. CASE SweepNext
  BY <1>3, SweepReadStep, StrandedReadStep, LookStep, CompleteStep,
     RecordProgressStep, FailSweptStep, CancelFailedStep, CancelForRetryStep,
     RetrySweptStep DEF SweepNext
<1>4. CASE WebNext
  BY <1>4, AbandonReadStep, AbandonUpdateStep, AbandonCancelStep DEF WebNext
<1>5. CASE ProviderNext
  <2>1. PICK i \in DOMAIN jobs : JobStarts(i) \/ JobFails(i) \/ Upload(i) \/ JobEnds(i)
    BY <1>5 DEF ProviderNext
  <2>2. JobStarts(i) => Step
    BY SetStateStep DEF JobStarts, Live
  <2>3. JobFails(i) => Step
    BY SetStateStep DEF JobFails, Live
  <2>4. JobEnds(i) => Step
    BY SetStateStep DEF JobEnds, Live
  <2> QED
    BY <2>1, <2>2, <2>3, <2>4, UploadStep
<1>6. CASE Crash
  BY <1>6, CrashStep
<1>7. CASE \E r \in Rows : Consume(r) \/ DeadlinePasses(r)
  BY <1>7, ConsumeStep, DeadlineStep
<1> QED
  BY <1>1, <1>2, <1>3, <1>4, <1>5, <1>6, <1>7 DEF Next

-----------------------------------------------------------------------------
(* The invariant.                                                           *)

LEMMA InitIInv == Init => IInv
<1> SUFFICES ASSUME Init PROVE IInv
  OBVIOUS
<1> USE RowFacts, JobRowsAssumption, RunpodAssumption
<1>1. WaveIdle \in WaveSlot /\ SweepIdle \in SweepSlot /\ WebIdle \in WebSlot
  BY DEF WaveIdle, SweepIdle, WebIdle, WaveSlot, SweepSlot, WebSlot, WaveSteps,
     SweepSteps, NoId
<1>2. jobs \in Seq(PJob) /\ Len(jobs) = 0
  <2>1. <<>> \in Seq(PJob) /\ Len(<<>>) = 0
    BY Zenon, EmptySeq
  <2> QED
    BY <2>1 DEF Init
<1>3. TypeOK
  BY <1>1, <1>2 DEF Init, TypeOK
<1>4. SlotsFit
  <2> SUFFICES ASSUME NEW r \in Rows
               PROVE  /\ RowFits(row[r], 0) /\ WaveFits(wave[r], 0)
                      /\ SweepFits(sweep[r], 0)
    BY <1>2 DEF SlotsFit
  <2>1. row[r] = NewRow /\ wave[r] = WaveIdle /\ sweep[r] = SweepIdle
    BY DEF Init
  <2>2. RowFits(NewRow, 0)
    BY DEF RowFits, NewRow, NoId
  <2>3. WaveFits(WaveIdle, 0)
    BY <1>1 DEF WaveFits, WaveIdle, NoId
  <2>4. SweepFits(SweepIdle, 0)
    BY <1>1 DEF SweepFits, SweepIdle, NewRow, NoId
  <2> QED
    BY <2>1, <2>2, <2>3, <2>4
<1> QED
  BY <1>3, <1>4 DEF IInv

LEMMA StepIInv == IInv /\ Step => IInv'
<1> SUFFICES ASSUME IInv, Step PROVE IInv'
  OBVIOUS
<1>1. TypeOK'
  BY DEF Step, RowsStep, WaveStep, SweepStep, JobsStep, RestStep, TypeOK
<1>2. Len(jobs) \in Nat /\ Len(jobs') \in Nat /\ Len(jobs) <= Len(jobs')
  BY LenJobs DEF Step, JobsStep
<1>3. ASSUME NEW r \in Rows
      PROVE  /\ RowFits(row'[r], Len(jobs')) /\ WaveFits(wave'[r], Len(jobs'))
             /\ SweepFits(sweep'[r], Len(jobs'))
  <2>1. RowFits(row'[r], Len(jobs)) /\ row'[r].ext \in Nat
    BY Slots, RowFacts DEF Step, RowsStep, RowMoves, RowFits
  <2>2. SweepFits(sweep'[r], Len(jobs)) /\ sweep'[r].read.ext \in Nat
    BY Slots, RowFacts DEF Step, SweepStep, SweepMoves, SweepFits, SweepSlot
  <2>3. WaveFits(wave'[r], Len(jobs'))
    BY <1>2, Slots DEF Step, WaveStep, WaveMoves, WaveFits
  <2> QED
    BY <1>2, <2>1, <2>2, <2>3 DEF RowFits, SweepFits
<1>4. SlotsFit'
  BY <1>3 DEF SlotsFit
<1> QED
  BY <1>1, <1>4 DEF IInv

\* What reading a wave leaves in the slots.
LEMMA WaveReadSlots ==
  ASSUME IInv, WaveRead
  PROVE  \E S \in SUBSET PendingRows :
           /\ Cardinality(S) <= Cap - Cardinality(InFlightRows)
           /\ wave' \in [Rows -> WaveSlot]
           /\ \A r \in Rows : /\ WaveFits(wave'[r], Len(jobs))
                              /\ wave'[r].step = "read" => r \in S
<1>1. PICK S \in SUBSET PendingRows :
        /\ Cardinality(S) <= Cap - Cardinality(InFlightRows)
        /\ wave' = [r \in Rows |->
            IF r \in S THEN [WaveIdle EXCEPT !.step = "read", !.read = row[r]]
                       ELSE WaveIdle]
  BY DEF WaveRead
<1> DEFINE slot(r) == [WaveIdle EXCEPT !.step = "read", !.read = row[r]]
<1>2. \A r \in S : r \in Rows /\ row[r].status = "pending"
  BY DEF PendingRows
<1>3. \A r \in Rows : slot(r) \in WaveSlot /\ slot(r).id = 0 /\ slot(r).step = "read"
                      /\ slot(r).read = row[r]
  BY Slots DEF WaveIdle, WaveSlot, WaveSteps, NoId
<1>4. \A r \in Rows : wave'[r] = IF r \in S THEN slot(r) ELSE WaveIdle
  BY <1>1
<1>5. wave' \in [Rows -> WaveSlot]
  BY <1>1, <1>3, IdleFits, LenJobs
<1> HIDE DEF slot
<1>6. ASSUME NEW r \in Rows
      PROVE  WaveFits(wave'[r], Len(jobs)) /\ (wave'[r].step = "read" => r \in S)
  <2>1. CASE r \in S
    BY <2>1, <1>2, <1>3, <1>4, LenJobs DEF WaveFits
  <2>2. CASE r \notin S
    BY <2>2, <1>4, IdleFits, LenJobs
  <2> QED
    BY <2>1, <2>2
<1> QED
  BY <1>1, <1>5, <1>6

LEMMA WaveReadIInv == IInv /\ WaveRead => IInv'
<1> SUFFICES ASSUME IInv, WaveRead PROVE IInv'
  OBVIOUS
<1>1. /\ wave' \in [Rows -> WaveSlot]
      /\ \A r \in Rows : WaveFits(wave'[r], Len(jobs))
  BY WaveReadSlots
<1>2. UNCHANGED <<row, sweep, web, jobs, objects, crashes>>
  BY DEF WaveRead
<1> QED
  BY <1>1, <1>2 DEF IInv, TypeOK, SlotsFit

LEMMA NextIInv == IInv /\ [Next]_vars => IInv'
BY NextStep, StepIInv, WaveReadIInv

LEMMA Invariance == Spec => []IInv
<1>1. Init => IInv
  BY InitIInv
<1>2. IInv /\ [Next]_vars => IInv'
  BY NextIInv
<1> QED
  BY <1>1, <1>2, PTL DEF Spec

\* Every variable keeps its type: whatever interleaving of ticks, answers,
\* faults and crashes, a row's fields stay in their ranges (the attempt never
\* exceeds the maximum, an id is one the provider gave out) and nothing an
\* actor holds is malformed (scanning/jobs.py, the writes of a row).
THEOREM TypeCorrect == Spec => []TypeOK
<1>1. IInv => TypeOK
  BY DEF IInv
<1> QED
  BY <1>1, Invariance, PTL

-----------------------------------------------------------------------------
(* A finished row is never written again.                                   *)

\* Whatever late answer, stale copy, retry, abandon or crash comes after it, a
\* row that was consumed or written off keeps every field (_write's guard and
\* the status filter of abandon_open).
THEOREM FinalRows == Spec => TerminalIsFinal
<1> DEFINE Final == \A r \in Rows : row[r].status \in Terminal => row'[r] = row[r]
<1>1. IInv /\ [Next]_vars => [Final]_row
  <2>1. Step => Final
    BY DEF Step, RowsStep, RowMoves
  <2>2. WaveRead => UNCHANGED row
    BY DEF WaveRead
  <2> QED
    BY <2>1, <2>2, NextStep
<1>2. Spec => [][Final]_row
  BY <1>1, Invariance, PTL DEF Spec
<1> QED
  BY <1>2 DEF TerminalIsFinal

-----------------------------------------------------------------------------
(* The concurrency cap.                                                     *)

HeldCap == Cardinality(Held) <= Cap

LEMMA HeldFinite == IsFiniteSet(Held) /\ IsFiniteSet(InFlightRows)
                    /\ Cardinality(Held) \in Nat /\ Cardinality(InFlightRows) \in Nat
<1>1. Held \subseteq Rows /\ InFlightRows \subseteq Rows
  BY DEF Held, InFlightRows
<1> QED
  BY <1>1, RunpodAssumption, FS_Subset, FS_CardinalityType

LEMMA StepHeld == IInv /\ HeldCap /\ Step => HeldCap'
<1> SUFFICES ASSUME IInv, HeldCap, Step PROVE Cardinality(Held') <= Cap
  BY DEF HeldCap
<1>1. Held' \subseteq Held
  BY DEF Held, Step, RowsStep, RowMoves, WaveStep, WaveMoves
<1>2. Cardinality(Held') \in Nat /\ Cardinality(Held') <= Cardinality(Held)
  BY <1>1, HeldFinite, FS_Subset, FS_CardinalityType
<1> QED
  BY <1>2, HeldFinite, RunpodAssumption DEF HeldCap

LEMMA WaveReadHeld == IInv /\ WaveRead => HeldCap'
<1> SUFFICES ASSUME IInv, WaveRead PROVE Cardinality(Held') <= Cap
  BY DEF HeldCap
<1>1. PICK S \in SUBSET PendingRows :
           /\ Cardinality(S) <= Cap - Cardinality(InFlightRows)
           /\ \A r \in Rows : wave'[r].step = "read" => r \in S
  BY WaveReadSlots
<1>2. Held' \subseteq InFlightRows \cup S
  BY <1>1 DEF Held, InFlightRows, WaveRead
<1>3. IsFiniteSet(S)
  BY RunpodAssumption, FS_Subset DEF PendingRows
<1>4. InFlightRows \cap S = {}
  BY StatusFacts DEF InFlightRows, PendingRows
<1>5. /\ IsFiniteSet(InFlightRows \cup S)
      /\ Cardinality(InFlightRows \cup S) = Cardinality(InFlightRows) + Cardinality(S)
  <2>1. Cardinality(InFlightRows \cap S) = 0
    BY <1>4, FS_EmptySet
  <2>2. Cardinality(S) \in Nat /\ Cardinality(InFlightRows) \in Nat
    BY <1>3, HeldFinite, FS_CardinalityType
  <2>3. /\ IsFiniteSet(InFlightRows \cup S)
        /\ Cardinality(InFlightRows \cup S) =
             Cardinality(InFlightRows) + Cardinality(S) - Cardinality(InFlightRows \cap S)
    BY Zenon, <1>3, HeldFinite, FS_Union
  <2> QED
    BY <2>1, <2>2, <2>3
<1>6. /\ Cardinality(S) \in Nat /\ Cardinality(InFlightRows \cup S) \in Nat
      /\ Cardinality(Held') \in Nat
      /\ Cardinality(Held') <= Cardinality(InFlightRows \cup S)
  BY <1>2, <1>3, <1>5, FS_Subset, FS_CardinalityType
<1> QED
  BY <1>1, <1>5, <1>6, HeldFinite, RunpodAssumption

\* However the submit and sweep ticks interleave, and whoever dies between a
\* claim and its answer, the rows in flight never exceed the concurrency
\* setting: a wave takes only what the cap leaves, and a claim whose answer was
\* lost keeps its place (_room_for, claim_for_wave).
THEOREM CapIsHeld == Spec => []CapHolds
<1>1. Init => HeldCap
  <2> SUFFICES ASSUME Init PROVE HeldCap
    OBVIOUS
  <2>1. Held = {}
    BY DEF Init, Held, WaveIdle, NewRow, InFlight
  <2>2. Cardinality(Held) = 0
    BY <2>1, FS_EmptySet
  <2> QED
    BY <2>2, RunpodAssumption DEF HeldCap
<1>2. IInv /\ HeldCap /\ [Next]_vars => HeldCap'
  BY NextStep, StepHeld, WaveReadHeld
<1>3. HeldCap => CapHolds
  <2>1. InFlightRows \subseteq Held
    BY DEF Held, InFlightRows
  <2>2. Cardinality(InFlightRows) <= Cardinality(Held)
    BY <2>1, HeldFinite, FS_Subset
  <2> QED
    BY <2>2, HeldFinite, RunpodAssumption DEF HeldCap, CapHolds, InFlightRows
<1> QED
  BY <1>1, <1>2, <1>3, Invariance, PTL DEF Spec

-----------------------------------------------------------------------------
(* One loop.  Where the submit tick and the sweep are turns of one daemon,   *)
(* what a tick holds of a row is of the row's own attempt: the other tick is *)
(* at rest, and an abandon or a glue moves no attempt.  So an attempt whose  *)
(* key is about to be signed has no job yet, and a result that is harvested  *)
(* is the row's own.                                                         *)

Names(js, i, r, a) == i \in DOMAIN js /\ js[i].row = r /\ js[i].attempt = a

\* No job was created for this attempt.
Unposted(r, a, js) == \A i \in DOMAIN js : ~(js[i].row = r /\ js[i].attempt = a)

RowTrue(r, cur, js) ==
  /\ cur.status \in InFlight => cur.key = cur.attempt
  /\ cur.ext # NoId => Names(js, cur.ext, r, cur.attempt)
  /\ \A i \in DOMAIN js : js[i].row = r => js[i].attempt <= cur.attempt
  /\ cur.status = "pending" => Unposted(r, cur.attempt, js)

WaveTrue(r, slot, cur, js) ==
  /\ slot.step # "idle" => slot.read.attempt = cur.attempt
  /\ slot.step \notin {"idle", "read"} =>
       slot.read.key = slot.read.attempt /\ cur.status # "pending"
  /\ slot.step = "accepted" => Names(js, slot.id, r, cur.attempt)
  /\ slot.step \in {"read", "claimed", "busy"} => Unposted(r, cur.attempt, js)

SweepTrue(r, slot, cur, js, objs) ==
  slot.step # "idle" =>
    /\ slot.read.attempt = cur.attempt
    /\ slot.step \notin {"stranded", "cancel"} => slot.read.key = slot.read.attempt
    /\ slot.read.ext # NoId => Names(js, slot.read.ext, r, cur.attempt)
    /\ slot.step = "done" => <<r, cur.attempt>> \in objs

DoneTrue(js, objs) ==
  \A i \in DOMAIN js : js[i].state = "done" => <<js[i].row, js[i].attempt>> \in objs

Turns == SubmitIdle \/ SweepDone

SInv ==
  /\ IInv /\ Turns /\ KeyPerJob /\ DoneTrue(jobs, objects)
  /\ \A r \in Rows : /\ RowTrue(r, row[r], jobs)
                     /\ WaveTrue(r, wave[r], row[r], jobs)
                     /\ SweepTrue(r, sweep[r], row[r], jobs, objects)

-----------------------------------------------------------------------------
(* Jobs that keep what they were created for.                               *)

JobsKept(js) ==
  /\ DOMAIN js = DOMAIN jobs
  /\ \A i \in DOMAIN jobs : js[i].row = jobs[i].row /\ js[i].attempt = jobs[i].attempt

LEMMA KeptNames ==
  ASSUME NEW js, JobsKept(js)
  PROVE  /\ \A i, r, a : Names(jobs, i, r, a) => Names(js, i, r, a)
         /\ \A r, a : Unposted(r, a, jobs) => Unposted(r, a, js)
         /\ \A r, cur : RowTrue(r, cur, jobs) => RowTrue(r, cur, js)
         /\ \A r, slot, cur : WaveTrue(r, slot, cur, jobs) => WaveTrue(r, slot, cur, js)
         /\ \A r, slot, cur, objs : SweepTrue(r, slot, cur, jobs, objs) =>
                                      SweepTrue(r, slot, cur, js, objs)
<1>1. \A i, r, a : Names(jobs, i, r, a) => Names(js, i, r, a)
  BY DEF JobsKept, Names
<1>2. \A r, a : Unposted(r, a, jobs) => Unposted(r, a, js)
  BY DEF JobsKept, Unposted
<1>3. \A r, cur : RowTrue(r, cur, jobs) => RowTrue(r, cur, js)
  BY <1>1, <1>2 DEF RowTrue, JobsKept
<1>4. \A r, slot, cur : WaveTrue(r, slot, cur, jobs) => WaveTrue(r, slot, cur, js)
  BY <1>1, <1>2 DEF WaveTrue
<1>5. \A r, slot, cur, objs : SweepTrue(r, slot, cur, jobs, objs) => SweepTrue(r, slot, cur, js, objs)
  BY <1>1 DEF SweepTrue
<1> QED
  BY <1>1, <1>2, <1>3, <1>4, <1>5

LEMMA MoreResults ==
  ASSUME NEW objs, objects \subseteq objs
  PROVE  /\ \A r, slot, cur, js : SweepTrue(r, slot, cur, js, objects) =>
                                    SweepTrue(r, slot, cur, js, objs)
         /\ \A js : DoneTrue(js, objects) => DoneTrue(js, objs)
BY DEF SweepTrue, DoneTrue

\* No job is done by the step but over its object.
LEMMA KeptJobs ==
  ASSUME SInv, JobsKept(jobs'), objects \subseteq objects',
         \A i \in DOMAIN jobs : jobs'[i].state = "done" =>
           jobs[i].state = "done" \/ <<jobs[i].row, jobs[i].attempt>> \in objects
  PROVE  KeyPerJob' /\ DoneTrue(jobs', objects')
<1>1. KeyPerJob'
  BY DEF SInv, KeyPerJob, JobsKept
<1>2. DoneTrue(jobs', objects)
  BY DEF SInv, DoneTrue, JobsKept
<1> QED
  BY <1>1, <1>2, MoreResults

LEMMA CancelKeeps ==
  ASSUME IInv, NEW ids, CancelJobs(ids)
  PROVE  /\ JobsKept(jobs')
         /\ \A i \in DOMAIN jobs : jobs'[i].state = "done" => jobs[i].state = "done"
<1>1. CASE UNCHANGED jobs
  BY <1>1 DEF JobsKept
<1>2. CASE jobs' = Stopped(ids)
  <2>1. \A i \in DOMAIN jobs : jobs[i] \in PJob
    BY DEF IInv, TypeOK
  <2>2. ASSUME NEW i \in DOMAIN jobs
        PROVE  LET job == [jobs[i] EXCEPT !.state = "cancelled"] IN
                 job.row = jobs[i].row /\ job.attempt = jobs[i].attempt /\ job.state = "cancelled"
    BY <2>1 DEF PJob
  <2>3. DOMAIN jobs' = DOMAIN jobs
    BY <1>2 DEF Stopped
  <2>4. ASSUME NEW i \in DOMAIN jobs
        PROVE  /\ jobs'[i].row = jobs[i].row /\ jobs'[i].attempt = jobs[i].attempt
               /\ jobs'[i].state = "done" => jobs[i].state = "done"
    BY <1>2, <2>2 DEF Stopped
  <2> QED
    BY <2>3, <2>4 DEF JobsKept
<1> QED
  BY <1>1, <1>2 DEF CancelJobs

-----------------------------------------------------------------------------
(* The fields the writes set.                                               *)

LEMMA SwapIs ==
  ASSUME IInv, NEW r \in Rows, NEW read, NEW new, Swap(r, read, new)
  PROVE  /\ \A q \in Rows : q # r => row'[q] = row[q]
         /\ row'[r] = IF Matches(row[r], read) THEN new ELSE row[r]
BY DEF Swap, IInv, TypeOK

LEMMA WithStatusKeeps ==
  ASSUME NEW cur \in Row, NEW s
  PROVE  /\ WithStatus(cur, s).attempt = cur.attempt /\ WithStatus(cur, s).ext = cur.ext
         /\ WithStatus(cur, s).key = cur.key /\ WithStatus(cur, s).status = s
BY DEF WithStatus, Row

LEMMA ClaimedKeeps ==
  ASSUME NEW cur \in Row, NEW read \in Row, NEW stamp
  PROVE  /\ Claimed(cur, read, stamp).attempt = cur.attempt
         /\ Claimed(cur, read, stamp).ext = cur.ext
         /\ Claimed(cur, read, stamp).key = read.attempt
         /\ Claimed(cur, read, stamp).status = "submitted"
BY DEF Claimed, Row

LEMMA DeferredKeeps ==
  ASSUME NEW cur \in Row
  PROVE  /\ Deferred(cur).attempt = cur.attempt /\ Deferred(cur).ext = NoId
         /\ Deferred(cur).status = "pending"
BY DEF Deferred, Row

LEMMA RetriedMoves ==
  ASSUME NEW cur \in Row, NEW read \in Row
  PROVE  /\ Retried(cur, read).attempt = read.attempt + 1 /\ Retried(cur, read).ext = NoId
         /\ Retried(cur, read).status = "pending"
BY DEF Retried, Row

LEMMA ProgressedKeeps ==
  ASSUME NEW cur \in Row, NEW read \in Row, NEW s
  PROVE  /\ Progressed(cur, read, s).attempt = cur.attempt
         /\ Progressed(cur, read, s).ext = cur.ext /\ Progressed(cur, read, s).key = cur.key
         /\ Progressed(cur, read, s).status = s
BY DEF Progressed, WithStatus, Row

\* A row that ends stays true, and so does one that goes on to the next attempt.
LEMMA EndedTrue ==
  ASSUME SInv, NEW r \in Rows, NEW s \in {"completed", "failed", "cancelled", "consumed"}
  PROVE  RowTrue(r, WithStatus(row[r], s), jobs)
<1>1. row[r] \in Row /\ RowTrue(r, row[r], jobs) /\ s \notin InFlight /\ s # "pending"
  BY Slots, StatusFacts DEF SInv
<1>2. /\ WithStatus(row[r], s).attempt = row[r].attempt /\ WithStatus(row[r], s).ext = row[r].ext
      /\ WithStatus(row[r], s).status = s
  BY <1>1, WithStatusKeeps
<1> QED
  BY <1>1, <1>2 DEF RowTrue

LEMMA RetriedTrue ==
  ASSUME SInv, NEW r \in Rows, NEW read \in Row, read.attempt = row[r].attempt
  PROVE  RowTrue(r, Retried(row[r], read), jobs)
<1>1. row[r] \in Row /\ row[r].attempt \in Nat /\ RowTrue(r, row[r], jobs)
  BY Slots, RowFacts DEF SInv
<1>2. /\ Retried(row[r], read).attempt = row[r].attempt + 1
      /\ Retried(row[r], read).ext = NoId /\ Retried(row[r], read).status = "pending"
  BY <1>1, RetriedMoves
<1>3. \A i \in DOMAIN jobs : jobs[i].attempt \in Nat
  <2>1. \A i \in DOMAIN jobs : jobs[i] \in PJob
    BY DEF SInv, IInv, TypeOK
  <2> QED
    BY <2>1, JobRowsAssumption DEF PJob, Attempts
<1>4. \A i \in DOMAIN jobs : jobs[i].row = r => jobs[i].attempt <= row[r].attempt
  BY <1>1 DEF RowTrue
<1>5. \A i \in DOMAIN jobs : jobs[i].row = r =>
        jobs[i].attempt <= row[r].attempt + 1 /\ jobs[i].attempt # row[r].attempt + 1
  BY <1>1, <1>3, <1>4
<1> QED
  BY <1>2, <1>5, StatusFacts DEF RowTrue, Unposted

-----------------------------------------------------------------------------
(* A step that acts on one row, and one that moves rows but no attempt.     *)

LEMMA IdleTrue ==
  /\ \A r, cur, js : WaveTrue(r, WaveIdle, cur, js)
  /\ \A r, cur, js, objs : SweepTrue(r, SweepIdle, cur, js, objs)
BY DEF WaveTrue, SweepTrue, WaveIdle, SweepIdle

\* What no step undoes, save the creation of a job.
JobsSafe ==
  /\ JobsKept(jobs')
  /\ objects \subseteq objects'
  /\ \A i \in DOMAIN jobs : jobs'[i].state = "done" =>
       jobs[i].state = "done" \/ <<jobs[i].row, jobs[i].attempt>> \in objects

LEMMA SafeJobs ==
  /\ UNCHANGED <<jobs, objects>> => JobsSafe
  /\ \A ids : IInv /\ CancelJobs(ids) /\ UNCHANGED objects => JobsSafe
<1>1. UNCHANGED <<jobs, objects>> => JobsSafe
  BY DEF JobsSafe, JobsKept
<1>2. ASSUME NEW ids, IInv, CancelJobs(ids), UNCHANGED objects PROVE JobsSafe
  BY <1>2, CancelKeeps DEF JobsSafe
<1> QED
  BY <1>1, <1>2

LEMMA ActsTrue ==
  ASSUME SInv, IInv', JobsSafe, Turns',
         \A q \in Rows : /\ RowTrue(q, row'[q], jobs)
                         /\ WaveTrue(q, wave'[q], row'[q], jobs)
                         /\ SweepTrue(q, sweep'[q], row'[q], jobs, objects)
  PROVE  SInv'
<1>1. KeyPerJob' /\ DoneTrue(jobs', objects')
  BY KeptJobs DEF JobsSafe
<1>2. ASSUME NEW q \in Rows
      PROVE  /\ RowTrue(q, row'[q], jobs')
             /\ WaveTrue(q, wave'[q], row'[q], jobs')
             /\ SweepTrue(q, sweep'[q], row'[q], jobs', objects')
  BY KeptNames, MoreResults DEF JobsSafe
<1> QED
  BY <1>1, <1>2 DEF SInv

LEMMA WaveActs ==
  ASSUME SInv, IInv', JobsSafe, NEW r \in Rows, wave[r].step # "idle",
         NEW slot, wave' = [wave EXCEPT ![r] = slot], UNCHANGED sweep,
         \A q \in Rows : q # r => row'[q] = row[q],
         RowTrue(r, row'[r], jobs), WaveTrue(r, slot, row'[r], jobs)
  PROVE  SInv'
<1>1. wave'[r] = slot /\ \A q \in Rows : q # r => wave'[q] = wave[q]
  BY DEF SInv, IInv, TypeOK
<1>2. SweepDone
  BY DEF SInv, Turns, SubmitIdle
<1>3. SweepDone' /\ Turns'
  BY <1>2 DEF SweepDone, Turns
<1>4. ASSUME NEW q \in Rows
      PROVE  /\ RowTrue(q, row'[q], jobs)
             /\ WaveTrue(q, wave'[q], row'[q], jobs)
             /\ SweepTrue(q, sweep'[q], row'[q], jobs, objects)
  <2>1. SweepTrue(q, sweep'[q], row'[q], jobs, objects)
    BY <1>3 DEF SweepDone, SweepTrue
  <2>2. CASE q = r
    BY <1>1, <2>1, <2>2
  <2>3. CASE q # r
    BY <1>1, <2>1, <2>3 DEF SInv
  <2> QED
    BY <2>2, <2>3
<1> QED
  BY <1>3, <1>4, ActsTrue

LEMMA SweepActs ==
  ASSUME SInv, IInv', JobsSafe, NEW r \in Rows, sweep[r].step # "idle",
         NEW slot, sweep' = [sweep EXCEPT ![r] = slot], UNCHANGED wave,
         \A q \in Rows : q # r => row'[q] = row[q],
         RowTrue(r, row'[r], jobs), SweepTrue(r, slot, row'[r], jobs, objects)
  PROVE  SInv'
<1>1. sweep'[r] = slot /\ \A q \in Rows : q # r => sweep'[q] = sweep[q]
  BY DEF SInv, IInv, TypeOK
<1>2. SubmitIdle
  BY DEF SInv, Turns, SweepDone
<1>3. SubmitIdle' /\ Turns'
  BY <1>2 DEF SubmitIdle, Turns
<1>4. ASSUME NEW q \in Rows
      PROVE  /\ RowTrue(q, row'[q], jobs)
             /\ WaveTrue(q, wave'[q], row'[q], jobs)
             /\ SweepTrue(q, sweep'[q], row'[q], jobs, objects)
  <2>1. WaveTrue(q, wave'[q], row'[q], jobs)
    BY <1>3 DEF SubmitIdle, WaveTrue
  <2>2. CASE q = r
    BY <1>1, <2>1, <2>2
  <2>3. CASE q # r
    BY <1>1, <2>1, <2>3 DEF SInv
  <2> QED
    BY <2>2, <2>3
<1> QED
  BY <1>3, <1>4, ActsTrue

LEMMA RowsAct ==
  ASSUME SInv, IInv', JobsSafe, UNCHANGED <<wave, sweep>>,
         \A q \in Rows : /\ row'[q].attempt = row[q].attempt
                         /\ row'[q].status = "pending" => row[q].status = "pending"
                         /\ RowTrue(q, row'[q], jobs)
  PROVE  SInv'
<1>1. Turns'
  BY DEF SInv, Turns, SubmitIdle, SweepDone
<1>2. ASSUME NEW q \in Rows
      PROVE  /\ WaveTrue(q, wave'[q], row'[q], jobs)
             /\ SweepTrue(q, sweep'[q], row'[q], jobs, objects)
  <2>1. WaveTrue(q, wave[q], row[q], jobs) /\ SweepTrue(q, sweep[q], row[q], jobs, objects)
    BY DEF SInv
  <2>2. WaveTrue(q, wave[q], row'[q], jobs)
    BY <2>1 DEF WaveTrue
  <2>3. SweepTrue(q, sweep[q], row'[q], jobs, objects)
    BY <2>1 DEF SweepTrue
  <2> QED
    BY <2>2, <2>3
<1> QED
  BY <1>1, <1>2, ActsTrue

-----------------------------------------------------------------------------
(* The submit tick, in one loop.                                            *)

LEMMA SwapTrue ==
  ASSUME SInv, NEW r \in Rows, NEW read, NEW new, Swap(r, read, new),
         Matches(row[r], read) => RowTrue(r, new, jobs)
  PROVE  /\ \A q \in Rows : q # r => row'[q] = row[q]
         /\ RowTrue(r, row'[r], jobs)
         /\ row'[r] = IF Matches(row[r], read) THEN new ELSE row[r]
BY SwapIs DEF SInv

LEMMA ClaimTrue == ASSUME SInv, IInv', NEW r \in Rows, Claim(r) PROVE SInv'
<1> DEFINE read  == wave[r].read
           stamp == CeilingOnce(read)
           new   == Claimed(row[r], read, stamp)
<1>1. /\ row[r] \in Row /\ read \in Row /\ wave[r].step = "read"
      /\ RowTrue(r, row[r], jobs) /\ WaveTrue(r, wave[r], row[r], jobs)
      /\ Swap(r, read, new) /\ JobsSafe
  BY Slots, SafeJobs DEF SInv, Claim
<1>2. read.attempt = row[r].attempt /\ Unposted(r, row[r].attempt, jobs)
  BY <1>1 DEF WaveTrue
<1>3. /\ new.attempt = row[r].attempt /\ new.ext = row[r].ext
      /\ new.key = read.attempt /\ new.status = "submitted"
  BY <1>1, ClaimedKeeps
<1>4. RowTrue(r, new, jobs)
  BY <1>1, <1>2, <1>3 DEF RowTrue
<1>5. /\ \A q \in Rows : q # r => row'[q] = row[q]
      /\ RowTrue(r, row'[r], jobs)
      /\ row'[r] = IF Matches(row[r], read) THEN new ELSE row[r]
  BY <1>1, <1>4, SwapTrue
<1>6. CASE ~Matches(row[r], read)
  <2>1. wave' = [wave EXCEPT ![r] = WaveIdle] /\ UNCHANGED sweep
    BY <1>6 DEF Claim
  <2> QED
    BY <1>1, <1>5, <2>1, IdleTrue, WaveActs
<1>7. CASE Matches(row[r], read)
  <2>1. PICK step \in {"claimed", "refused"} :
          wave' = [wave EXCEPT ![r] =
            [step |-> step, id |-> NoId, fresh |-> stamp # {}, read |-> Claimed(read, read, stamp)]]
    BY <1>7 DEF Claim
  <2> DEFINE slot == [step |-> step, id |-> NoId, fresh |-> stamp # {},
                      read |-> Claimed(read, read, stamp)]
  <2>2. slot.read.attempt = read.attempt /\ slot.read.key = read.attempt
    BY <1>1, ClaimedKeeps
  <2>3. row'[r].attempt = row[r].attempt /\ row'[r].status = "submitted"
    BY <1>3, <1>5, <1>7
  <2>4. WaveTrue(r, slot, row'[r], jobs)
    BY <1>2, <2>2, <2>3 DEF WaveTrue
  <2>5. UNCHANGED sweep /\ wave' = [wave EXCEPT ![r] = slot]
    BY <2>1 DEF Claim
  <2> HIDE DEF slot
  <2> QED
    BY <1>1, <1>5, <2>4, <2>5, WaveActs
<1> QED
  BY <1>6, <1>7

\* An attempt is given its one job: it had none, and its key carries its number.
LEMMA AcceptTrue ==
  ASSUME SInv, IInv', NEW r \in Rows, NEW heard \in BOOLEAN, Post(r), Accept(r, heard),
         NEW slot, wave' = [wave EXCEPT ![r] = slot],
         slot.step # "idle" =>
           /\ slot.step = "accepted" /\ slot.id = Len(jobs) + 1
           /\ slot.read = wave[r].read
  PROVE  SInv'
<1> DEFINE read == wave[r].read
           job  == [row |-> r, attempt |-> read.key, heard |-> heard, state |-> "queued"]
           n    == Len(jobs) + 1
<1>1. /\ wave[r].step = "claimed" /\ UNCHANGED <<row, sweep, objects>>
      /\ \A q \in Rows : wave[q].step \in {"idle", "claimed"}
      /\ jobs' = Append(jobs, job)
  BY DEF Post, Accept
<1>2. /\ \A q \in Rows : /\ RowTrue(q, row[q], jobs) /\ WaveTrue(q, wave[q], row[q], jobs)
      /\ KeyPerJob /\ DoneTrue(jobs, objects) /\ Turns
      /\ row[r] \in Row /\ row[r].attempt \in Nat
  BY Slots, RowFacts DEF SInv
<1>3. /\ read.attempt = row[r].attempt /\ read.key = read.attempt
      /\ row[r].status # "pending" /\ Unposted(r, row[r].attempt, jobs)
  BY <1>1, <1>2 DEF WaveTrue
<1>4. /\ DOMAIN jobs \subseteq DOMAIN jobs' /\ n \in DOMAIN jobs' /\ jobs'[n] = job
      /\ \A i \in DOMAIN jobs : i # n /\ jobs'[i] = jobs[i]
      /\ \A i \in DOMAIN jobs' : i \in DOMAIN jobs \/ i = n
  BY <1>1 DEF SInv, IInv, TypeOK
<1>5. job.row = r /\ job.attempt = row[r].attempt /\ job.state = "queued"
  BY <1>3
<1> HIDE DEF job, n
<1>6. KeyPerJob'
  BY <1>2, <1>3, <1>4, <1>5 DEF KeyPerJob, Unposted
<1>7. DoneTrue(jobs', objects')
  BY <1>1, <1>2, <1>4, <1>5 DEF DoneTrue
<1>8. \A i, q, a : Names(jobs, i, q, a) => Names(jobs', i, q, a)
  BY <1>4 DEF Names
<1>9. Names(jobs', n, r, row[r].attempt)
  BY <1>4, <1>5 DEF Names
<1>10. \A q, a : q # r /\ Unposted(q, a, jobs) => Unposted(q, a, jobs')
  BY <1>4, <1>5 DEF Unposted
<1>11. ASSUME NEW q \in Rows PROVE RowTrue(q, row'[q], jobs')
  <2>1. row[q].ext # NoId => Names(jobs', row[q].ext, q, row[q].attempt)
    BY <1>2, <1>8 DEF RowTrue
  <2>2. \A i \in DOMAIN jobs' : jobs'[i].row = q => jobs'[i].attempt <= row[q].attempt
    BY <1>2, <1>4, <1>5 DEF RowTrue
  <2>3. row[q].status = "pending" => Unposted(q, row[q].attempt, jobs')
    BY <1>2, <1>3, <1>10 DEF RowTrue
  <2> QED
    BY <1>1, <1>2, <2>1, <2>2, <2>3 DEF RowTrue
<1>12. wave'[r] = slot /\ \A q \in Rows : q # r => wave'[q] = wave[q]
  BY DEF SInv, IInv, TypeOK
<1>13. ASSUME NEW q \in Rows PROVE WaveTrue(q, wave'[q], row'[q], jobs')
  <2>1. CASE q = r
    <3>1. CASE slot.step = "idle"
      BY <1>12, <2>1, <3>1 DEF WaveTrue
    <3>2. CASE slot.step # "idle"
      <4>1. slot.step = "accepted" /\ slot.id = n /\ slot.read = read
        BY <3>2 DEF n
      <4>2. WaveTrue(r, slot, row[r], jobs')
        BY <1>3, <1>9, <4>1 DEF WaveTrue
      <4> QED
        BY <1>1, <1>12, <2>1, <4>2
    <3> QED
      BY <3>1, <3>2
  <2>2. CASE q # r
    BY <1>1, <1>2, <1>10, <1>12, <2>2 DEF WaveTrue
  <2> QED
    BY <2>1, <2>2
<1>14. SweepDone
  BY <1>1 DEF SInv, Turns, SubmitIdle
<1>15. SweepDone' /\ Turns'
  BY <1>1, <1>14 DEF SweepDone, Turns
<1>16. \A q \in Rows : SweepTrue(q, sweep'[q], row'[q], jobs', objects')
  BY <1>15 DEF SweepDone, SweepTrue
<1> QED
  BY <1>6, <1>7, <1>11, <1>13, <1>15, <1>16 DEF SInv

LEMMA PostTrue == ASSUME SInv, IInv', NEW r \in Rows, Post(r) PROVE SInv'
<1>1. /\ wave[r].step = "claimed" /\ UNCHANGED <<row, sweep, objects>>
      /\ RowTrue(r, row[r], jobs) /\ WaveTrue(r, wave[r], row[r], jobs)
      /\ wave[r] \in WaveSlot
  BY Slots DEF SInv, Post
<1>2. CASE /\ Accept(r, TRUE)
           /\ wave' = [wave EXCEPT ![r] = [@ EXCEPT !.step = "accepted", !.id = Len(jobs) + 1]]
  <2> DEFINE slot == [wave[r] EXCEPT !.step = "accepted", !.id = Len(jobs) + 1]
  <2>1. slot.step = "accepted" /\ slot.id = Len(jobs) + 1 /\ slot.read = wave[r].read
    BY <1>1 DEF WaveSlot
  <2>2. wave' = [wave EXCEPT ![r] = slot]
    BY <1>2
  <2> HIDE DEF slot
  <2> QED
    BY <1>2, <2>1, <2>2, AcceptTrue
<1>3. ASSUME NEW answer \in {"rejected", "busy", "refused"}, UNCHANGED jobs,
             wave' = [wave EXCEPT ![r] = [@ EXCEPT !.step = answer]]
      PROVE  SInv'
  <2> DEFINE slot == [wave[r] EXCEPT !.step = answer]
  <2>1. slot.step = answer /\ slot.read = wave[r].read /\ slot.id = wave[r].id
    BY <1>1 DEF WaveSlot
  <2>2. WaveTrue(r, slot, row'[r], jobs)
    BY <1>1, <2>1 DEF WaveTrue
  <2>3. wave' = [wave EXCEPT ![r] = slot]
    BY <1>3
  <2> HIDE DEF slot
  <2> QED
    BY <1>1, <1>3, <2>2, <2>3, SafeJobs, WaveActs
<1>4. CASE wave' = [wave EXCEPT ![r] = WaveIdle] /\ Accept(r, FALSE)
  BY <1>4, AcceptTrue DEF WaveIdle
<1>5. CASE wave' = [wave EXCEPT ![r] = WaveIdle] /\ UNCHANGED jobs
  BY <1>1, <1>5, IdleTrue, SafeJobs, WaveActs
<1> QED
  BY <1>2, <1>3, <1>4, <1>5 DEF Post

LEMMA RecordIdTrue == ASSUME SInv, IInv', NEW r \in Rows, RecordId(r) PROVE SInv'
<1> DEFINE read == wave[r].read
           new  == [row[r] EXCEPT !.ext = wave[r].id]
<1>1. /\ wave[r].step = "accepted" /\ UNCHANGED <<sweep, jobs, objects>>
      /\ RowTrue(r, row[r], jobs) /\ WaveTrue(r, wave[r], row[r], jobs)
      /\ wave[r] \in WaveSlot /\ row[r] \in Row /\ Swap(r, read, new) /\ JobsSafe
  BY Slots, SafeJobs DEF SInv, RecordId
<1>2. /\ new.ext = wave[r].id /\ new.status = row[r].status /\ new.attempt = row[r].attempt
      /\ new.key = row[r].key
  BY <1>1 DEF Row
<1>3. RowTrue(r, new, jobs)
  BY <1>1, <1>2 DEF RowTrue, WaveTrue
<1>4. /\ \A q \in Rows : q # r => row'[q] = row[q]
      /\ RowTrue(r, row'[r], jobs)
      /\ row'[r] = IF Matches(row[r], read) THEN new ELSE row[r]
  BY <1>1, <1>3, SwapTrue
<1>5. CASE Matches(row[r], read)
  <2>1. wave' = [wave EXCEPT ![r] = WaveIdle]
    BY <1>5 DEF RecordId
  <2> QED
    BY <1>1, <1>4, <2>1, IdleTrue, WaveActs
<1>6. CASE ~Matches(row[r], read)
  <2> DEFINE slot == [wave[r] EXCEPT !.step = "cancel"]
  <2>1. wave' = [wave EXCEPT ![r] = slot]
    BY <1>6 DEF RecordId
  <2>2. slot.step = "cancel" /\ slot.read = read
    BY <1>1 DEF WaveSlot
  <2>3. WaveTrue(r, slot, row'[r], jobs)
    BY <1>1, <1>4, <1>6, <2>2 DEF WaveTrue
  <2> HIDE DEF slot
  <2> QED
    BY <1>1, <1>4, <2>1, <2>3, WaveActs
<1> QED
  BY <1>5, <1>6

LEMMA CancelUnrecordedTrue ==
  ASSUME SInv, IInv', NEW r \in Rows, CancelUnrecorded(r) PROVE SInv'
<1>1. /\ wave[r].step = "cancel" /\ UNCHANGED <<row, sweep, objects>>
      /\ wave' = [wave EXCEPT ![r] = WaveIdle] /\ CancelJobs({wave[r].id})
      /\ RowTrue(r, row[r], jobs)
  BY DEF SInv, CancelUnrecorded
<1>2. JobsSafe
  BY <1>1, SafeJobs DEF SInv
<1> QED
  BY <1>1, <1>2, IdleTrue, WaveActs

LEMMA DeferTrue == ASSUME SInv, IInv', NEW r \in Rows, Defer(r) PROVE SInv'
<1>1. /\ wave[r].step = "busy" /\ UNCHANGED <<sweep, jobs, objects>>
      /\ RowTrue(r, row[r], jobs) /\ WaveTrue(r, wave[r], row[r], jobs)
      /\ row[r] \in Row /\ Swap(r, wave[r].read, Deferred(row[r])) /\ JobsSafe
      /\ wave' = [wave EXCEPT ![r] = WaveIdle]
  BY Slots, SafeJobs DEF SInv, Defer
<1>2. /\ Deferred(row[r]).attempt = row[r].attempt /\ Deferred(row[r]).ext = NoId
      /\ Deferred(row[r]).status = "pending"
  BY <1>1, DeferredKeeps
<1>3. RowTrue(r, Deferred(row[r]), jobs)
  BY <1>1, <1>2, StatusFacts DEF RowTrue, WaveTrue
<1>4. (\A q \in Rows : q # r => row'[q] = row[q]) /\ RowTrue(r, row'[r], jobs)
  BY <1>1, <1>3, SwapTrue
<1> QED
  BY <1>1, <1>4, IdleTrue, WaveActs

LEMMA RetryOrFailSubmitTrue ==
  ASSUME SInv, IInv', NEW r \in Rows, RetryOrFailSubmit(r) PROVE SInv'
<1> DEFINE read == wave[r].read
<1>1. /\ wave[r].step \in {"refused", "rejected"} /\ UNCHANGED <<sweep, jobs, objects>>
      /\ WaveTrue(r, wave[r], row[r], jobs) /\ read \in Row /\ JobsSafe
      /\ wave' = [wave EXCEPT ![r] = WaveIdle]
  BY Slots, SafeJobs DEF SInv, RetryOrFailSubmit
<1>2. RowTrue(r, WithStatus(row[r], "failed"), jobs)
  BY EndedTrue
<1>3. RowTrue(r, Retried(row[r], read), jobs)
  BY <1>1, RetriedTrue DEF WaveTrue
<1>4. PICK new : Swap(r, read, new) /\ RowTrue(r, new, jobs)
  BY <1>2, <1>3 DEF RetryOrFailSubmit
<1>5. (\A q \in Rows : q # r => row'[q] = row[q]) /\ RowTrue(r, row'[r], jobs)
  BY <1>4, SwapTrue
<1> QED
  BY <1>1, <1>5, IdleTrue, WaveActs

-----------------------------------------------------------------------------
(* The sweep, in one loop.                                                  *)

\* A finding is of the row's own attempt: its job, or the key of its claim.
LEMMA FoundDone ==
  ASSUME SInv, NEW r \in Rows, sweep[r].step = "read",
         \/ sweep[r].read.ext # NoId /\ "done" \in PollAnswers(r, sweep[r].read)
         \/ <<r, sweep[r].read.key>> \in objects
  PROVE  <<r, row[r].attempt>> \in objects
<1> DEFINE read == sweep[r].read
           job  == jobs[read.ext]
<1>1. /\ read.key = row[r].attempt
      /\ read.ext # NoId => Names(jobs, read.ext, r, row[r].attempt)
  BY DEF SInv, SweepTrue
<1>2. CASE <<r, read.key>> \in objects
  BY <1>1, <1>2
<1>3. CASE read.ext # NoId /\ job.state = "done"
  <2>1. read.ext \in DOMAIN jobs /\ job.row = r /\ job.attempt = row[r].attempt
    BY <1>1, <1>3 DEF Names
  <2> QED
    BY <1>3, <2>1 DEF SInv, DoneTrue
<1>4. ASSUME read.ext # NoId, "done" \in PollAnswers(r, read), job.state # "done"
      PROVE  <<r, read.key>> \in objects
  <2>1. job.state \in {"queued", "running", "done", "failed", "cancelled"}
    <3>1. read.ext \in DOMAIN jobs
      BY <1>1, <1>4 DEF Names
    <3>2. job \in PJob
      BY <3>1 DEF SInv, IInv, TypeOK
    <3> QED
      BY <3>2 DEF PJob, Live
  <2> QED
    BY <1>4, <2>1 DEF PollAnswers
<1> QED
  BY <1>2, <1>3, <1>4

LEMMA LookTrue == ASSUME SInv, IInv', NEW r \in Rows, Look(r) PROVE SInv'
<1> DEFINE read == sweep[r].read
<1>1. /\ sweep[r].step = "read" /\ UNCHANGED <<row, wave, jobs, objects>>
      /\ RowTrue(r, row[r], jobs) /\ SweepTrue(r, sweep[r], row[r], jobs, objects)
      /\ sweep[r] \in SweepSlot /\ JobsSafe
  BY Slots, SafeJobs DEF SInv, Look
<1>2. PICK answer \in IF read.ext # NoId THEN PollAnswers(r, read)
                      ELSE IF <<r, read.key>> \in objects THEN {"done"}
                      ELSE {Absent(read)} :
        sweep' = [sweep EXCEPT ![r] = IF answer = "idle" THEN SweepIdle
                                     ELSE [@ EXCEPT !.step = answer]]
  BY DEF Look
<1>3. answer = "done" => <<r, row[r].attempt>> \in objects
  BY <1>1, <1>2, FoundDone DEF Absent
<1>4. CASE answer = "idle"
  BY <1>1, <1>2, <1>4, IdleTrue, SweepActs
<1>5. CASE answer # "idle"
  <2> DEFINE slot == [sweep[r] EXCEPT !.step = answer]
  <2>1. slot.step = answer /\ slot.read = read
    BY <1>1 DEF SweepSlot
  <2>2. sweep' = [sweep EXCEPT ![r] = slot]
    BY <1>2, <1>5
  <2> HIDE DEF slot
  <2>3. SweepTrue(r, slot, row[r], jobs, objects)
    BY <1>1, <1>3, <2>1 DEF SweepTrue
  <2> QED
    BY <1>1, <2>2, <2>3, SweepActs
<1> QED
  BY <1>4, <1>5

LEMMA CompleteTrue == ASSUME SInv, IInv', NEW r \in Rows, Complete(r) PROVE SInv'
<1>1. /\ sweep[r].step = "done" /\ UNCHANGED <<wave, jobs, objects>> /\ JobsSafe
      /\ sweep' = [sweep EXCEPT ![r] = SweepIdle]
      /\ Swap(r, sweep[r].read, WithStatus(row[r], "completed"))
  BY SafeJobs DEF Complete
<1>2. (\A q \in Rows : q # r => row'[q] = row[q]) /\ RowTrue(r, row'[r], jobs)
  BY <1>1, EndedTrue, SwapTrue
<1> QED
  BY <1>1, <1>2, IdleTrue, SweepActs

LEMMA RecordProgressTrue ==
  ASSUME SInv, IInv', NEW r \in Rows, RecordProgress(r) PROVE SInv'
<1> DEFINE read   == sweep[r].read
           status == CASE sweep[r].step = "queued"  -> "in_queue"
                       [] sweep[r].step = "running" -> "in_progress"
                       [] OTHER                     -> read.status
           fresh  == Progressed(read, read, status)
           new    == Progressed(row[r], read, status)
<1>1. /\ sweep[r].step \in {"unknown", "queued", "running"}
      /\ UNCHANGED <<wave, jobs, objects>> /\ JobsSafe
      /\ RowTrue(r, row[r], jobs) /\ SweepTrue(r, sweep[r], row[r], jobs, objects)
      /\ row[r] \in Row /\ read \in Row /\ SweepFits(sweep[r], Len(jobs))
      /\ Swap(r, read, new)
      /\ sweep' = [sweep EXCEPT ![r] = IF Matches(row[r], read) /\ IsOverdue(fresh)
                                       THEN [step |-> "retriable", read |-> fresh]
                                       ELSE SweepIdle]
  BY Slots, SafeJobs DEF SInv, RecordProgress
<1>2. read.status \in InFlight
  BY <1>1 DEF SweepFits
<1>3. status \in InFlight
  BY <1>2 DEF InFlight
<1> HIDE DEF status
<1>4. /\ new.attempt = row[r].attempt /\ new.ext = row[r].ext /\ new.key = row[r].key
      /\ new.status = status
      /\ fresh.attempt = read.attempt /\ fresh.ext = read.ext /\ fresh.key = read.key
  BY <1>1, ProgressedKeeps
<1> HIDE DEF fresh, new
<1>5. Matches(row[r], read) => RowTrue(r, new, jobs)
  BY <1>1, <1>2, <1>3, <1>4, StatusFacts DEF RowTrue, Matches
<1>6. /\ \A q \in Rows : q # r => row'[q] = row[q]
      /\ RowTrue(r, row'[r], jobs)
      /\ row'[r] = IF Matches(row[r], read) THEN new ELSE row[r]
  BY <1>1, <1>5, SwapTrue
<1>7. row'[r].attempt = row[r].attempt
  BY <1>4, <1>6
<1> DEFINE slot == [step |-> "retriable", read |-> fresh]
<1>8. SweepTrue(r, slot, row'[r], jobs, objects)
  BY <1>1, <1>4, <1>7 DEF SweepTrue
<1> HIDE DEF slot
<1>9. CASE sweep' = [sweep EXCEPT ![r] = slot]
  BY <1>1, <1>6, <1>8, <1>9, SweepActs
<1>10. CASE sweep' = [sweep EXCEPT ![r] = SweepIdle]
  BY <1>1, <1>6, <1>10, IdleTrue, SweepActs
<1> QED
  BY <1>1, <1>9, <1>10 DEF slot

LEMMA FailSweptTrue == ASSUME SInv, IInv', NEW r \in Rows, FailSwept(r) PROVE SInv'
<1> DEFINE read == sweep[r].read
           slot == [sweep[r] EXCEPT !.step = "cancel"]
<1>1. /\ sweep[r].step # "idle" /\ UNCHANGED <<wave, jobs, objects>> /\ JobsSafe
      /\ SweepTrue(r, sweep[r], row[r], jobs, objects)
      /\ sweep[r] \in SweepSlot /\ row[r] \in Row
      /\ Swap(r, read, WithStatus(row[r], "failed"))
      /\ \/ sweep' = [sweep EXCEPT ![r] = slot]
         \/ sweep' = [sweep EXCEPT ![r] = SweepIdle]
  BY Slots, SafeJobs DEF SInv, FailSwept
<1>2. /\ \A q \in Rows : q # r => row'[q] = row[q]
      /\ RowTrue(r, row'[r], jobs)
      /\ row'[r] = IF Matches(row[r], read) THEN WithStatus(row[r], "failed") ELSE row[r]
  BY <1>1, EndedTrue, SwapTrue
<1>3. row'[r].attempt = row[r].attempt
  BY <1>1, <1>2, WithStatusKeeps
<1>4. slot.step = "cancel" /\ slot.read = read
  BY <1>1 DEF SweepSlot
<1> HIDE DEF slot
<1>5. SweepTrue(r, slot, row'[r], jobs, objects)
  BY <1>1, <1>3, <1>4 DEF SweepTrue
<1> QED
  BY <1>1, <1>2, <1>5, IdleTrue, SweepActs

LEMMA CancelFailedTrue == ASSUME SInv, IInv', NEW r \in Rows, CancelFailed(r) PROVE SInv'
<1>1. /\ sweep[r].step = "cancel" /\ UNCHANGED <<row, wave, objects>>
      /\ sweep' = [sweep EXCEPT ![r] = SweepIdle] /\ CancelJobs({sweep[r].read.ext})
      /\ RowTrue(r, row[r], jobs)
  BY DEF SInv, CancelFailed
<1>2. JobsSafe
  BY <1>1, SafeJobs DEF SInv
<1> QED
  BY <1>1, <1>2, IdleTrue, SweepActs

LEMMA CancelForRetryTrue ==
  ASSUME SInv, IInv', NEW r \in Rows, CancelForRetry(r) PROVE SInv'
<1> DEFINE slot == [sweep[r] EXCEPT !.step = "retry"]
<1>1. /\ sweep[r].step = "retriable" /\ UNCHANGED <<row, wave, objects>>
      /\ sweep' = [sweep EXCEPT ![r] = slot] /\ CancelJobs({sweep[r].read.ext})
      /\ RowTrue(r, row[r], jobs) /\ SweepTrue(r, sweep[r], row[r], jobs, objects)
      /\ sweep[r] \in SweepSlot
  BY Slots DEF SInv, CancelForRetry
<1>2. JobsSafe
  BY <1>1, SafeJobs DEF SInv
<1>3. slot.step = "retry" /\ slot.read = sweep[r].read
  BY <1>1 DEF SweepSlot
<1> HIDE DEF slot
<1>4. SweepTrue(r, slot, row'[r], jobs, objects)
  BY <1>1, <1>3 DEF SweepTrue
<1> QED
  BY <1>1, <1>2, <1>4, SweepActs

LEMMA RetrySweptTrue == ASSUME SInv, IInv', NEW r \in Rows, RetrySwept(r) PROVE SInv'
<1> DEFINE read == sweep[r].read
<1>1. /\ sweep[r].step = "retry" /\ UNCHANGED <<wave, jobs, objects>> /\ JobsSafe
      /\ sweep' = [sweep EXCEPT ![r] = SweepIdle]
      /\ SweepTrue(r, sweep[r], row[r], jobs, objects) /\ read \in Row
      /\ Swap(r, read, Retried(row[r], read))
  BY Slots, SafeJobs DEF SInv, RetrySwept
<1>2. RowTrue(r, Retried(row[r], read), jobs)
  BY <1>1, RetriedTrue DEF SweepTrue
<1>3. (\A q \in Rows : q # r => row'[q] = row[q]) /\ RowTrue(r, row'[r], jobs)
  BY <1>1, <1>2, SwapTrue
<1> QED
  BY <1>1, <1>3, IdleTrue, SweepActs

-----------------------------------------------------------------------------
(* A tick that starts, the web, the glue, the provider and the kill.        *)

\* A wave reads its rows while no sweep is under way: PENDING rows, so ones
\* whose attempt has no job.
LEMMA WaveReadTrue == ASSUME Serial, SInv, IInv', WaveRead PROVE SInv'
<1>1. SweepDone /\ UNCHANGED <<row, sweep, jobs, objects>> /\ JobsSafe
  BY SafeJobs DEF WaveRead
<1>2. PICK S \in SUBSET PendingRows :
        wave' = [r \in Rows |->
          IF r \in S THEN [WaveIdle EXCEPT !.step = "read", !.read = row[r]] ELSE WaveIdle]
  BY DEF WaveRead
<1>3. Turns'
  BY <1>1 DEF Turns, SweepDone
<1>4. ASSUME NEW q \in Rows
      PROVE  /\ RowTrue(q, row'[q], jobs)
             /\ WaveTrue(q, wave'[q], row'[q], jobs)
             /\ SweepTrue(q, sweep'[q], row'[q], jobs, objects)
  <2>1. RowTrue(q, row[q], jobs) /\ SweepTrue(q, sweep[q], row[q], jobs, objects)
    BY DEF SInv
  <2>2. CASE q \notin S
    BY <1>1, <1>2, <2>1, <2>2, IdleTrue
  <2>3. CASE q \in S
    <3>1. row[q].status = "pending"
      BY <2>3 DEF PendingRows
    <3>2. wave'[q].step = "read" /\ wave'[q].read = row[q]
      BY <1>2, <2>3 DEF WaveIdle
    <3>3. WaveTrue(q, wave'[q], row[q], jobs)
      BY <2>1, <3>1, <3>2 DEF WaveTrue, RowTrue
    <3> QED
      BY <1>1, <2>1, <3>3
  <2> QED
    BY <2>2, <2>3
<1> QED
  BY <1>1, <1>3, <1>4, ActsTrue

\* So does a sweep, and what it reads in flight carries its claim's key.
LEMMA SweepReads ==
  ASSUME Serial, SInv, IInv', SubmitIdle, UNCHANGED <<row, wave, jobs, objects>>,
         NEW step \in {"read", "stranded"}, NEW S \in SUBSET Rows,
         step = "read" => S = InFlightRows,
         sweep' = [r \in Rows |-> IF r \in S THEN [step |-> step, read |-> row[r]] ELSE SweepIdle]
  PROVE  SInv'
<1>1. Turns' /\ JobsSafe
  BY SafeJobs DEF Turns, SubmitIdle
<1>2. ASSUME NEW q \in Rows
      PROVE  /\ RowTrue(q, row'[q], jobs)
             /\ WaveTrue(q, wave'[q], row'[q], jobs)
             /\ SweepTrue(q, sweep'[q], row'[q], jobs, objects)
  <2>1. RowTrue(q, row[q], jobs) /\ WaveTrue(q, wave[q], row[q], jobs)
    BY DEF SInv
  <2>2. CASE q \notin S
    BY <2>1, <2>2, IdleTrue
  <2>3. CASE q \in S
    <3>1. sweep'[q].step = step /\ sweep'[q].read = row[q]
      BY <2>3
    <3>2. step = "read" => row[q].status \in InFlight
      BY <2>3 DEF InFlightRows
    <3>3. SweepTrue(q, sweep'[q], row[q], jobs, objects)
      BY <2>1, <3>1, <3>2 DEF SweepTrue, RowTrue
    <3> QED
      BY <2>1, <3>3
  <2> QED
    BY <2>2, <2>3
<1> QED
  BY <1>1, <1>2, ActsTrue

LEMMA SweepReadTrue == ASSUME Serial, SInv, IInv', SweepRead PROVE SInv'
<1>1. InFlightRows \in SUBSET Rows
  BY DEF InFlightRows
<1> QED
  BY <1>1, SweepReads DEF SweepRead

LEMMA StrandedReadTrue == ASSUME Serial, SInv, IInv', StrandedRead PROVE SInv'
<1>1. {r \in PendingRows : row[r].deadline = "passed"} \in SUBSET Rows
  BY DEF PendingRows
<1> QED
  BY <1>1, SweepReads DEF StrandedRead

LEMMA AbandonUpdateTrue == ASSUME SInv, IInv', AbandonUpdate PROVE SInv'
<1>1. /\ UNCHANGED <<wave, sweep, jobs, objects>> /\ JobsSafe
      /\ row' = [r \in Rows |-> IF row[r].status \in web.statuses
                                THEN WithStatus(row[r], "cancelled") ELSE row[r]]
  BY SafeJobs DEF AbandonUpdate
<1>2. ASSUME NEW q \in Rows
      PROVE  /\ row'[q].attempt = row[q].attempt
             /\ row'[q].status = "pending" => row[q].status = "pending"
             /\ RowTrue(q, row'[q], jobs)
  <2>1. row[q] \in Row /\ RowTrue(q, row[q], jobs) /\ RowTrue(q, WithStatus(row[q], "cancelled"), jobs)
    BY Slots, EndedTrue DEF SInv
  <2> QED
    BY <1>1, <2>1, WithStatusKeeps
<1> QED
  BY <1>1, <1>2, RowsAct

LEMMA ConsumeTrue == ASSUME SInv, IInv', NEW r \in Rows, Consume(r) PROVE SInv'
<1>1. /\ UNCHANGED <<wave, sweep, jobs, objects>> /\ JobsSafe
      /\ row' = [row EXCEPT ![r] = WithStatus(@, "consumed")]
  BY SafeJobs DEF Consume
<1>2. ASSUME NEW q \in Rows
      PROVE  /\ row'[q].attempt = row[q].attempt
             /\ row'[q].status = "pending" => row[q].status = "pending"
             /\ RowTrue(q, row'[q], jobs)
  <2>1. row[q] \in Row /\ RowTrue(q, row[q], jobs) /\ RowTrue(q, WithStatus(row[q], "consumed"), jobs)
    BY Slots, EndedTrue DEF SInv
  <2>2. row'[q] = IF q = r THEN WithStatus(row[q], "consumed") ELSE row[q]
    BY <1>1 DEF SInv, IInv, TypeOK
  <2> QED
    BY <2>1, <2>2, WithStatusKeeps
<1> QED
  BY <1>1, <1>2, RowsAct

LEMMA DeadlineTrue == ASSUME SInv, IInv', NEW r \in Rows, DeadlinePasses(r) PROVE SInv'
<1> DEFINE new == [row[r] EXCEPT !.deadline = "passed"]
<1>1. UNCHANGED <<wave, sweep, jobs, objects>> /\ JobsSafe /\ row' = [row EXCEPT ![r] = new]
  BY SafeJobs DEF DeadlinePasses
<1>2. ASSUME NEW q \in Rows
      PROVE  /\ row'[q].attempt = row[q].attempt
             /\ row'[q].status = "pending" => row[q].status = "pending"
             /\ RowTrue(q, row'[q], jobs)
  <2>1. row[q] \in Row /\ RowTrue(q, row[q], jobs)
    BY Slots DEF SInv
  <2>2. row'[q] = IF q = r THEN new ELSE row[q]
    BY <1>1 DEF SInv, IInv, TypeOK
  <2>3. q = r => /\ new.attempt = row[q].attempt /\ new.status = row[q].status
                 /\ new.ext = row[q].ext /\ new.key = row[q].key
    BY <2>1 DEF Row
  <2> HIDE DEF new
  <2> QED
    BY <2>1, <2>2, <2>3 DEF RowTrue
<1> QED
  BY <1>1, <1>2, RowsAct

LEMMA SetStateTrue ==
  ASSUME SInv, IInv', NEW i \in DOMAIN jobs, NEW from, NEW to, SetState(i, from, to),
         to = "done" => <<jobs[i].row, jobs[i].attempt>> \in objects
  PROVE  SInv'
<1> DEFINE job == [jobs[i] EXCEPT !.state = to]
<1>1. UNCHANGED <<row, wave, sweep, objects>> /\ jobs' = [jobs EXCEPT ![i] = job]
  BY DEF SetState
<1>2. job.row = jobs[i].row /\ job.attempt = jobs[i].attempt /\ job.state = to
  BY DEF SInv, IInv, TypeOK, PJob
<1>3. JobsSafe
  BY <1>1, <1>2 DEF JobsSafe, JobsKept
<1> QED
  BY <1>1, <1>3, RowsAct DEF SInv

LEMMA ProviderTrue == ASSUME SInv, IInv', ProviderNext PROVE SInv'
<1>1. PICK i \in DOMAIN jobs : JobStarts(i) \/ JobFails(i) \/ Upload(i) \/ JobEnds(i)
  BY DEF ProviderNext
<1>2. CASE JobStarts(i) \/ JobFails(i) \/ JobEnds(i)
  BY <1>2, SetStateTrue DEF JobStarts, JobFails, JobEnds
<1>3. CASE Upload(i)
  <2>1. UNCHANGED <<row, wave, sweep, jobs>> /\ objects \subseteq objects'
    BY <1>3 DEF Upload
  <2>2. JobsSafe
    BY <2>1 DEF JobsSafe, JobsKept
  <2> QED
    BY <2>1, <2>2, RowsAct DEF SInv
<1> QED
  BY <1>1, <1>2, <1>3

LEMMA CrashTrue == ASSUME SInv, IInv', Crash PROVE SInv'
<1>1. UNCHANGED <<row, jobs, objects>> /\ JobsSafe
  BY SafeJobs DEF Crash
<1>2. /\ wave' = wave \/ wave' = [r \in Rows |-> WaveIdle]
      /\ sweep' = sweep \/ sweep' = [r \in Rows |-> SweepIdle]
  BY DEF Crash
<1>3. Turns'
  BY <1>2 DEF SInv, Turns, SubmitIdle, SweepDone, WaveIdle, SweepIdle
<1>4. ASSUME NEW q \in Rows
      PROVE  /\ RowTrue(q, row'[q], jobs)
             /\ WaveTrue(q, wave'[q], row'[q], jobs)
             /\ SweepTrue(q, sweep'[q], row'[q], jobs, objects)
  BY <1>1, <1>2, IdleTrue DEF SInv
<1> QED
  BY <1>1, <1>3, <1>4, ActsTrue

\* Everything else leaves all of it alone, or cancels.
LEMMA WebTrue == ASSUME SInv, IInv', WebNext PROVE SInv'
<1>1. CASE AbandonRead
  BY <1>1, SafeJobs, RowsAct DEF AbandonRead, SInv
<1>2. CASE AbandonCancel
  <2>1. JobsSafe /\ UNCHANGED <<row, wave, sweep>>
    BY <1>2, SafeJobs DEF AbandonCancel, SInv
  <2> QED
    BY <2>1, RowsAct DEF SInv
<1> QED
  BY <1>1, <1>2, AbandonUpdateTrue DEF WebNext

LEMMA SerialStep == Serial /\ SInv /\ [Next]_vars => SInv'
<1> SUFFICES ASSUME Serial, SInv, [Next]_vars PROVE SInv'
  OBVIOUS
<1>1. IInv'
  BY NextIInv DEF SInv
<1>2. CASE SubmitNext
  BY <1>1, <1>2, WaveReadTrue, ClaimTrue, PostTrue, RecordIdTrue, CancelUnrecordedTrue,
     DeferTrue, RetryOrFailSubmitTrue DEF SubmitNext
<1>3. CASE SweepNext
  BY <1>1, <1>3, SweepReadTrue, StrandedReadTrue, LookTrue, CompleteTrue, RecordProgressTrue,
     FailSweptTrue, CancelFailedTrue, CancelForRetryTrue, RetrySweptTrue DEF SweepNext
<1>4. CASE UNCHANGED vars
  BY <1>1, <1>4, SafeJobs, RowsAct DEF vars, SInv
<1> QED
  BY <1>1, <1>2, <1>3, <1>4, WebTrue, ProviderTrue, CrashTrue, ConsumeTrue, DeadlineTrue DEF Next

LEMMA SerialInit == Init => SInv
<1> SUFFICES ASSUME Init PROVE SInv
  OBVIOUS
<1>1. IInv
  BY InitIInv
<1>2. jobs = <<>> /\ DOMAIN jobs = {}
  BY DEF Init
<1>3. Turns /\ KeyPerJob /\ DoneTrue(jobs, objects)
  BY <1>2 DEF Init, Turns, SubmitIdle, WaveIdle, KeyPerJob, DoneTrue
<1>4. ASSUME NEW r \in Rows
      PROVE  /\ RowTrue(r, row[r], jobs)
             /\ WaveTrue(r, wave[r], row[r], jobs)
             /\ SweepTrue(r, sweep[r], row[r], jobs, objects)
  BY <1>2, IdleTrue, StatusFacts DEF Init, RowTrue, Unposted, NewRow
<1> QED
  BY <1>1, <1>3, <1>4 DEF SInv

LEMMA SerialInvariance == ASSUME Serial PROVE Spec => []SInv
<1>1. SInv /\ [Next]_vars => SInv'
  BY SerialStep
<1> QED
  BY <1>1, SerialInit, PTL DEF Spec

\* In one loop no two provider jobs are ever given the same result key: a
\* deferral gives its attempt back only when no job took it, and every other way
\* back to PENDING bumps the attempt, whoever died, answered late or abandoned in
\* between (submit_pending, sweep_jobs, _retry_or_fail).
THEOREM KeysAreSignedOnce == Serial /\ Spec => []KeyPerJob
<1>1. SInv => KeyPerJob
  BY DEF SInv
<1>2. ASSUME Serial PROVE Spec => []KeyPerJob
  BY <1>1, <1>2, SerialInvariance, PTL
<1> QED
  BY <1>2

-----------------------------------------------------------------------------
(* The contract, in one loop.                                               *)

StateOf(cur) == CASE cur.status = "completed" -> "completed"
                  [] cur.status = "consumed"  -> "consumed"
                  [] cur.status \in Dead      -> "dead"
                  [] OTHER                    -> "open"

States  == [r \in Rows |-> StateOf(row[r])]
Attempt == [r \in Rows |-> row[r].attempt]

LEMMA Stuttering ==
  ASSUME UNCHANGED <<States, Attempt, objects>> PROVE UNCHANGED Contract!vars
BY DEF Contract!vars, States, StateOf, Attempt

LEMMA Producing ==
  ASSUME NEW r \in Rows, NEW a \in 1..row[r].attempt, objects' = objects \cup {<<r, a>>},
         UNCHANGED <<States, Attempt>>
  PROVE  Contract!Next
<1>1. Contract!Produce(r)
  BY DEF Contract!Produce, States, StateOf, Attempt
<1> QED
  BY <1>1 DEF Contract!Next

LEMMA Harvesting ==
  ASSUME NEW r \in Rows, StateOf(row[r]) = "open", <<r, row[r].attempt>> \in objects,
         States' = [States EXCEPT ![r] = "completed"], UNCHANGED <<Attempt, objects>>
  PROVE  Contract!Next
<1>1. Contract!Harvest(r)
  BY DEF Contract!Harvest, States, StateOf, Attempt
<1> QED
  BY <1>1 DEF Contract!Next

LEMMA Resubmitting ==
  ASSUME NEW r \in Rows, StateOf(row[r]) = "open", row[r].attempt < MaxAttempts,
         Attempt' = [Attempt EXCEPT ![r] = @ + 1], UNCHANGED <<States, objects>>
  PROVE  Contract!Next
<1>1. Contract!Resubmit(r)
  BY DEF Contract!Resubmit, States, StateOf, Attempt
<1> QED
  BY <1>1 DEF Contract!Next

LEMMA Consuming ==
  ASSUME NEW r \in Rows, StateOf(row[r]) = "completed",
         States' = [States EXCEPT ![r] = "consumed"], UNCHANGED <<Attempt, objects>>
  PROVE  Contract!Next
<1>1. Contract!Consume(r)
  BY DEF Contract!Consume, States, StateOf, Attempt
<1> QED
  BY <1>1 DEF Contract!Next

LEMMA WritingOff ==
  ASSUME NEW S \in SUBSET Rows, \A r \in S : StateOf(row[r]) \in {"open", "completed"},
         States' = [r \in Rows |-> IF r \in S THEN "dead" ELSE States[r]],
         UNCHANGED <<Attempt, objects>>
  PROVE  Contract!Next
<1>1. Contract!WriteOff(S)
  BY DEF Contract!WriteOff, States, StateOf, Attempt
<1> QED
  BY <1>1 DEF Contract!Next

\* Open rows are open, and a swap's row is in the status of the copy.
LEMMA OpenStates ==
  /\ \A cur : cur.status \in InFlight \cup {"pending"} => StateOf(cur) = "open"
  /\ \A cur : cur.status = "completed" => StateOf(cur) = "completed"
BY DEF StateOf, InFlight, Dead

\* One row changes: the mapped state changes at that row only.
LEMMA OneChanges ==
  ASSUME NEW f, NEW g, NEW r \in Rows, \A q \in Rows \ {r} : g[q] = f[q],
         f = [q \in Rows |-> f[q]], g = [q \in Rows |-> g[q]]
  PROVE  g = [f EXCEPT ![r] = g[r]]
OBVIOUS

LEMMA OneRowChanges ==
  ASSUME IInv, NEW r \in Rows, NEW new, row' = [row EXCEPT ![r] = new]
  PROVE  /\ States' = [States EXCEPT ![r] = States'[r]] /\ States'[r] = StateOf(new)
         /\ Attempt' = [Attempt EXCEPT ![r] = Attempt'[r]] /\ Attempt'[r] = new.attempt
<1>1. row'[r] = new /\ \A q \in Rows \ {r} : row'[q] = row[q]
  BY DEF IInv, TypeOK
<1>2. \A q \in Rows : /\ States[q] = StateOf(row[q]) /\ States'[q] = StateOf(row'[q])
                      /\ Attempt[q] = row[q].attempt /\ Attempt'[q] = row'[q].attempt
  BY DEF States, StateOf, Attempt
<1>3. /\ States = [q \in Rows |-> States[q]] /\ States' = [q \in Rows |-> States'[q]]
      /\ Attempt = [q \in Rows |-> Attempt[q]] /\ Attempt' = [q \in Rows |-> Attempt'[q]]
  BY DEF States, Attempt
<1>4. States' = [States EXCEPT ![r] = States'[r]]
  BY <1>1, <1>2, <1>3, OneChanges
<1>5. Attempt' = [Attempt EXCEPT ![r] = Attempt'[r]]
  BY <1>1, <1>2, <1>3, OneChanges
<1> QED
  BY <1>1, <1>2, <1>4, <1>5

\* A row that changes neither its state nor its attempt.
LEMMA RowStutters ==
  ASSUME IInv, NEW r \in Rows, NEW new, row' = [row EXCEPT ![r] = new],
         StateOf(new) = StateOf(row[r]), new.attempt = row[r].attempt, UNCHANGED objects
  PROVE  UNCHANGED Contract!vars
<1>1. /\ States' = [States EXCEPT ![r] = States[r]]
      /\ Attempt' = [Attempt EXCEPT ![r] = Attempt[r]]
  <2>1. States[r] = StateOf(row[r]) /\ Attempt[r] = row[r].attempt
    BY DEF States, Attempt
  <2>2. /\ States' = [States EXCEPT ![r] = States'[r]] /\ States'[r] = StateOf(new)
        /\ Attempt' = [Attempt EXCEPT ![r] = Attempt'[r]] /\ Attempt'[r] = new.attempt
    BY OneRowChanges
  <2> QED
    BY <2>1, <2>2
<1>2. UNCHANGED <<States, Attempt>>
  BY <1>1 DEF States, Attempt
<1> QED
  BY <1>2, Stuttering

\* A row that keeps its attempt and goes to a status of another state.
LEMMA StateMoves ==
  ASSUME IInv, NEW r \in Rows, NEW s \in {"completed", "consumed", "failed"},
         row' = [row EXCEPT ![r] = WithStatus(row[r], s)]
  PROVE  /\ UNCHANGED Attempt
         /\ States' = [States EXCEPT ![r] = IF s = "failed" THEN "dead" ELSE s]
<1> DEFINE new == WithStatus(row[r], s)
<1>1. new.status = s /\ new.attempt = row[r].attempt
  BY Slots, WithStatusKeeps
<1>2. StateOf(new) = IF s = "failed" THEN "dead" ELSE s
  BY <1>1 DEF StateOf, Dead
<1>3. /\ States' = [States EXCEPT ![r] = IF s = "failed" THEN "dead" ELSE s]
      /\ Attempt' = [Attempt EXCEPT ![r] = Attempt[r]]
  <2>1. row' = [row EXCEPT ![r] = new] /\ Attempt[r] = row[r].attempt
    BY DEF Attempt
  <2> HIDE DEF new
  <2>2. /\ States' = [States EXCEPT ![r] = States'[r]] /\ States'[r] = StateOf(new)
        /\ Attempt' = [Attempt EXCEPT ![r] = Attempt'[r]] /\ Attempt'[r] = new.attempt
    BY <2>1, OneRowChanges
  <2> QED
    BY <1>1, <1>2, <2>1, <2>2
<1> HIDE DEF new
<1>4. UNCHANGED Attempt
  BY <1>3 DEF Attempt
<1> QED
  BY <1>2, <1>3, <1>4

\* Failing a row is writing it off, retrying it is resubmitting it.
LEMMA FailedIsWrittenOff ==
  ASSUME IInv, NEW r \in Rows, row[r].status \in InFlight \cup {"pending"},
         row' = [row EXCEPT ![r] = WithStatus(row[r], "failed")], UNCHANGED objects
  PROVE  Contract!Next
<1>1. UNCHANGED Attempt /\ States' = [States EXCEPT ![r] = "dead"]
  BY StateMoves
<1>2. States' = [q \in Rows |-> IF q \in {r} THEN "dead" ELSE States[q]]
  BY <1>1 DEF States
<1>3. \A q \in {r} : StateOf(row[q]) \in {"open", "completed"}
  BY OpenStates
<1> QED
  BY <1>1, <1>2, <1>3, WritingOff

LEMMA RetriedIsResubmitted ==
  ASSUME IInv, NEW r \in Rows, NEW read \in Row, row[r].status \in InFlight,
         ~OutOfAttempts(read), read.attempt = row[r].attempt,
         row' = [row EXCEPT ![r] = Retried(row[r], read)], UNCHANGED objects
  PROVE  Contract!Next
<1> DEFINE new == Retried(row[r], read)
<1>1. row[r] \in Row /\ row[r].attempt \in Nat /\ MaxAttempts \in Nat
  BY Slots, RowFacts, JobRowsAssumption
<1>2. new.status = "pending" /\ new.attempt = row[r].attempt + 1
  BY <1>1, RetriedMoves
<1> HIDE DEF new
<1>3. StateOf(new) = "open" /\ StateOf(row[r]) = "open"
  BY <1>2, OpenStates
<1>4. /\ States' = [States EXCEPT ![r] = States[r]]
      /\ Attempt' = [Attempt EXCEPT ![r] = @ + 1]
  <2>1. row' = [row EXCEPT ![r] = new]
    BY DEF new
  <2>2. States[r] = StateOf(row[r]) /\ Attempt[r] = row[r].attempt
    BY DEF States, Attempt
  <2>3. /\ States' = [States EXCEPT ![r] = States'[r]] /\ States'[r] = StateOf(new)
        /\ Attempt' = [Attempt EXCEPT ![r] = Attempt'[r]] /\ Attempt'[r] = new.attempt
    BY <2>1, OneRowChanges
  <2> QED
    BY <1>2, <1>3, <2>1, <2>2, <2>3
<1>5. UNCHANGED States
  BY <1>4 DEF States
<1>6. row[r].attempt < MaxAttempts
  BY <1>1 DEF OutOfAttempts
<1> QED
  BY <1>3, <1>4, <1>5, <1>6, Resubmitting

\* A swap that loses writes nothing.
LEMMA SwapEither ==
  ASSUME NEW r, NEW read, NEW new, Swap(r, read, new)
  PROVE  \/ UNCHANGED row
         \/ /\ row' = [row EXCEPT ![r] = new]
            /\ row[r].status = read.status /\ row[r].ext = read.ext
BY DEF Swap, Matches

LEMMA SameRows == UNCHANGED <<row, objects>> => UNCHANGED Contract!vars
BY Stuttering DEF States, Attempt

LEMMA SubmitKeepsContract ==
  ASSUME SInv, SubmitNext PROVE Contract!Next \/ UNCHANGED Contract!vars
<1>1. UNCHANGED objects /\ IInv
  BY DEF SInv, SubmitNext, WaveRead, Claim, Post, RecordId, CancelUnrecorded, Defer,
     RetryOrFailSubmit
<1>2. CASE UNCHANGED row
  BY <1>1, <1>2, SameRows
<1>3. ASSUME NEW r \in Rows, Claim(r) PROVE UNCHANGED Contract!vars
  <2> DEFINE read == wave[r].read
             new  == Claimed(row[r], read, CeilingOnce(read))
  <2>1. /\ Swap(r, read, new) /\ read \in Row /\ row[r] \in Row /\ read.status = "pending"
    BY <1>1, <1>3, Slots DEF Claim, WaveFits
  <2>2. new.status = "submitted" /\ new.attempt = row[r].attempt
    BY <2>1, ClaimedKeeps
  <2> HIDE DEF new
  <2>3. StateOf(new) = "open" /\ (row[r].status = "pending" => StateOf(row[r]) = "open")
    BY <2>2, OpenStates, StatusFacts
  <2> QED
    BY <1>1, <2>1, <2>2, <2>3, SwapEither, RowStutters, SameRows
<1>4. ASSUME NEW r \in Rows, RecordId(r) PROVE UNCHANGED Contract!vars
  <2> DEFINE new == [row[r] EXCEPT !.ext = wave[r].id]
  <2>1. Swap(r, wave[r].read, new) /\ row[r] \in Row
    BY <1>1, <1>4, Slots DEF RecordId
  <2>2. new.status = row[r].status /\ new.attempt = row[r].attempt
    BY <2>1 DEF Row
  <2> HIDE DEF new
  <2>3. StateOf(new) = StateOf(row[r])
    BY <2>2 DEF StateOf
  <2> QED
    BY <1>1, <2>1, <2>2, <2>3, SwapEither, RowStutters, SameRows
<1>5. ASSUME NEW r \in Rows, Defer(r) PROVE UNCHANGED Contract!vars
  <2> DEFINE new == Deferred(row[r])
  <2>1. Swap(r, wave[r].read, new) /\ row[r] \in Row /\ wave[r].read.status = "submitted"
    BY <1>1, <1>5, Slots DEF Defer, WaveFits
  <2>2. new.status = "pending" /\ new.attempt = row[r].attempt
    BY <2>1, DeferredKeeps
  <2> HIDE DEF new
  <2>3. StateOf(new) = "open" /\ (row[r].status = "submitted" => StateOf(row[r]) = "open")
    BY <2>2, OpenStates, StatusFacts
  <2> QED
    BY <1>1, <2>1, <2>2, <2>3, SwapEither, RowStutters, SameRows
<1>6. ASSUME NEW r \in Rows, RetryOrFailSubmit(r)
      PROVE  Contract!Next \/ UNCHANGED Contract!vars
  <2> DEFINE read == wave[r].read
  <2>1. /\ read \in Row /\ read.status = "submitted" /\ read.attempt = row[r].attempt
        /\ row[r].status = "submitted" => row[r].status \in InFlight
    BY <1>6, Slots, StatusFacts DEF RetryOrFailSubmit, WaveFits, SInv, WaveTrue
  <2>2. CASE Swap(r, read, WithStatus(row[r], "failed"))
    BY <1>1, <2>1, <2>2, SwapEither, FailedIsWrittenOff, SameRows
  <2>3. CASE ~OutOfAttempts(read) /\ Swap(r, read, Retried(row[r], read))
    BY <1>1, <2>1, <2>3, SwapEither, RetriedIsResubmitted, SameRows
  <2> QED
    BY <1>6, <2>2, <2>3 DEF RetryOrFailSubmit
<1> QED
  BY <1>2, <1>3, <1>4, <1>5, <1>6 DEF SubmitNext, WaveRead, Post, CancelUnrecorded

LEMMA SweepKeepsContract ==
  ASSUME SInv, SweepNext PROVE Contract!Next \/ UNCHANGED Contract!vars
<1>1. UNCHANGED objects /\ IInv
  BY DEF SInv, SweepNext, SweepRead, StrandedRead, Look, Complete, RecordProgress, FailSwept,
     CancelFailed, CancelForRetry, RetrySwept
<1>2. CASE UNCHANGED row
  BY <1>1, <1>2, SameRows
<1>3. ASSUME NEW r \in Rows, Complete(r) PROVE Contract!Next \/ UNCHANGED Contract!vars
  <2>1. /\ Swap(r, sweep[r].read, WithStatus(row[r], "completed"))
        /\ sweep[r].read.status \in InFlight /\ <<r, row[r].attempt>> \in objects
    BY <1>3, Slots DEF Complete, SweepFits, SInv, SweepTrue
  <2>2. CASE /\ row' = [row EXCEPT ![r] = WithStatus(row[r], "completed")]
             /\ row[r].status = sweep[r].read.status
    <3>1. StateOf(row[r]) = "open"
      BY <2>1, <2>2, OpenStates
    <3>2. UNCHANGED Attempt /\ States' = [States EXCEPT ![r] = "completed"]
      BY <1>1, <2>2, StateMoves
    <3> QED
      BY <1>1, <2>1, <3>1, <3>2, Harvesting
  <2> QED
    BY <1>1, <2>1, <2>2, SwapEither, SameRows
<1>4. ASSUME NEW r \in Rows, RecordProgress(r) PROVE UNCHANGED Contract!vars
  <2> DEFINE read   == sweep[r].read
             status == CASE sweep[r].step = "queued"  -> "in_queue"
                         [] sweep[r].step = "running" -> "in_progress"
                         [] OTHER                     -> read.status
             new    == Progressed(row[r], read, status)
  <2>1. /\ Swap(r, read, new) /\ read \in Row /\ row[r] \in Row
        /\ read.status \in InFlight
    BY <1>1, <1>4, Slots DEF RecordProgress, SweepFits
  <2>2. status \in InFlight
    BY <2>1 DEF InFlight
  <2> HIDE DEF status
  <2>3. new.status = status /\ new.attempt = row[r].attempt
    BY <2>1, ProgressedKeeps
  <2> HIDE DEF new
  <2>4. StateOf(new) = "open" /\ (row[r].status = read.status => StateOf(row[r]) = "open")
    BY <2>1, <2>2, <2>3, OpenStates
  <2> QED
    BY <1>1, <2>1, <2>3, <2>4, SwapEither, RowStutters, SameRows
<1>5. ASSUME NEW r \in Rows, FailSwept(r) PROVE Contract!Next \/ UNCHANGED Contract!vars
  <2>1. /\ Swap(r, sweep[r].read, WithStatus(row[r], "failed"))
        /\ sweep[r].read.status \in InFlight \cup {"pending"}
    BY <1>5, Slots DEF FailSwept, SweepFits, SInv
  <2> QED
    BY <1>1, <2>1, SwapEither, FailedIsWrittenOff, SameRows
<1>6. ASSUME NEW r \in Rows, RetrySwept(r) PROVE Contract!Next \/ UNCHANGED Contract!vars
  <2> DEFINE read == sweep[r].read
  <2>1. /\ Swap(r, read, Retried(row[r], read)) /\ read \in Row
        /\ read.status \in InFlight /\ read.attempt = row[r].attempt /\ ~OutOfAttempts(read)
    BY <1>6, Slots DEF RetrySwept, SweepFits, SInv, SweepTrue
  <2> QED
    BY <1>1, <2>1, SwapEither, RetriedIsResubmitted, SameRows
<1> QED
  BY <1>2, <1>3, <1>4, <1>5, <1>6 DEF SweepNext, SweepRead, StrandedRead, Look, CancelFailed,
     CancelForRetry

\* An abandon writes off its rows at once.
LEMMA AbandonKeepsContract == ASSUME SInv, AbandonUpdate PROVE Contract!Next
<1> DEFINE S == {r \in Rows : row[r].status \in web.statuses}
<1>1. row' = [r \in Rows |-> IF r \in S THEN WithStatus(row[r], "cancelled") ELSE row[r]]
  BY DEF AbandonUpdate
<1>2. web.statuses \subseteq Open
  BY DEF SInv, IInv, TypeOK, WebSlot
<1>3. \A r \in S : StateOf(row[r]) \in {"open", "completed"}
  <2> TAKE r \in S
  <2>1. row[r].status \in InFlight \cup {"pending"} \/ row[r].status = "completed"
    BY <1>2 DEF Open
  <2> QED
    BY <2>1, OpenStates
<1>4. \A r \in S : row'[r].attempt = row[r].attempt /\ row'[r].status = "cancelled"
  BY <1>1, Slots, WithStatusKeeps DEF SInv
<1>5. \A r \in Rows \ S : row'[r] = row[r]
  BY <1>1
<1>6. \A r \in S : StateOf(row'[r]) = "dead"
  BY <1>4 DEF StateOf, Dead
<1> HIDE DEF S
<1>7. UNCHANGED Attempt
  BY <1>4, <1>5 DEF Attempt
<1>8. States' = [r \in Rows |-> IF r \in S THEN "dead" ELSE States[r]]
  BY <1>5, <1>6 DEF States
<1> QED
  BY <1>3, <1>7, <1>8, WritingOff DEF AbandonUpdate, S

\* A result lands under its job's key, an attempt the row has reached.
LEMMA UploadKeepsContract ==
  ASSUME SInv, NEW i \in DOMAIN jobs, Upload(i) PROVE Contract!Next
<1> DEFINE r == jobs[i].row
           a == jobs[i].attempt
<1>1. jobs[i] \in PJob
  BY DEF SInv, IInv, TypeOK
<1>2. r \in Rows /\ a \in Nat /\ a >= 1
  BY <1>1, JobRowsAssumption DEF PJob, Attempts
<1>3. a <= row[r].attempt /\ row[r].attempt \in Nat
  BY <1>2, Slots, RowFacts DEF SInv, RowTrue
<1>4. objects' = objects \cup {<<r, a>>} /\ UNCHANGED <<States, Attempt>>
  BY DEF Upload, States, Attempt
<1> HIDE DEF r, a
<1> QED
  BY <1>2, <1>3, <1>4, Producing

LEMMA StepKeepsContract ==
  SInv /\ [Next]_vars => Contract!Next \/ UNCHANGED Contract!vars
<1> SUFFICES ASSUME SInv, [Next]_vars PROVE Contract!Next \/ UNCHANGED Contract!vars
  OBVIOUS
<1>1. CASE UNCHANGED <<row, objects>>
  BY <1>1, SameRows
<1>2. ASSUME NEW r \in Rows, Consume(r) PROVE Contract!Next
  <2>1. /\ row[r].status = "completed" /\ UNCHANGED objects /\ IInv
        /\ row' = [row EXCEPT ![r] = WithStatus(row[r], "consumed")]
    BY <1>2 DEF Consume, SInv
  <2>2. StateOf(row[r]) = "completed"
    BY <2>1, OpenStates
  <2>3. UNCHANGED Attempt /\ States' = [States EXCEPT ![r] = "consumed"]
    BY <2>1, StateMoves
  <2> QED
    BY <2>1, <2>2, <2>3, Consuming
<1>3. ASSUME NEW r \in Rows, DeadlinePasses(r) PROVE UNCHANGED Contract!vars
  <2> DEFINE new == [row[r] EXCEPT !.deadline = "passed"]
  <2>1. row' = [row EXCEPT ![r] = new] /\ UNCHANGED objects /\ row[r] \in Row /\ IInv
    BY <1>3, Slots DEF DeadlinePasses, SInv
  <2>2. new.status = row[r].status /\ new.attempt = row[r].attempt
    BY <2>1 DEF Row
  <2> HIDE DEF new
  <2>3. StateOf(new) = StateOf(row[r])
    BY <2>2 DEF StateOf
  <2> QED
    BY <2>1, <2>2, <2>3, RowStutters
<1>4. CASE ProviderNext
  BY <1>1, <1>4, UploadKeepsContract DEF ProviderNext, JobStarts, JobFails, JobEnds, SetState
<1>5. CASE WebNext
  BY <1>1, <1>5, AbandonKeepsContract DEF WebNext, AbandonRead, AbandonCancel
<1>6. CASE Crash \/ UNCHANGED vars
  BY <1>1, <1>6 DEF Crash, vars
<1> QED
  BY <1>2, <1>3, <1>4, <1>5, <1>6, SubmitKeepsContract, SweepKeepsContract DEF Next

LEMMA InitContract == Init => Contract!Init
<1> SUFFICES ASSUME Init PROVE Contract!Init
  OBVIOUS
<1>1. \A r \in Rows : row[r].status = "pending" /\ row[r].attempt = 1
  BY DEF Init, NewRow
<1>2. \A r \in Rows : StateOf(row[r]) = "open"
  BY <1>1, OpenStates
<1>3. States = [r \in Rows |-> "open"] /\ Attempt = [r \in Rows |-> 1] /\ objects = {}
  BY <1>1, <1>2 DEF States, Attempt, Init
<1> QED
  BY <1>3 DEF Contract!Init, States, StateOf, Attempt

\* In one loop the lifecycle implements the contract every provider's rows keep: a
\* row is harvested over its own attempt's object only, goes on to at most
\* MaxAttempts attempts, and never comes back once it is finished (submit_pending,
\* sweep_jobs, abandon_open).
THEOREM ContractIsImplemented == Serial /\ Spec => ImplementsContract
<1>1. SInv /\ [Next]_vars => [Contract!Next]_Contract!vars
  BY StepKeepsContract
<1>2. ASSUME Serial PROVE Spec => ImplementsContract
  BY <1>1, <1>2, SerialInvariance, InitContract, PTL DEF Spec, ImplementsContract, Contract!Spec
<1> QED
  BY <1>2

-----------------------------------------------------------------------------
(* Jobs nobody would cancel.  Where every cancel request takes, no process  *)
(* dies and no scan is abandoned (the three that orphan a job), each job     *)
(* RunPod still holds is covered by its row: the row names it in flight, or   *)
(* the tick holding the row is about to name or to cancel it.                 *)

Tended == Faults \cap {"cancel", "abandon"} = {} /\ MaxCrashes = 0

Covers(i, cur, w, s) ==
  \/ w.step \in {"accepted", "cancel"} /\ w.id = i
  \/ s.step = "cancel" /\ s.read.ext = i
  \/ cur.status \in InFlight /\ cur.ext = i

Ended(i, js) == i # NoId => js[i].state \notin Live

\* What each slot says of the job its row may leave behind: nothing is posted for a
\* row that names a job, and a row is completed or retried past its job's end.
Tidy(cur, w, s, js) ==
  /\ cur.status = "pending" => cur.ext = NoId
  /\ w.step # "idle" => w.read.ext = NoId
  /\ s.step \in {"done", "retry"} => Ended(s.read.ext, js)

OInv ==
  /\ IInv /\ web.step = "idle"
  /\ \A r \in Rows : Tidy(row[r], wave[r], sweep[r], jobs)
  /\ \A i \in DOMAIN jobs : jobs[i].heard /\ jobs[i].state \in Live =>
       \E r \in Rows : Covers(i, row[r], wave[r], sweep[r])

\* No job is created, and none comes back to life.
JobsAge(js) ==
  /\ DOMAIN js = DOMAIN jobs
  /\ \A i \in DOMAIN jobs : js[i].heard = jobs[i].heard
                         /\ (js[i].state \in Live => jobs[i].state \in Live)

LEMMA EndedStays ==
  ASSUME OInv, NEW r \in Rows, NEW js, JobsAge(js)
  PROVE  /\ Ended(sweep[r].read.ext, jobs) => Ended(sweep[r].read.ext, js)
         /\ sweep[r].read.ext # NoId => sweep[r].read.ext \in DOMAIN jobs
<1>1. /\ sweep[r].read \in Row /\ sweep[r].read.ext <= Len(jobs)
      /\ Len(jobs) \in Nat /\ DOMAIN jobs = 1..Len(jobs)
  BY Slots, LenJobs DEF OInv, IInv, TypeOK
<1>2. sweep[r].read.ext # NoId => sweep[r].read.ext \in DOMAIN jobs
  BY <1>1, RowFacts DEF NoId
<1> QED
  BY <1>2 DEF Ended, JobsAge

LEMMA JobIds == ASSUME OInv, NEW i \in DOMAIN jobs PROVE i # NoId
BY DEF OInv, IInv, TypeOK, NoId

LEMMA CoverActs ==
  ASSUME OInv, IInv', JobsAge(jobs'), UNCHANGED web,
         \A q \in Rows :
           /\ Tidy(row'[q], wave'[q], sweep'[q], jobs')
           /\ \A i \in DOMAIN jobs :
                jobs'[i].state \in Live /\ Covers(i, row[q], wave[q], sweep[q])
                => Covers(i, row'[q], wave'[q], sweep'[q])
  PROVE  OInv'
<1>1. ASSUME NEW i \in DOMAIN jobs', jobs'[i].heard, jobs'[i].state \in Live
      PROVE  \E q \in Rows : Covers(i, row'[q], wave'[q], sweep'[q])
  <2>1. i \in DOMAIN jobs /\ jobs[i].heard /\ jobs[i].state \in Live
    BY <1>1 DEF JobsAge
  <2>2. PICK q \in Rows : Covers(i, row[q], wave[q], sweep[q])
    BY <2>1 DEF OInv
  <2> QED
    BY <1>1, <2>1, <2>2
<1> QED
  BY <1>1 DEF OInv

LEMMA TidyStays ==
  ASSUME OInv, NEW q \in Rows, NEW js, JobsAge(js)
  PROVE  Tidy(row[q], wave[q], sweep[q], js)
BY EndedStays DEF OInv, Tidy

\* A tick that acts on one row.
LEMMA OneCovers ==
  ASSUME OInv, IInv', JobsAge(jobs'), UNCHANGED web, NEW r \in Rows, NEW w, NEW s,
         (wave' = wave /\ w = wave[r]) \/ wave' = [wave EXCEPT ![r] = w],
         (sweep' = sweep /\ s = sweep[r]) \/ sweep' = [sweep EXCEPT ![r] = s],
         \A q \in Rows : q # r => row'[q] = row[q],
         Tidy(row'[r], w, s, jobs'),
         \A i \in DOMAIN jobs :
           jobs'[i].state \in Live /\ Covers(i, row[r], wave[r], sweep[r])
           => Covers(i, row'[r], w, s)
  PROVE  OInv'
<1>1. /\ wave'[r] = w /\ \A q \in Rows : q # r => wave'[q] = wave[q]
      /\ sweep'[r] = s /\ \A q \in Rows : q # r => sweep'[q] = sweep[q]
  BY DEF OInv, IInv, TypeOK
<1>2. ASSUME NEW q \in Rows
      PROVE  /\ Tidy(row'[q], wave'[q], sweep'[q], jobs')
             /\ \A i \in DOMAIN jobs :
                  jobs'[i].state \in Live /\ Covers(i, row[q], wave[q], sweep[q])
                  => Covers(i, row'[q], wave'[q], sweep'[q])
  <2>1. CASE q = r
    BY <1>1, <2>1
  <2>2. CASE q # r
    BY <1>1, <2>2, TidyStays
  <2> QED
    BY <2>1, <2>2
<1> QED
  BY <1>2, CoverActs

LEMMA CancelAges ==
  ASSUME Tended, IInv, NEW ids, CancelJobs(ids)
  PROVE  JobsAge(jobs') /\ \A i \in ids \cap DOMAIN jobs : jobs'[i].state \notin Live
<1>1. jobs' = Stopped(ids) /\ \A i \in DOMAIN jobs : jobs[i] \in PJob
  BY DEF Tended, CancelJobs, IInv, TypeOK
<1>2. ASSUME NEW i \in DOMAIN jobs
      PROVE  LET job == [jobs[i] EXCEPT !.state = "cancelled"] IN
               job.heard = jobs[i].heard /\ job.state \notin Live
  BY <1>1 DEF PJob, Live
<1>3. ASSUME NEW i \in DOMAIN jobs
      PROVE  /\ jobs'[i].heard = jobs[i].heard
             /\ jobs'[i].state \in Live => jobs[i].state \in Live
             /\ i \in ids => jobs'[i].state \notin Live
  BY <1>1, <1>2 DEF Stopped
<1> QED
  BY <1>1, <1>3 DEF Stopped, JobsAge

LEMMA SameAge == UNCHANGED jobs => JobsAge(jobs')
BY DEF JobsAge

-----------------------------------------------------------------------------
(* The submit tick covers its jobs.                                         *)

LEMMA WaveCovers ==
  ASSUME OInv, IInv', UNCHANGED <<sweep, web, jobs>>, NEW r \in Rows,
         NEW new, Swap(r, wave[r].read, new), NEW w, wave' = [wave EXCEPT ![r] = w],
         wave[r].step # "idle", w.step # "idle" => w.read.ext = NoId,
         new.status = "pending" => new.ext = NoId,
         wave[r].step \in {"accepted", "cancel"} =>
           \/ w.step \in {"accepted", "cancel"} /\ w.id = wave[r].id
           \/ Matches(row[r], wave[r].read) /\ new.status \in InFlight /\ new.ext = wave[r].id
  PROVE  OInv'
<1> DEFINE read == wave[r].read
<1>1. /\ \A q \in Rows : q # r => row'[q] = row[q]
      /\ row'[r] = IF Matches(row[r], read) THEN new ELSE row[r]
  BY SwapIs DEF OInv
<1>2. Tidy(row[r], wave[r], sweep[r], jobs) /\ JobsAge(jobs')
  BY SameAge DEF OInv
<1>3. Tidy(row'[r], w, sweep[r], jobs')
  BY <1>1, <1>2 DEF Tidy
<1>4. Matches(row[r], read) => row[r].ext = NoId
  BY <1>2 DEF Tidy, Matches
<1>5. ASSUME NEW i \in DOMAIN jobs, Covers(i, row[r], wave[r], sweep[r])
      PROVE  Covers(i, row'[r], w, sweep[r])
  BY <1>1, <1>4, <1>5, JobIds DEF Covers
<1> QED
  BY <1>1, <1>2, <1>3, <1>5, OneCovers

LEMMA ClaimCovers == ASSUME OInv, IInv', NEW r \in Rows, Claim(r) PROVE OInv'
<1> DEFINE read  == wave[r].read
           stamp == CeilingOnce(read)
           new   == Claimed(row[r], read, stamp)
<1>1. /\ wave[r].step = "read" /\ Swap(r, read, new) /\ UNCHANGED <<sweep, web, jobs>>
      /\ row[r] \in Row /\ read \in Row /\ Tidy(row[r], wave[r], sweep[r], jobs)
  BY Slots DEF Claim, OInv
<1>2. new.status = "submitted" /\ Claimed(read, read, stamp).ext = read.ext
  BY <1>1, ClaimedKeeps
<1>3. read.ext = NoId
  BY <1>1 DEF Tidy
<1>4. PICK w : wave' = [wave EXCEPT ![r] = w] /\ (w.step # "idle" => w.read.ext = NoId)
  <2>1. CASE wave' = [wave EXCEPT ![r] = WaveIdle]
    <3>1. WaveIdle.step = "idle"
      BY DEF WaveIdle
    <3> QED
      BY <2>1, <3>1
  <2>2. ASSUME NEW step, wave' = [wave EXCEPT ![r] =
                 [step |-> step, id |-> NoId, fresh |-> stamp # {}, read |-> Claimed(read, read, stamp)]]
        PROVE  \E w : wave' = [wave EXCEPT ![r] = w] /\ (w.step # "idle" => w.read.ext = NoId)
    <3> DEFINE w == [step |-> step, id |-> NoId, fresh |-> stamp # {},
                     read |-> Claimed(read, read, stamp)]
    <3>1. w.read.ext = NoId /\ wave' = [wave EXCEPT ![r] = w]
      BY <1>2, <1>3, <2>2
    <3> QED
      BY <3>1
  <2> QED
    BY <2>1, <2>2 DEF Claim
<1> HIDE DEF new
<1> QED
  BY <1>1, <1>2, <1>4, WaveCovers

\* The new job is covered by the answer the tick holds.
LEMMA AcceptCovers ==
  ASSUME OInv, IInv', NEW r \in Rows, NEW heard \in BOOLEAN, Post(r), Accept(r, heard),
         NEW w, wave' = [wave EXCEPT ![r] = w], w.step # "idle" => w.read = wave[r].read,
         heard => w.step = "accepted" /\ w.id = Len(jobs) + 1
  PROVE  OInv'
<1> DEFINE job == [row |-> r, attempt |-> wave[r].read.key, heard |-> heard, state |-> "queued"]
           n   == Len(jobs) + 1
<1>1. /\ wave[r].step = "claimed" /\ UNCHANGED <<row, sweep, web>> /\ jobs' = Append(jobs, job)
      /\ \A q \in Rows : Tidy(row[q], wave[q], sweep[q], jobs)
  BY DEF Post, Accept, OInv
<1>2. /\ jobs'[n] = job /\ \A i \in DOMAIN jobs : jobs'[i] = jobs[i]
      /\ \A i \in DOMAIN jobs' : i \in DOMAIN jobs \/ i = n
  BY <1>1 DEF OInv, IInv, TypeOK
<1>3. job.heard = heard
  OBVIOUS
<1> HIDE DEF job
<1>4. wave'[r] = w /\ \A q \in Rows : q # r => wave'[q] = wave[q]
  BY DEF OInv, IInv, TypeOK
<1>5. ASSUME NEW q \in Rows PROVE Tidy(row'[q], wave'[q], sweep'[q], jobs')
  <2>1. Ended(sweep[q].read.ext, jobs) => Ended(sweep[q].read.ext, jobs')
    BY <1>2, EndedStays, SameAge DEF Ended, JobsAge
  <2>2. wave'[q].step # "idle" => wave'[q].read.ext = NoId
    BY <1>1, <1>4 DEF Tidy
  <2> QED
    BY <1>1, <2>1, <2>2 DEF Tidy
<1>6. ASSUME NEW i \in DOMAIN jobs', jobs'[i].heard, jobs'[i].state \in Live
      PROVE  \E q \in Rows : Covers(i, row'[q], wave'[q], sweep'[q])
  <2>1. CASE i \in DOMAIN jobs
    <3>1. PICK q \in Rows : Covers(i, row[q], wave[q], sweep[q])
      BY <1>2, <1>6, <2>1 DEF OInv
    <3>2. Covers(i, row'[q], wave'[q], sweep'[q])
      BY <1>1, <1>4, <3>1 DEF Covers
    <3> QED
      BY <3>2
  <2>2. CASE i = n
    <3>1. heard
      BY <1>2, <1>3, <1>6, <2>2
    <3> QED
      BY <1>4, <2>2, <3>1 DEF Covers
  <2> QED
    BY <1>2, <2>1, <2>2
<1> QED
  BY <1>1, <1>5, <1>6 DEF OInv

LEMMA PostCovers == ASSUME OInv, IInv', NEW r \in Rows, Post(r) PROVE OInv'
<1>1. /\ wave[r].step = "claimed" /\ UNCHANGED <<row, sweep, web, objects>>
      /\ wave[r] \in WaveSlot /\ Tidy(row[r], wave[r], sweep[r], jobs)
  BY Slots DEF OInv, Post
<1>2. CASE /\ Accept(r, TRUE)
           /\ wave' = [wave EXCEPT ![r] = [@ EXCEPT !.step = "accepted", !.id = Len(jobs) + 1]]
  <2> DEFINE w == [wave[r] EXCEPT !.step = "accepted", !.id = Len(jobs) + 1]
  <2>1. w.step = "accepted" /\ w.id = Len(jobs) + 1 /\ w.read = wave[r].read
    BY <1>1 DEF WaveSlot
  <2>2. wave' = [wave EXCEPT ![r] = w]
    BY <1>2
  <2> HIDE DEF w
  <2> QED
    BY <1>2, <2>1, <2>2, AcceptCovers
<1>3. ASSUME UNCHANGED jobs, NEW w, wave' = [wave EXCEPT ![r] = w],
             w.step # "idle" => w.read = wave[r].read
      PROVE  OInv'
  <2>1. Tidy(row'[r], w, sweep'[r], jobs')
    BY <1>1, <1>3 DEF Tidy
  <2>2. \A i \in DOMAIN jobs : Covers(i, row[r], wave[r], sweep[r]) => Covers(i, row'[r], w, sweep'[r])
    BY <1>1 DEF Covers
  <2>3. JobsAge(jobs')
    BY <1>3, SameAge
  <2> QED
    BY <1>1, <1>3, <2>1, <2>2, <2>3, OneCovers
<1>4. ASSUME NEW answer, UNCHANGED jobs, wave' = [wave EXCEPT ![r] = [@ EXCEPT !.step = answer]]
      PROVE  OInv'
  <2> DEFINE w == [wave[r] EXCEPT !.step = answer]
  <2>1. w.read = wave[r].read /\ wave' = [wave EXCEPT ![r] = w]
    BY <1>1, <1>4 DEF WaveSlot
  <2> HIDE DEF w
  <2> QED
    BY <1>3, <1>4, <2>1
<1>5. CASE wave' = [wave EXCEPT ![r] = WaveIdle] /\ Accept(r, FALSE)
  BY <1>5, AcceptCovers DEF WaveIdle
<1>6. CASE wave' = [wave EXCEPT ![r] = WaveIdle] /\ UNCHANGED jobs
  BY <1>3, <1>6 DEF WaveIdle
<1> QED
  BY <1>2, <1>4, <1>5, <1>6 DEF Post

LEMMA RecordIdCovers == ASSUME OInv, IInv', NEW r \in Rows, RecordId(r) PROVE OInv'
<1> DEFINE read == wave[r].read
           new  == [row[r] EXCEPT !.ext = wave[r].id]
           late == [wave[r] EXCEPT !.step = "cancel"]
<1>1. /\ wave[r].step = "accepted" /\ Swap(r, read, new) /\ UNCHANGED <<sweep, web, jobs>>
      /\ row[r] \in Row /\ wave[r] \in WaveSlot /\ WaveFits(wave[r], Len(jobs))
      /\ Tidy(row[r], wave[r], sweep[r], jobs)
      /\ wave' = [wave EXCEPT ![r] = IF Matches(row[r], read) THEN WaveIdle ELSE late]
  BY Slots DEF RecordId, OInv
<1>2. /\ new.status = row[r].status /\ new.ext = wave[r].id
      /\ late.step = "cancel" /\ late.id = wave[r].id /\ late.read = read
      /\ read.ext = NoId /\ read.status = "submitted" /\ WaveIdle.step = "idle"
  BY <1>1 DEF Row, WaveSlot, Tidy, WaveFits, WaveIdle
<1> HIDE DEF new, late
<1>3. CASE Matches(row[r], read)
  <2>1. new.status \in InFlight /\ new.status # "pending"
    BY <1>2, <1>3, StatusFacts DEF Matches
  <2> QED
    BY <1>1, <1>2, <1>3, <2>1, WaveCovers
<1>4. CASE ~Matches(row[r], read)
  <2>1. UNCHANGED row
    BY <1>1, <1>4 DEF Swap
  <2>2. Swap(r, read, row[r]) /\ (row[r].status = "pending" => row[r].ext = NoId)
    BY <1>1, <1>4, <2>1 DEF Swap, Tidy
  <2> QED
    BY <1>1, <1>2, <1>4, <2>2, WaveCovers
<1> QED
  BY <1>3, <1>4

LEMMA CancelUnrecordedCovers ==
  ASSUME Tended, OInv, IInv', NEW r \in Rows, CancelUnrecorded(r) PROVE OInv'
<1>1. /\ wave[r].step = "cancel" /\ CancelJobs({wave[r].id}) /\ UNCHANGED <<row, sweep, web>>
      /\ wave' = [wave EXCEPT ![r] = WaveIdle] /\ WaveIdle.step = "idle"
      /\ JobsAge(jobs') /\ \A i \in {wave[r].id} \cap DOMAIN jobs : jobs'[i].state \notin Live
  BY CancelAges DEF CancelUnrecorded, WaveIdle, OInv
<1>2. Tidy(row[r], wave[r], sweep[r], jobs')
  BY <1>1, TidyStays
<1>3. Tidy(row'[r], WaveIdle, sweep'[r], jobs')
  BY <1>1, <1>2 DEF Tidy
<1>4. \A i \in DOMAIN jobs : jobs'[i].state \in Live /\ Covers(i, row[r], wave[r], sweep[r])
        => Covers(i, row'[r], WaveIdle, sweep'[r])
  BY <1>1 DEF Covers
<1> QED
  BY <1>1, <1>3, <1>4, OneCovers

LEMMA DeferCovers == ASSUME OInv, IInv', NEW r \in Rows, Defer(r) PROVE OInv'
<1>1. /\ wave[r].step = "busy" /\ Swap(r, wave[r].read, Deferred(row[r]))
      /\ UNCHANGED <<sweep, web, jobs>> /\ row[r] \in Row
      /\ wave' = [wave EXCEPT ![r] = WaveIdle] /\ WaveIdle.step = "idle"
  BY Slots DEF Defer, OInv, WaveIdle
<1>2. Deferred(row[r]).ext = NoId
  BY <1>1, DeferredKeeps
<1> QED
  BY <1>1, <1>2, WaveCovers

LEMMA RetryOrFailSubmitCovers ==
  ASSUME OInv, IInv', NEW r \in Rows, RetryOrFailSubmit(r) PROVE OInv'
<1> DEFINE read == wave[r].read
<1>1. /\ wave[r].step \in {"refused", "rejected"} /\ UNCHANGED <<sweep, web, jobs>>
      /\ row[r] \in Row /\ read \in Row
      /\ wave' = [wave EXCEPT ![r] = WaveIdle] /\ WaveIdle.step = "idle"
  BY Slots DEF RetryOrFailSubmit, OInv, WaveIdle
<1>2. WithStatus(row[r], "failed").status = "failed" /\ Retried(row[r], read).ext = NoId
  BY <1>1, WithStatusKeeps, RetriedMoves
<1>3. PICK new : Swap(r, read, new) /\ (new.status = "pending" => new.ext = NoId)
  BY <1>2 DEF RetryOrFailSubmit
<1> QED
  BY <1>1, <1>3, WaveCovers

LEMMA WaveReadCovers == ASSUME OInv, IInv', WaveRead PROVE OInv'
<1>1. SubmitIdle /\ UNCHANGED <<row, sweep, web, jobs>> /\ JobsAge(jobs')
  BY SameAge DEF WaveRead
<1>2. PICK S \in SUBSET PendingRows :
        wave' = [r \in Rows |->
          IF r \in S THEN [WaveIdle EXCEPT !.step = "read", !.read = row[r]] ELSE WaveIdle]
  BY DEF WaveRead
<1>3. ASSUME NEW q \in Rows
      PROVE  wave'[q].step \in {"idle", "read"} /\ (q \in S => wave'[q].read = row[q])
             /\ (wave'[q].step = "read" => q \in S)
  BY <1>2 DEF WaveIdle
<1>4. ASSUME NEW q \in Rows
      PROVE  /\ Tidy(row'[q], wave'[q], sweep'[q], jobs')
             /\ \A i \in DOMAIN jobs : Covers(i, row[q], wave[q], sweep[q])
                                       => Covers(i, row'[q], wave'[q], sweep'[q])
  <2>1. Tidy(row[q], wave[q], sweep[q], jobs) /\ wave[q].step = "idle"
    BY <1>1 DEF OInv, SubmitIdle
  <2>2. q \in S => row[q].status = "pending"
    BY DEF PendingRows
  <2>3. Tidy(row'[q], wave'[q], sweep'[q], jobs')
    BY <1>1, <1>3, <2>1, <2>2 DEF Tidy
  <2>4. \A i \in DOMAIN jobs : Covers(i, row[q], wave[q], sweep[q])
                               => Covers(i, row'[q], wave'[q], sweep'[q])
    BY <1>1, <2>1 DEF Covers
  <2> QED
    BY <2>3, <2>4
<1> QED
  BY <1>1, <1>4, CoverActs

-----------------------------------------------------------------------------
(* The sweep covers its rows' jobs.                                         *)

LEMMA SweepCovers ==
  ASSUME OInv, IInv', UNCHANGED <<wave, web, jobs>>, NEW r \in Rows,
         NEW new, Swap(r, sweep[r].read, new), NEW s, sweep' = [sweep EXCEPT ![r] = s],
         sweep[r].step \notin {"idle", "cancel"}, s.step \notin {"done", "retry"},
         new.status = "pending" => new.ext = NoId,
         Matches(row[r], sweep[r].read) =>
           \/ Ended(sweep[r].read.ext, jobs)
           \/ s.step = "cancel" /\ s.read.ext = row[r].ext
           \/ new.status \in InFlight /\ new.ext = row[r].ext
  PROVE  OInv'
<1> DEFINE read == sweep[r].read
<1>1. /\ \A q \in Rows : q # r => row'[q] = row[q]
      /\ row'[r] = IF Matches(row[r], read) THEN new ELSE row[r]
  BY SwapIs DEF OInv
<1>2. Tidy(row[r], wave[r], sweep[r], jobs) /\ JobsAge(jobs')
  BY SameAge DEF OInv
<1>3. Tidy(row'[r], wave[r], s, jobs')
  BY <1>1, <1>2 DEF Tidy
<1>4. Matches(row[r], read) => row[r].ext = read.ext
  BY DEF Matches
<1>5. ASSUME NEW i \in DOMAIN jobs, jobs'[i].state \in Live, Covers(i, row[r], wave[r], sweep[r])
      PROVE  Covers(i, row'[r], wave[r], s)
  BY <1>1, <1>4, <1>5, JobIds DEF Covers, Ended
<1> QED
  BY <1>1, <1>2, <1>3, <1>5, OneCovers

LEMMA LookCovers == ASSUME OInv, IInv', NEW r \in Rows, Look(r) PROVE OInv'
<1> DEFINE read == sweep[r].read
           job  == jobs[read.ext]
<1>1. /\ sweep[r].step = "read" /\ UNCHANGED <<row, wave, web, jobs, objects>>
      /\ sweep[r] \in SweepSlot /\ Tidy(row[r], wave[r], sweep[r], jobs) /\ JobsAge(jobs')
  BY Slots, SameAge DEF OInv, Look
<1>2. PICK answer \in IF read.ext # NoId THEN PollAnswers(r, read)
                      ELSE IF <<r, read.key>> \in objects THEN {"done"}
                      ELSE {Absent(read)} :
        sweep' = [sweep EXCEPT ![r] = IF answer = "idle" THEN SweepIdle
                                     ELSE [@ EXCEPT !.step = answer]]
  BY DEF Look
<1>3. answer # "retry" /\ answer # "cancel" /\ (answer = "done" => Ended(read.ext, jobs))
  <2>1. CASE read.ext = NoId
    BY <1>2, <2>1 DEF Absent, Ended
  <2>2. CASE read.ext # NoId
    <3>1. read.ext \in DOMAIN jobs
      BY <2>2, EndedStays, SameAge DEF JobsAge
    <3>2. job.state \in {"queued", "running", "done", "failed", "cancelled"}
      <4>1. job \in PJob
        BY <3>1 DEF OInv, IInv, TypeOK
      <4> QED
        BY <4>1 DEF PJob, Live
    <3>3. answer \in PollAnswers(r, read)
      BY <1>2, <2>2
    <3> QED
      BY <3>2, <3>3 DEF PollAnswers, Ended, Live
  <2> QED
    BY <2>1, <2>2
<1>4. PICK s : /\ sweep' = [sweep EXCEPT ![r] = s]
               /\ s.step # "retry" /\ (s.step = "done" => Ended(s.read.ext, jobs))
  <2>1. CASE answer = "idle"
    <3>1. SweepIdle.step = "idle" /\ sweep' = [sweep EXCEPT ![r] = SweepIdle]
      BY <1>2, <2>1 DEF SweepIdle
    <3> QED
      BY <3>1
  <2>2. CASE answer # "idle"
    <3> DEFINE s == [sweep[r] EXCEPT !.step = answer]
    <3>1. s.step = answer /\ s.read = read /\ sweep' = [sweep EXCEPT ![r] = s]
      BY <1>1, <1>2, <2>2 DEF SweepSlot
    <3> HIDE DEF s
    <3> QED
      BY <1>3, <3>1
  <2> QED
    BY <2>1, <2>2
<1>5. Tidy(row'[r], wave'[r], s, jobs')
  BY <1>1, <1>4 DEF Tidy
<1>6. \A i \in DOMAIN jobs : Covers(i, row[r], wave[r], sweep[r]) => Covers(i, row'[r], wave'[r], s)
  BY <1>1 DEF Covers
<1> QED
  BY <1>1, <1>4, <1>5, <1>6, OneCovers

LEMMA CompleteCovers == ASSUME OInv, IInv', NEW r \in Rows, Complete(r) PROVE OInv'
<1>1. /\ sweep[r].step = "done" /\ UNCHANGED <<wave, web, jobs>> /\ row[r] \in Row
      /\ sweep' = [sweep EXCEPT ![r] = SweepIdle] /\ SweepIdle.step = "idle"
      /\ Swap(r, sweep[r].read, WithStatus(row[r], "completed"))
      /\ Ended(sweep[r].read.ext, jobs)
  BY Slots DEF Complete, SweepIdle, OInv, Tidy
<1>2. WithStatus(row[r], "completed").status = "completed"
  BY <1>1, WithStatusKeeps
<1> QED
  BY <1>1, <1>2, SweepCovers

LEMMA RecordProgressCovers ==
  ASSUME OInv, IInv', NEW r \in Rows, RecordProgress(r) PROVE OInv'
<1> DEFINE read   == sweep[r].read
           status == CASE sweep[r].step = "queued"  -> "in_queue"
                       [] sweep[r].step = "running" -> "in_progress"
                       [] OTHER                     -> read.status
           fresh  == Progressed(read, read, status)
           new    == Progressed(row[r], read, status)
<1>1. /\ sweep[r].step \in {"unknown", "queued", "running"} /\ UNCHANGED <<wave, web, jobs>>
      /\ row[r] \in Row /\ read \in Row /\ read.status \in InFlight /\ Swap(r, read, new)
  BY Slots DEF OInv, RecordProgress, SweepFits
<1>2. PICK s : sweep' = [sweep EXCEPT ![r] = s] /\ s.step \in {"retriable", "idle"}
  <2>1. [step |-> "retriable", read |-> fresh].step = "retriable" /\ SweepIdle.step = "idle"
    BY DEF SweepIdle
  <2> QED
    BY <2>1 DEF RecordProgress
<1>3. status \in InFlight
  BY <1>1 DEF InFlight
<1> HIDE DEF status
<1>4. new.status = status /\ new.ext = row[r].ext
  BY <1>1, ProgressedKeeps
<1> HIDE DEF new
<1> QED
  BY <1>1, <1>2, <1>3, <1>4, StatusFacts, SweepCovers

LEMMA FailSweptCovers == ASSUME OInv, IInv', NEW r \in Rows, FailSwept(r) PROVE OInv'
<1> DEFINE read == sweep[r].read
           slot == [sweep[r] EXCEPT !.step = "cancel"]
           s    == IF Matches(row[r], read) /\ read.ext # NoId THEN slot ELSE SweepIdle
<1>1. /\ sweep[r].step \in {"dead", "stranded", "retriable"} /\ UNCHANGED <<wave, web, jobs>>
      /\ row[r] \in Row /\ sweep[r] \in SweepSlot
      /\ Swap(r, read, WithStatus(row[r], "failed"))
      /\ sweep' = [sweep EXCEPT ![r] = s]
  BY Slots DEF FailSwept, OInv
<1>2. /\ WithStatus(row[r], "failed").status = "failed"
      /\ slot.step = "cancel" /\ slot.read = read /\ SweepIdle.step = "idle"
  BY <1>1, WithStatusKeeps DEF SweepSlot, SweepIdle
<1> HIDE DEF slot
<1>3. s.step \in {"cancel", "idle"}
  BY <1>2
<1>4. Matches(row[r], read) => Ended(read.ext, jobs) \/ (s.step = "cancel" /\ s.read.ext = row[r].ext)
  <2>1. CASE Matches(row[r], read) /\ read.ext # NoId
    BY <1>2, <2>1 DEF Matches
  <2> QED
    BY <2>1 DEF Ended
<1> HIDE DEF s
<1> QED
  BY <1>1, <1>2, <1>3, <1>4, SweepCovers

LEMMA CancelFailedCovers ==
  ASSUME Tended, OInv, IInv', NEW r \in Rows, CancelFailed(r) PROVE OInv'
<1>1. /\ sweep[r].step = "cancel" /\ CancelJobs({sweep[r].read.ext}) /\ UNCHANGED <<row, wave, web>>
      /\ sweep' = [sweep EXCEPT ![r] = SweepIdle] /\ SweepIdle.step = "idle" /\ JobsAge(jobs')
      /\ \A i \in {sweep[r].read.ext} \cap DOMAIN jobs : jobs'[i].state \notin Live
  BY CancelAges DEF CancelFailed, SweepIdle, OInv
<1>2. Tidy(row[r], wave[r], sweep[r], jobs')
  BY <1>1, TidyStays
<1>3. Tidy(row'[r], wave'[r], SweepIdle, jobs')
  BY <1>1, <1>2 DEF Tidy
<1>4. \A i \in DOMAIN jobs : jobs'[i].state \in Live /\ Covers(i, row[r], wave[r], sweep[r])
        => Covers(i, row'[r], wave'[r], SweepIdle)
  BY <1>1 DEF Covers
<1> QED
  BY <1>1, <1>3, <1>4, OneCovers

LEMMA CancelForRetryCovers ==
  ASSUME Tended, OInv, IInv', NEW r \in Rows, CancelForRetry(r) PROVE OInv'
<1> DEFINE s == [sweep[r] EXCEPT !.step = "retry"]
<1>1. /\ sweep[r].step = "retriable" /\ CancelJobs({sweep[r].read.ext})
      /\ UNCHANGED <<row, wave, web>> /\ sweep[r] \in SweepSlot
      /\ sweep' = [sweep EXCEPT ![r] = s] /\ JobsAge(jobs')
      /\ \A i \in {sweep[r].read.ext} \cap DOMAIN jobs : jobs'[i].state \notin Live
  BY Slots, CancelAges DEF CancelForRetry, OInv
<1>2. s.step = "retry" /\ s.read = sweep[r].read
  BY <1>1 DEF SweepSlot
<1> HIDE DEF s
<1>3. Ended(s.read.ext, jobs')
  BY <1>1, <1>2, EndedStays DEF Ended
<1>4. Tidy(row[r], wave[r], sweep[r], jobs')
  BY <1>1, TidyStays
<1>5. Tidy(row'[r], wave'[r], s, jobs')
  BY <1>1, <1>3, <1>4 DEF Tidy
<1>6. \A i \in DOMAIN jobs : Covers(i, row[r], wave[r], sweep[r]) => Covers(i, row'[r], wave'[r], s)
  BY <1>1 DEF Covers
<1> QED
  BY <1>1, <1>5, <1>6, OneCovers

LEMMA RetrySweptCovers == ASSUME OInv, IInv', NEW r \in Rows, RetrySwept(r) PROVE OInv'
<1> DEFINE read == sweep[r].read
<1>1. /\ sweep[r].step = "retry" /\ UNCHANGED <<wave, web, jobs>> /\ row[r] \in Row /\ read \in Row
      /\ sweep' = [sweep EXCEPT ![r] = SweepIdle] /\ SweepIdle.step = "idle"
      /\ Swap(r, read, Retried(row[r], read)) /\ Ended(read.ext, jobs)
  BY Slots DEF RetrySwept, SweepIdle, OInv, Tidy
<1>2. Retried(row[r], read).ext = NoId
  BY <1>1, RetriedMoves
<1> QED
  BY <1>1, <1>2, SweepCovers

LEMMA SweepStartCovers ==
  ASSUME OInv, IInv', SweepRead \/ StrandedRead PROVE OInv'
<1>1. SweepDone /\ UNCHANGED <<row, wave, web, jobs>> /\ JobsAge(jobs')
  BY SameAge DEF SweepRead, StrandedRead
<1>2. \A q \in Rows : sweep'[q].step \in {"idle", "read", "stranded"}
  BY DEF SweepRead, StrandedRead, SweepIdle
<1>3. ASSUME NEW q \in Rows
      PROVE  /\ Tidy(row'[q], wave'[q], sweep'[q], jobs')
             /\ \A i \in DOMAIN jobs : Covers(i, row[q], wave[q], sweep[q])
                                       => Covers(i, row'[q], wave'[q], sweep'[q])
  <2>1. Tidy(row[q], wave[q], sweep[q], jobs) /\ sweep[q].step = "idle"
    BY <1>1 DEF OInv, SweepDone
  <2>2. Tidy(row'[q], wave'[q], sweep'[q], jobs')
    BY <1>1, <1>2, <2>1 DEF Tidy
  <2>3. \A i \in DOMAIN jobs : Covers(i, row[q], wave[q], sweep[q])
                               => Covers(i, row'[q], wave'[q], sweep'[q])
    BY <1>1, <2>1 DEF Covers
  <2> QED
    BY <2>2, <2>3
<1> QED
  BY <1>1, <1>3, CoverActs

-----------------------------------------------------------------------------
(* The glue, the clock and the provider cover the rest.                      *)

LEMMA RowCovers ==
  ASSUME OInv, IInv', UNCHANGED <<wave, sweep, web, jobs>>, NEW r \in Rows,
         NEW new, row' = [row EXCEPT ![r] = new],
         new.status = "pending" => row[r].status = "pending",
         row[r].status \in InFlight => new.status \in InFlight, new.ext = row[r].ext
  PROVE  OInv'
<1>1. row'[r] = new /\ \A q \in Rows : q # r => row'[q] = row[q]
  BY DEF OInv, IInv, TypeOK
<1>2. Tidy(row[r], wave[r], sweep[r], jobs) /\ JobsAge(jobs')
  BY SameAge DEF OInv
<1>3. Tidy(row'[r], wave'[r], sweep'[r], jobs')
  BY <1>1, <1>2 DEF Tidy
<1>4. \A i \in DOMAIN jobs : Covers(i, row[r], wave[r], sweep[r])
                             => Covers(i, row'[r], wave'[r], sweep'[r])
  BY <1>1 DEF Covers
<1> QED
  BY <1>1, <1>2, <1>3, <1>4, OneCovers

LEMMA ConsumeCovers == ASSUME OInv, IInv', NEW r \in Rows, Consume(r) PROVE OInv'
<1> DEFINE new == WithStatus(row[r], "consumed")
<1>1. row[r].status = "completed" /\ row' = [row EXCEPT ![r] = new]
      /\ UNCHANGED <<wave, sweep, web, jobs>> /\ row[r] \in Row
  BY Slots DEF Consume, OInv
<1>2. new.status = "consumed" /\ new.ext = row[r].ext
  BY <1>1, WithStatusKeeps
<1> HIDE DEF new
<1> QED
  BY <1>1, <1>2, StatusFacts, RowCovers

LEMMA DeadlineCovers == ASSUME OInv, IInv', NEW r \in Rows, DeadlinePasses(r) PROVE OInv'
<1> DEFINE new == [row[r] EXCEPT !.deadline = "passed"]
<1>1. row' = [row EXCEPT ![r] = new] /\ UNCHANGED <<wave, sweep, web, jobs>> /\ row[r] \in Row
  BY Slots DEF DeadlinePasses, OInv
<1>2. new.status = row[r].status /\ new.ext = row[r].ext
  BY <1>1 DEF Row
<1> HIDE DEF new
<1> QED
  BY <1>1, <1>2, RowCovers

LEMMA JobCovers ==
  ASSUME OInv, IInv', UNCHANGED <<row, wave, sweep, web>>, JobsAge(jobs') PROVE OInv'
BY TidyStays, CoverActs

LEMMA ProviderCovers == ASSUME OInv, IInv', ProviderNext PROVE OInv'
<1>1. PICK i \in DOMAIN jobs : JobStarts(i) \/ JobFails(i) \/ Upload(i) \/ JobEnds(i)
  BY DEF ProviderNext
<1>2. CASE Upload(i)
  BY <1>2, SameAge, JobCovers DEF Upload
<1>3. ASSUME NEW from \in SUBSET Live, NEW to, SetState(i, from, to) PROVE OInv'
  <2> DEFINE job == [jobs[i] EXCEPT !.state = to]
  <2>1. jobs' = [jobs EXCEPT ![i] = job] /\ UNCHANGED <<row, wave, sweep, web>>
        /\ jobs[i].state \in Live
    BY <1>3 DEF SetState
  <2>2. job.heard = jobs[i].heard
    BY DEF OInv, IInv, TypeOK, PJob
  <2>3. JobsAge(jobs')
    BY <2>1, <2>2 DEF JobsAge
  <2> QED
    BY <2>1, <2>3, JobCovers
<1>4. {"queued"} \in SUBSET Live /\ {"running"} \in SUBSET Live /\ Live \in SUBSET Live
  BY DEF Live
<1> QED
  BY <1>1, <1>2, <1>3, <1>4 DEF JobStarts, JobFails, JobEnds

LEMMA CoverStep == Tended /\ OInv /\ [Next]_vars => OInv'
<1> SUFFICES ASSUME Tended, OInv, [Next]_vars PROVE OInv'
  OBVIOUS
<1>1. IInv'
  BY NextIInv DEF OInv
<1>2. CASE SubmitNext
  BY <1>1, <1>2, WaveReadCovers, ClaimCovers, PostCovers, RecordIdCovers,
     CancelUnrecordedCovers, DeferCovers, RetryOrFailSubmitCovers DEF SubmitNext
<1>3. CASE SweepNext
  BY <1>1, <1>3, SweepStartCovers, LookCovers, CompleteCovers, RecordProgressCovers,
     FailSweptCovers, CancelFailedCovers, CancelForRetryCovers, RetrySweptCovers DEF SweepNext
<1>4. ~WebNext /\ ~Crash
  <2>1. ~WebNext
    BY DEF Tended, OInv, WebNext, AbandonRead, AbandonUpdate, AbandonCancel
  <2>2. ~Crash
    BY DEF Tended, OInv, IInv, TypeOK, Crash
  <2> QED
    BY <2>1, <2>2
<1>5. CASE UNCHANGED vars
  BY <1>1, <1>5, SameAge, JobCovers DEF vars
<1> QED
  BY <1>1, <1>2, <1>3, <1>4, <1>5, ProviderCovers, ConsumeCovers, DeadlineCovers DEF Next

LEMMA CoverInit == Init => OInv
<1> SUFFICES ASSUME Init PROVE OInv
  OBVIOUS
<1>1. IInv /\ web.step = "idle" /\ DOMAIN jobs = {}
  BY InitIInv DEF Init, WebIdle
<1>2. \A r \in Rows : Tidy(row[r], wave[r], sweep[r], jobs)
  BY DEF Init, Tidy, NewRow, WaveIdle, SweepIdle
<1> QED
  BY <1>1, <1>2 DEF OInv

\* Where cancels take and nobody dies or abandons, no job whose answer arrived is
\* ever left running unowned, however the submit and sweep ticks interleave: each
\* is named by an open row, or about to be named or cancelled by the tick that
\* holds its row (submit_pending's cancel of an unrecorded job, _retry_or_fail,
\* _fail).
THEOREM NoJobIsOrphaned == Tended /\ Spec => []NoOrphanJob
<1>1. OInv => NoOrphanJob
  BY DEF OInv, NoOrphanJob, HeldByActor, Covers
<1>2. ASSUME Tended PROVE Spec => []NoOrphanJob
  <2>1. OInv /\ [Next]_vars => OInv'
    BY <1>2, CoverStep
  <2> QED
    BY <1>1, <2>1, CoverInit, PTL DEF Spec
<1> QED
  BY <1>2
=============================================================================
