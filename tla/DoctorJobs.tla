----------------------------- MODULE DoctorJobs -----------------------------
(***************************************************************************)
(* The lifecycle of the bitonal conversions sent to doctor (scanning/      *)
(* jobs.py, doctor_client.py).  Doctor mints no job id and has no status   *)
(* endpoint: the answer to the request is the completion signal, and the   *)
(* result object on S3 the only other one.                                 *)
(*                                                                         *)
(* A submit wave claims its rows, then holds one request open per row, all *)
(* at once, and writes no outcome before the last of them is in.  The      *)
(* sweep judges the rows in flight by their result key.  Doctor and S3 are *)
(* modelled from how the code uses them: running is the set of conversions *)
(* doctor is working on, objects the result keys uploaded so far.          *)
(***************************************************************************)
EXTENDS JobRows, FiniteSets

CONSTANTS
  Cap,         \* DOCTOR_MAX_CONCURRENCY
  Serial,      \* TRUE: one daemon loop; FALSE: submit and sweep are Celery tasks
  Faults,      \* which faults may happen, a subset of the ones below
  MaxCrashes   \* bound: processes that may die in one behaviour

AllFaults == {"unanswered",  \* a request sent never hears back
              "gateway",     \* something in front of doctor answers for it
              "refused",     \* the signer, the connect or doctor asks for a retry
              "s3",          \* the sweep cannot look at S3
              "dies",        \* doctor loses a conversion
              "abandon"}     \* the web process abandons the scan's open rows

ASSUME DoctorAssumption ==
  /\ IsFiniteSet(Rows)
  /\ Cap \in Nat \ {0}
  /\ Serial \in BOOLEAN
  /\ Faults \subseteq AllFaults
  /\ MaxCrashes \in Nat

VARIABLES
  row,      \* the table: [Rows -> Row]
  wave,     \* the submit tick's memory, per row
  sweep,    \* the sweep tick's memory, per row
  running,  \* conversions doctor is running, as <<row, attempt>>
  objects,  \* result keys that exist on S3, as <<row, attempt>>
  crashes   \* processes killed so far

vars == <<row, wave, sweep, running, objects, crashes>>

WaveSteps  == {"idle", "read", "unsigned", "claimed", "sent", "done",
               "unanswered", "refused", "rejected", "gateway"}
SweepSteps == {"idle", "read", "done", "overdue"}

WaveSlot  == [step : WaveSteps, read : Row]
SweepSlot == [step : SweepSteps, read : Row]
Idle      == [step |-> "idle", read |-> NewRow]

TypeOK ==
  /\ row \in [Rows -> Row]
  /\ wave \in [Rows -> WaveSlot]
  /\ sweep \in [Rows -> SweepSlot]
  /\ running \in SUBSET (Rows \X Attempts)
  /\ objects \in SUBSET (Rows \X Attempts)
  /\ crashes \in 0..MaxCrashes

Init ==
  /\ row = [r \in Rows |-> NewRow]
  /\ wave = [r \in Rows |-> Idle]
  /\ sweep = [r \in Rows |-> Idle]
  /\ running = {}
  /\ objects = {}
  /\ crashes = 0

-----------------------------------------------------------------------------
Swap(r, read, new) ==
  row' = IF Matches(row[r], read) THEN [row EXCEPT ![r] = new] ELSE row

\* The row for another attempt, or written off when none is left.
RetriedOrFailed(cur, read) ==
  IF OutOfAttempts(read) THEN WithStatus(cur, "failed") ELSE Retried(cur, read)

InFlightRows == {r \in Rows : row[r].status \in InFlight}
PendingRows  == {r \in Rows : row[r].status = "pending"}

SubmitIdle == \A r \in Rows : wave[r].step = "idle"
SweepDone  == \A r \in Rows : sweep[r].step = "idle"

\* The attempt a held copy names: its result key.
Conversion(r, read) == <<r, read.key>>

\* Mutated forms: the deadline is looked at before the key; the key is the
\* row's rather than the attempt's.
PresentInTime(r, read)     == ~IsOverdue(read) /\ Conversion(r, read) \in objects
PresentAnyAttempt(r, read) == \E a \in Attempts : <<r, a>> \in objects

Present(r, read) == Conversion(r, read) \in objects

-----------------------------------------------------------------------------
(* The submit tick.                                                        *)

WaveRead ==
  LET room == Cap - Cardinality(InFlightRows) IN
  /\ SubmitIdle
  /\ Serial => SweepDone
  /\ room > 0
  /\ \E S \in SUBSET PendingRows \ {{}} :
       /\ Cardinality(S) <= room
       /\ Cardinality(S) = room \/ S = PendingRows
       /\ wave' = [r \in Rows |->
                     IF r \in S THEN [step |-> "read", read |-> row[r]] ELSE Idle]
  /\ UNCHANGED <<row, sweep, running, objects, crashes>>

\* Claim a row, stamp its answer budget, sign its URLs.
Claim(r) ==
  LET read == wave[r].read IN
  /\ wave[r].step = "read"
  /\ \A q \in Rows : wave[q].step # "unsigned"
  /\ Swap(r, read, Claimed(row[r], read, AnswerBudget))
  /\ IF Matches(row[r], read)
     THEN \E step \in {"claimed"} \cup
                      (IF "refused" \in Faults THEN {"unsigned"} ELSE {}) :
            wave' = [wave EXCEPT ![r] =
              [step |-> step, read |-> Claimed(read, read, AnswerBudget)]]
     ELSE wave' = [wave EXCEPT ![r] = Idle]
  /\ UNCHANGED <<sweep, running, objects, crashes>>

\* One thread per claimed row, started once the whole wave is claimed.
Send(r) ==
  /\ wave[r].step = "claimed"
  /\ \A q \in Rows : wave[q].step \notin {"read", "unsigned"}
  /\ \/ /\ wave' = [wave EXCEPT ![r].step = "sent"]
        /\ running' = running \cup {Conversion(r, wave[r].read)}
     \/ /\ "refused" \in Faults   \* the connect timed out
        /\ wave' = [wave EXCEPT ![r].step = "refused"]
        /\ UNCHANGED running
  /\ UNCHANGED <<row, sweep, objects, crashes>>

\* Mutated form: every lost request is a refusal, the read timeout too.
AnswersOrRefused(r) ==
  LET conversion == Conversion(r, wave[r].read) IN
    (IF conversion \in objects \ running THEN {"done"} ELSE {})
    \cup (IF conversion \notin objects \cup running THEN {"refused", "rejected"} ELSE {})
    \cup (IF "unanswered" \in Faults THEN {"refused"} ELSE {})

\* Doctor answers once it is finished with the request.  A request may also end
\* with no answer, or with one that is not doctor's (a 5xx to retry, anything
\* else a failure), whatever doctor is doing.
Answers(r) ==
  LET conversion == Conversion(r, wave[r].read) IN
    (IF conversion \in objects \ running THEN {"done"} ELSE {})
    \cup (IF conversion \notin objects \cup running THEN {"refused", "rejected"} ELSE {})
    \cup (IF "unanswered" \in Faults THEN {"unanswered"} ELSE {})
    \cup (IF "gateway" \in Faults THEN {"gateway"} ELSE {})

Answer(r) ==
  /\ wave[r].step = "sent"
  /\ \E answer \in Answers(r) : wave' = [wave EXCEPT ![r].step = answer]
  /\ UNCHANGED <<row, sweep, running, objects, crashes>>

\* Outcomes are written when the last request of the wave is in.
AllAnswered == \A r \in Rows : wave[r].step \notin {"read", "unsigned", "claimed", "sent"}

\* An unanswered row is left in flight: only its error text is written.
ApplyOutcome(r) ==
  LET read == wave[r].read
      step == wave[r].step IN
  /\ \/ step = "unsigned"
     \/ step \in {"done", "unanswered", "refused", "rejected", "gateway"} /\ AllAnswered
  /\ \/ step = "done"       /\ Swap(r, read, WithStatus(row[r], "completed"))
     \/ step = "unanswered" /\ UNCHANGED row
     \/ /\ step \in {"rejected", "gateway"}
        /\ Swap(r, read, WithStatus(row[r], "failed"))
     \/ /\ step \in {"refused", "unsigned", "gateway"}
        /\ Swap(r, read, RetriedOrFailed(row[r], read))
  /\ wave' = [wave EXCEPT ![r] = Idle]
  /\ UNCHANGED <<sweep, running, objects, crashes>>

-----------------------------------------------------------------------------
(* The sweep tick.  Its tail over stranded PENDING rows never finds one of *)
(* doctor's: every retry clears the deadline, and nothing defers a row.    *)

SweepRead ==
  /\ SweepDone
  /\ Serial => SubmitIdle
  /\ InFlightRows # {}
  /\ sweep' = [r \in Rows |-> IF r \in InFlightRows
                              THEN [step |-> "read", read |-> row[r]] ELSE Idle]
  /\ UNCHANGED <<row, wave, running, objects, crashes>>

\* Look for the result first; the deadline counts only when it is not there.
Look(r) ==
  LET read == sweep[r].read IN
  /\ sweep[r].step = "read"
  /\ \/ /\ Present(r, read)
        /\ sweep' = [sweep EXCEPT ![r].step = "done"]
     \/ /\ ~Present(r, read) /\ IsOverdue(read)
        /\ sweep' = [sweep EXCEPT ![r].step = "overdue"]
     \/ /\ (~Present(r, read) /\ ~IsOverdue(read)) \/ "s3" \in Faults
        /\ sweep' = [sweep EXCEPT ![r] = Idle]
  /\ UNCHANGED <<row, wave, running, objects, crashes>>

Judge(r) ==
  LET read == sweep[r].read IN
  /\ \/ sweep[r].step = "done"    /\ Swap(r, read, WithStatus(row[r], "completed"))
     \/ sweep[r].step = "overdue" /\ Swap(r, read, RetriedOrFailed(row[r], read))
  /\ sweep' = [sweep EXCEPT ![r] = Idle]
  /\ UNCHANGED <<wave, running, objects, crashes>>

-----------------------------------------------------------------------------
(* The web process, the merge tick, doctor, the clock, the kill.           *)

\* One UPDATE over the open rows; there is no provider job to cancel.
Abandon ==
  /\ "abandon" \in Faults
  /\ \E statuses \in {Open, Open \ {"completed"}} :
       row' = [r \in Rows |-> IF row[r].status \in statuses
                              THEN WithStatus(row[r], "cancelled") ELSE row[r]]
  /\ UNCHANGED <<wave, sweep, running, objects, crashes>>

Consume(r) ==
  /\ row[r].status = "completed"
  /\ row' = [row EXCEPT ![r] = WithStatus(@, "consumed")]
  /\ UNCHANGED <<wave, sweep, running, objects, crashes>>

\* Doctor finishes a conversion with its one PUT, or without it.
ConversionEnds(c) ==
  /\ c \in running
  /\ running' = running \ {c}
  /\ \/ objects' = objects \cup {c}
     \/ "dies" \in Faults /\ UNCHANGED objects
  /\ UNCHANGED <<row, wave, sweep, crashes>>

\* The answer budget (900 s) outlasts the wave that stamped it (a connect and a
\* read timeout, 305 s).
DeadlinePasses(r) ==
  /\ wave[r].step = "idle" /\ sweep[r].step = "idle"
  /\ row[r].status \in InFlight /\ row[r].deadline = "running"
  /\ row' = [row EXCEPT ![r] = [@ EXCEPT !.deadline = "passed"]]
  /\ UNCHANGED <<wave, sweep, running, objects, crashes>>

\* A killed process forgets its wave or its sweep; doctor does not notice.
Crash ==
  /\ crashes < MaxCrashes
  /\ crashes' = crashes + 1
  /\ \/ ~SubmitIdle /\ wave' = [r \in Rows |-> Idle] /\ UNCHANGED sweep
     \/ ~SweepDone /\ sweep' = [r \in Rows |-> Idle] /\ UNCHANGED wave
  /\ UNCHANGED <<row, running, objects>>

-----------------------------------------------------------------------------
SubmitNext == WaveRead \/ \E r \in Rows : Claim(r) \/ Send(r) \/ Answer(r) \/ ApplyOutcome(r)
SweepNext  == SweepRead \/ \E r \in Rows : Look(r) \/ Judge(r)

Next ==
  \/ SubmitNext \/ SweepNext \/ Abandon \/ Crash
  \/ \E r \in Rows : Consume(r) \/ DeadlinePasses(r)
  \/ \E c \in Rows \X Attempts : ConversionEnds(c)

Spec == Init /\ [][Next]_vars

\* Both ticks run again and again and go on with what they started; every
\* request ends, with an answer or a timeout; time passes.  Doctor may hold a
\* conversion for ever, and S3 must answer a sweep once in a while.
Fairness ==
  /\ SF_vars(WaveRead) /\ SF_vars(SweepRead)
  /\ \A r \in Rows :
       /\ WF_vars(Claim(r) \/ Send(r) \/ Answer(r) \/ ApplyOutcome(r))
       /\ WF_vars(Look(r) \/ Judge(r))
       /\ SF_vars(Look(r) /\ sweep'[r].step # "idle")
       /\ SF_vars(DeadlinePasses(r))

FairSpec == Spec /\ Fairness

-----------------------------------------------------------------------------
(* Properties.                                                             *)

\* The lifecycle keeps the promise every provider's lifecycle makes: a row is
\* harvested over its current attempt's object only, and finished rows never
\* come back (_apply_doctor_outcome and _sweep_doctor_job).
Contract == INSTANCE JobContract WITH
  state   <- [r \in Rows |-> CASE row[r].status = "completed" -> "completed"
                               [] row[r].status = "consumed"  -> "consumed"
                               [] row[r].status \in Dead      -> "dead"
                               [] OTHER                       -> "open"],
  attempt <- [r \in Rows |-> row[r].attempt],
  results <- objects

ImplementsContract == Contract!Spec

\* The object of a row's attempt has landed, and no tick holds a decision against
\* it: its answer was lost, its process killed, or it is long past its deadline.
Landed(r) ==
  /\ <<r, row[r].attempt>> \in objects
  /\ row[r].status \notin {"pending", "failed"}
  /\ wave[r].step = "idle" /\ sweep[r].step # "overdue"

\* A result on S3 wins over a deadline: from then on no tick decides against it,
\* and the attempt is never retried or written off, whenever the next sweep comes
\* (_sweep_doctor_job looks at the key before the deadline).
LateResultWins ==
  [][\A r \in Rows : Landed(r) => Landed(r)' /\ row'[r].attempt = row[r].attempt]_vars

\* A shard is not converted, and paid for, twice at once: an attempt whose
\* conversion is still running is given up only past its answer budget, or on an
\* answer the code takes for doctor's own (_apply_doctor_outcome).
OneConversion ==
  [][\A r \in Rows :
       row'[r].attempt # row[r].attempt /\ Conversion(r, row[r]) \in running
       => row[r].deadline = "passed" \/ wave[r].step = "gateway"]_row

\* Every row is harvested or written off in the end, though doctor may never
\* answer, never finish, or lose what it ran.
Settled(r) == row[r].status \in Terminal \cup {"completed"}
EveryRowSettles == \A r \in Rows : <>Settled(r)
=============================================================================
