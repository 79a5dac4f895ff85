----------------------------- MODULE RunpodJobs -----------------------------
(***************************************************************************)
(* The lifecycle of one engine's jobs on RunPod (scanning/jobs.py).        *)
(*                                                                         *)
(* Four actors share the rows and hold no lock across a call to the        *)
(* provider:                                                               *)
(*   - the submit tick claims a wave of PENDING rows and POSTs them one by *)
(*     one; wave[r] is what it holds about row r;                          *)
(*   - the sweep tick reads every row in flight, then polls and judges     *)
(*     them one by one; sweep[r] is what it holds about row r;             *)
(*   - a web request abandons a scan's open rows (web);                    *)
(*   - the glue tick consumes finished rows.                               *)
(* RunPod and S3 are modelled from how the code calls them: jobs is the    *)
(* provider's own list of jobs, objects the result keys uploaded so far.   *)
(***************************************************************************)
EXTENDS JobRows, Sequences, FiniteSets

CONSTANTS
  Cap,         \* the engine's concurrency setting
  Serial,      \* TRUE: one daemon loop; FALSE: submit and sweep are Celery tasks
  Faults,      \* which faults may happen, a subset of the ones below
  MaxCrashes   \* bound: processes that may die in one behaviour

AllFaults == {"lost",     \* an answer to POST /run never arrives
              "busy",     \* the endpoint declines work
              "refused",  \* the endpoint or the signer answers with an error
              "unknown",  \* a poll learns nothing
              "aged",     \* the provider forgot a finished job (404)
              "cancel",   \* a cancel request does not take
              "abandon"}  \* the web process abandons the scan's open rows

ASSUME RunpodAssumption ==
  /\ IsFiniteSet(Rows)
  /\ Cap \in Nat \ {0}
  /\ Serial \in BOOLEAN
  /\ Faults \subseteq AllFaults
  /\ MaxCrashes \in Nat

VARIABLES
  row,      \* the table: [Rows -> Row]
  wave,     \* the submit tick's memory, per row
  sweep,    \* the sweep tick's memory, per row
  web,      \* the abandon's memory
  jobs,     \* provider jobs, in the order they were created
  objects,  \* result keys that exist on S3, as <<row, attempt>>
  crashes   \* processes killed so far

vars == <<row, wave, sweep, web, jobs, objects, crashes>>

-----------------------------------------------------------------------------
Live == {"queued", "running"}

PJob == [row : Rows, attempt : Attempts, heard : BOOLEAN,
         state : Live \cup {"done", "failed", "cancelled"}]

\* What the submit tick knows of a row: its copy, the answer to its POST, and
\* whether this wave stamped its ceiling.
WaveSteps  == {"idle", "read", "claimed", "accepted", "busy", "refused",
               "rejected", "cancel"}
\* What the sweep tick knows of a row: its copy, and what it decided.
SweepSteps == {"idle", "read", "unknown", "queued", "running", "done", "dead",
               "retriable", "retry", "cancel", "stranded"}

WaveSlot  == [step : WaveSteps, read : Row, id : Ids \cup {NoId}, fresh : BOOLEAN]
SweepSlot == [step : SweepSteps, read : Row]
WebSlot   == [step : {"idle", "doomed", "updated"}, doomed : SUBSET Rows,
              statuses : SUBSET Open]

WaveIdle  == [step |-> "idle", read |-> NewRow, id |-> NoId, fresh |-> FALSE]
SweepIdle == [step |-> "idle", read |-> NewRow]
WebIdle   == [step |-> "idle", doomed |-> {}, statuses |-> {}]

TypeOK ==
  /\ row \in [Rows -> Row]
  /\ wave \in [Rows -> WaveSlot]
  /\ sweep \in [Rows -> SweepSlot]
  /\ web \in WebSlot
  /\ jobs \in Seq(PJob)
  /\ Len(jobs) <= MaxPosts
  /\ objects \in SUBSET (Rows \X Attempts)
  /\ crashes \in 0..MaxCrashes

Init ==
  /\ row = [r \in Rows |-> NewRow]
  /\ wave = [r \in Rows |-> WaveIdle]
  /\ sweep = [r \in Rows |-> SweepIdle]
  /\ web = WebIdle
  /\ jobs = <<>>
  /\ objects = {}
  /\ crashes = 0

-----------------------------------------------------------------------------
\* A compare-and-swap by a writer that holds the copy read: the new value if
\* nobody moved the row since, else nothing.
Swap(r, read, new) ==
  row' = IF Matches(row[r], read) THEN [row EXCEPT ![r] = new] ELSE row

\* A cancel request for every id of the set: best effort, and without effect
\* on a job that ended.
Stopped(ids) ==
  [i \in DOMAIN jobs |->
     IF i \in ids /\ jobs[i].state \in Live
     THEN [jobs[i] EXCEPT !.state = "cancelled"] ELSE jobs[i]]

CancelJobs(ids) ==
  \/ jobs' = Stopped(ids)
  \/ "cancel" \in Faults /\ UNCHANGED jobs

\* Mutated form: counts only the rows the provider answered for.
AnsweredRows == {r \in Rows : row[r].status \in InFlight /\ row[r].ext # NoId}

InFlightRows == {r \in Rows : row[r].status \in InFlight}
PendingRows  == {r \in Rows : row[r].status = "pending"}

SubmitIdle == \A r \in Rows : wave[r].step = "idle"
SweepDone  == \A r \in Rows : sweep[r].step = "idle"

-----------------------------------------------------------------------------
(* The submit tick.                                                        *)

\* Count what is in flight, take what the cap leaves, read those rows.  Which
\* PENDING rows come first (apply rows, then creation order) is left open.
WaveRead ==
  LET room == Cap - Cardinality(InFlightRows) IN
  /\ SubmitIdle
  /\ Serial => SweepDone
  /\ Cardinality(InFlightRows) < Cap
  /\ \E S \in SUBSET PendingRows \ {{}} :
       /\ Cardinality(S) <= room
       /\ Cardinality(S) = room \/ S = PendingRows
       /\ wave' = [r \in Rows |->
            IF r \in S THEN [WaveIdle EXCEPT !.step = "read", !.read = row[r]]
                       ELSE WaveIdle]
  /\ UNCHANGED <<row, sweep, web, jobs, objects, crashes>>

\* Claim one row before its URLs are signed; a signing failure is a refusal.
Claim(r) ==
  LET read == wave[r].read
      new  == Claimed(row[r], read, CeilingOnce(read)) IN
  /\ wave[r].step = "read"
  /\ Swap(r, read, new)
  /\ \/ /\ ~Matches(row[r], read)
        /\ wave' = [wave EXCEPT ![r] = WaveIdle]
     \/ /\ Matches(row[r], read)
        /\ \E step \in {"claimed"} \cup (Faults \cap {"refused"}) :
             wave' = [wave EXCEPT ![r] =
               [step |-> step, id |-> NoId, fresh |-> CeilingOnce(read) # {},
                read |-> Claimed(read, read, CeilingOnce(read))]]
  /\ UNCHANGED <<sweep, web, jobs, objects, crashes>>

\* RunPod accepts a job for this row's current attempt.
Accept(r, heard) ==
  /\ Len(jobs) < MaxPosts
  /\ jobs' = Append(jobs, [row |-> r, attempt |-> wave[r].read.key,
                           heard |-> heard, state |-> "queued"])

\* POST /run.  The wave is claimed whole before its first POST, and an answer
\* is written before the next POST.
Post(r) ==
  /\ wave[r].step = "claimed"
  /\ \A q \in Rows : wave[q].step \in {"idle", "claimed"}
  /\ \/ /\ Accept(r, TRUE)
        /\ wave' = [wave EXCEPT ![r] = [@ EXCEPT !.step = "accepted", !.id = Len(jobs) + 1]]
     \/ \E answer \in {"rejected"} \cup (Faults \cap {"busy", "refused"}) :
          /\ wave' = [wave EXCEPT ![r] = [@ EXCEPT !.step = answer]]
          /\ UNCHANGED jobs
     \/ /\ "lost" \in Faults
        /\ Accept(r, FALSE) \/ UNCHANGED jobs
        /\ wave' = [wave EXCEPT ![r] = WaveIdle]
  /\ UNCHANGED <<row, sweep, web, objects, crashes>>

\* Mutated form: a lost swap forgets the job it was told about.
RecordIdOrForget(r) ==
  /\ wave[r].step = "accepted"
  /\ Swap(r, wave[r].read, [row[r] EXCEPT !.ext = wave[r].id])
  /\ wave' = [wave EXCEPT ![r] = WaveIdle]
  /\ UNCHANGED <<sweep, web, jobs, objects, crashes>>

\* Store the provider's id, or, when the row was taken meanwhile, cancel the
\* job the row will never name.
RecordId(r) ==
  LET read == wave[r].read IN
  /\ wave[r].step = "accepted"
  /\ Swap(r, read, [row[r] EXCEPT !.ext = wave[r].id])
  /\ wave' = [wave EXCEPT ![r] =
       IF Matches(row[r], read) THEN WaveIdle ELSE [@ EXCEPT !.step = "cancel"]]
  /\ UNCHANGED <<sweep, web, jobs, objects, crashes>>

CancelUnrecorded(r) ==
  /\ wave[r].step = "cancel"
  /\ CancelJobs({wave[r].id})
  /\ wave' = [wave EXCEPT ![r] = WaveIdle]
  /\ UNCHANGED <<row, sweep, web, objects, crashes>>

Defer(r) ==
  /\ wave[r].step = "busy"
  /\ Swap(r, wave[r].read, Deferred(row[r]))
  /\ wave' = [wave EXCEPT ![r] = WaveIdle]
  /\ UNCHANGED <<sweep, web, jobs, objects, crashes>>

\* An answered refusal: another attempt, or written off when none is left.
\* The claim has no provider id, so there is nothing to cancel.
RetryOrFailSubmit(r) ==
  LET read == wave[r].read IN
  /\ \/ /\ wave[r].step = "rejected" \/ OutOfAttempts(read)
        /\ Swap(r, read, WithStatus(row[r], "failed"))
     \/ /\ wave[r].step = "refused" /\ ~OutOfAttempts(read)
        /\ Swap(r, read, Retried(row[r], read))
  /\ wave[r].step \in {"refused", "rejected"}
  /\ wave' = [wave EXCEPT ![r] = WaveIdle]
  /\ UNCHANGED <<sweep, web, jobs, objects, crashes>>

-----------------------------------------------------------------------------
(* The sweep tick.                                                         *)

SweepRead ==
  /\ SweepDone
  /\ Serial => SubmitIdle
  /\ InFlightRows # {}
  /\ sweep' = [r \in Rows |-> IF r \in InFlightRows
                              THEN [step |-> "read", read |-> row[r]]
                              ELSE SweepIdle]
  /\ UNCHANGED <<row, wave, web, jobs, objects, crashes>>

\* What an absent result object means: nothing yet, unless time is up.
Absent(read) == IF IsOverdue(read) THEN "retriable" ELSE "idle"

\* What GET /status may answer for a job; a forgotten job is judged by its key.
PollAnswers(r, read) ==
  LET job == jobs[read.ext] IN
    (Faults \cap {"unknown"})
    \cup CASE job.state = "queued"    -> {"queued"}
           [] job.state = "running"   -> {"running"}
           [] job.state = "done"      -> {"done", "dead"}
           [] job.state = "failed"    -> {"retriable", "dead"}
           [] job.state = "cancelled" -> {"dead"}
    \cup IF "aged" \in Faults /\ job.state \notin Live
         THEN IF <<r, read.key>> \in objects THEN {"done"} ELSE {"retriable"}
         ELSE {}

\* Ask about one row: by its id, or by its result key when it has no id.
Look(r) ==
  LET read    == sweep[r].read
      answers == IF read.ext # NoId THEN PollAnswers(r, read)
                 ELSE IF <<r, read.key>> \in objects THEN {"done"}
                 ELSE {Absent(read)} IN
  /\ sweep[r].step = "read"
  /\ \E answer \in answers :
       sweep' = [sweep EXCEPT ![r] = IF answer = "idle" THEN SweepIdle
                                     ELSE [@ EXCEPT !.step = answer]]
  /\ UNCHANGED <<row, wave, web, jobs, objects, crashes>>

Complete(r) ==
  /\ sweep[r].step = "done"
  /\ Swap(r, sweep[r].read, WithStatus(row[r], "completed"))
  /\ sweep' = [sweep EXCEPT ![r] = SweepIdle]
  /\ UNCHANGED <<wave, web, jobs, objects, crashes>>

\* A still-running or unknown answer refreshes the row, then the deadline is
\* checked on the refreshed copy; a lost swap ends the tick for the row.
RecordProgress(r) ==
  LET read    == sweep[r].read
      status  == CASE sweep[r].step = "queued"  -> "in_queue"
                   [] sweep[r].step = "running" -> "in_progress"
                   [] OTHER                     -> read.status
      fresh   == Progressed(read, read, status) IN
  /\ sweep[r].step \in {"unknown", "queued", "running"}
  /\ Swap(r, read, Progressed(row[r], read, status))
  /\ sweep' = [sweep EXCEPT ![r] =
       IF Matches(row[r], read) /\ IsOverdue(fresh)
       THEN [step |-> "retriable", read |-> fresh] ELSE SweepIdle]
  /\ UNCHANGED <<wave, web, jobs, objects, crashes>>

\* Write a row off, then cancel its provider job if the write won.
FailSwept(r) ==
  LET read == sweep[r].read IN
  /\ \/ sweep[r].step \in {"dead", "stranded"}
     \/ sweep[r].step = "retriable" /\ OutOfAttempts(read)
  /\ Swap(r, read, WithStatus(row[r], "failed"))
  /\ sweep' = [sweep EXCEPT ![r] =
       IF Matches(row[r], read) /\ read.ext # NoId
       THEN [@ EXCEPT !.step = "cancel"] ELSE SweepIdle]
  /\ UNCHANGED <<wave, web, jobs, objects, crashes>>

CancelFailed(r) ==
  /\ sweep[r].step = "cancel"
  /\ CancelJobs({sweep[r].read.ext})
  /\ sweep' = [sweep EXCEPT ![r] = SweepIdle]
  /\ UNCHANGED <<row, wave, web, objects, crashes>>

\* A retry cancels the attempt it replaces first, and swaps the row after.
CancelForRetry(r) ==
  /\ sweep[r].step = "retriable"
  /\ ~OutOfAttempts(sweep[r].read)
  /\ CancelJobs({sweep[r].read.ext})
  /\ sweep' = [sweep EXCEPT ![r] = [@ EXCEPT !.step = "retry"]]
  /\ UNCHANGED <<row, wave, web, objects, crashes>>

RetrySwept(r) ==
  /\ sweep[r].step = "retry"
  /\ Swap(r, sweep[r].read, Retried(row[r], sweep[r].read))
  /\ sweep' = [sweep EXCEPT ![r] = SweepIdle]
  /\ UNCHANGED <<wave, web, jobs, objects, crashes>>

\* The tail of a sweep: PENDING rows past the ceiling an earlier claim stamped.
StrandedRead ==
  LET stranded == {r \in PendingRows : row[r].deadline = "passed"} IN
  /\ SweepDone
  /\ Serial => SubmitIdle
  /\ stranded # {}
  /\ sweep' = [r \in Rows |-> IF r \in stranded
                              THEN [step |-> "stranded", read |-> row[r]]
                              ELSE SweepIdle]
  /\ UNCHANGED <<row, wave, web, jobs, objects, crashes>>

-----------------------------------------------------------------------------
(* The web process abandons the scan; the glue consumes it.                *)

AbandonRead ==
  /\ "abandon" \in Faults
  /\ web.step = "idle"
  /\ \E statuses \in {Open, Open \ {"completed"}} :
       web' = [step |-> "doomed", doomed |-> InFlightRows, statuses |-> statuses]
  /\ UNCHANGED <<row, wave, sweep, jobs, objects, crashes>>

\* One UPDATE over the open rows, whatever their provider id is by now.
AbandonUpdate ==
  /\ web.step = "doomed"
  /\ row' = [r \in Rows |-> IF row[r].status \in web.statuses
                            THEN WithStatus(row[r], "cancelled") ELSE row[r]]
  /\ web' = [web EXCEPT !.step = "updated"]
  /\ UNCHANGED <<wave, sweep, jobs, objects, crashes>>

\* The handles are read again after the update: a row of the doomed list may
\* have been given its id in between.
AbandonCancel ==
  /\ web.step = "updated"
  /\ CancelJobs({row[r].ext : r \in web.doomed})
  /\ web' = WebIdle
  /\ UNCHANGED <<row, wave, sweep, objects, crashes>>

Consume(r) ==
  /\ row[r].status = "completed"
  /\ row' = [row EXCEPT ![r] = WithStatus(@, "consumed")]
  /\ UNCHANGED <<wave, sweep, web, jobs, objects, crashes>>

-----------------------------------------------------------------------------
(* RunPod, S3, the clock and the operator's kill.                          *)

SetState(i, from, to) ==
  /\ jobs[i].state \in from
  /\ jobs' = [jobs EXCEPT ![i] = [@ EXCEPT !.state = to]]
  /\ UNCHANGED <<row, wave, sweep, web, objects, crashes>>

JobStarts(i) == SetState(i, {"queued"}, "running")
JobFails(i)  == SetState(i, Live, "failed")

\* The worker uploads to the key its submit signed, then reports done.
Upload(i) ==
  /\ jobs[i].state = "running"
  /\ objects' = objects \cup {<<jobs[i].row, jobs[i].attempt>>}
  /\ UNCHANGED <<row, wave, sweep, web, jobs, crashes>>

JobEnds(i) ==
  /\ <<jobs[i].row, jobs[i].attempt>> \in objects
  /\ SetState(i, {"running"}, "done")

\* Time passes.  A ceiling this wave has just stamped (hours) does not pass
\* while the wave still holds the row (a few requests of 30 seconds each).  A
\* sweep compares with the time it started, so what passes while it holds a row
\* is as good as passing after.
DeadlinePasses(r) ==
  /\ ~wave[r].fresh
  /\ sweep[r].step = "idle"
  /\ row[r].deadline = "running"
  /\ row[r].status \in InFlight \cup {"pending"}
  /\ row' = [row EXCEPT ![r] = [@ EXCEPT !.deadline = "passed"]]
  /\ UNCHANGED <<wave, sweep, web, jobs, objects, crashes>>

\* A process dies: what it held in memory is gone, the rows are not.
Crash ==
  /\ crashes < MaxCrashes
  /\ crashes' = crashes + 1
  /\ \/ /\ ~SubmitIdle /\ wave' = [r \in Rows |-> WaveIdle]
        /\ UNCHANGED <<sweep, web>>
     \/ /\ ~SweepDone /\ sweep' = [r \in Rows |-> SweepIdle]
        /\ UNCHANGED <<wave, web>>
     \/ /\ web.step # "idle" /\ web' = WebIdle
        /\ UNCHANGED <<wave, sweep>>
  /\ UNCHANGED <<row, jobs, objects>>

-----------------------------------------------------------------------------
SubmitNext ==
  \/ WaveRead
  \/ \E r \in Rows : \/ Claim(r) \/ Post(r) \/ RecordId(r) \/ CancelUnrecorded(r)
                     \/ Defer(r) \/ RetryOrFailSubmit(r)

SweepNext ==
  \/ SweepRead
  \/ StrandedRead
  \/ \E r \in Rows : \/ Look(r) \/ Complete(r) \/ RecordProgress(r)
                     \/ FailSwept(r) \/ CancelFailed(r)
                     \/ CancelForRetry(r) \/ RetrySwept(r)

WebNext == AbandonRead \/ AbandonUpdate \/ AbandonCancel

ProviderNext ==
  \E i \in DOMAIN jobs : JobStarts(i) \/ JobFails(i) \/ Upload(i) \/ JobEnds(i)

Next ==
  \/ SubmitNext \/ SweepNext \/ WebNext \/ ProviderNext \/ Crash
  \/ \E r \in Rows : Consume(r) \/ DeadlinePasses(r)

Spec == Init /\ [][Next]_vars

\* The beat (or the daemon's loop) runs every tick again and again, so each
\* actor's started work goes on and each kind of tick is started again; time
\* passes.  Nothing is assumed of RunPod, of the web or of crashes.
Fairness ==
  /\ SF_vars(WaveRead) /\ SF_vars(SweepRead) /\ SF_vars(StrandedRead)
  /\ \A r \in Rows :
       /\ WF_vars(Claim(r) \/ Post(r) \/ RecordId(r) \/ CancelUnrecorded(r)
                  \/ Defer(r) \/ RetryOrFailSubmit(r))
       /\ WF_vars(Look(r) \/ Complete(r) \/ RecordProgress(r) \/ FailSwept(r)
                  \/ CancelFailed(r) \/ CancelForRetry(r) \/ RetrySwept(r))
       /\ SF_vars(DeadlinePasses(r))

FairSpec == Spec /\ Fairness

-----------------------------------------------------------------------------
(* Properties.                                                             *)

\* The lifecycle keeps the promise every provider's lifecycle makes: a row is
\* harvested over its current attempt's object only, and finished rows never
\* come back (submit_pending, sweep_jobs, abandon_open).
Contract == INSTANCE JobContract WITH
  state   <- [r \in Rows |-> CASE row[r].status = "completed" -> "completed"
                               [] row[r].status = "consumed"  -> "consumed"
                               [] row[r].status \in Dead      -> "dead"
                               [] OTHER                       -> "open"],
  attempt <- [r \in Rows |-> row[r].attempt],
  results <- objects

ImplementsContract == Contract!Spec

\* A row a writer finished with (CONSUMED, FAILED, CANCELLED) is never written
\* again: no late poll, answer, retry or abandon revives it (_write, the
\* statuses filter of abandon_open).
TerminalIsFinal ==
  [][\A r \in Rows : row[r].status \in Terminal => row'[r] = row[r]]_row

\* The rows in flight never exceed the engine's concurrency setting, the ones
\* whose answer was lost included (_room_for).
CapHolds == Cardinality({r \in Rows : row[r].status \in InFlight}) <= Cap

\* A resubmission bumps the attempt: no two provider jobs are ever given the
\* same result key.
KeyPerJob ==
  \A i, j \in DOMAIN jobs :
    jobs[i].row = jobs[j].row /\ jobs[i].attempt = jobs[j].attempt => i = j

\* A job RunPod still holds, whose id reached us, is one that an open row
\* names, or that an actor is about to name or to cancel.
HeldByActor(i) ==
  \/ \E r \in Rows : wave[r].step \in {"accepted", "cancel"} /\ wave[r].id = i
  \/ \E r \in Rows : sweep[r].step = "cancel" /\ sweep[r].read.ext = i
  \/ web.step = "updated" /\ \E r \in web.doomed : row[r].ext = i

NoOrphanJob ==
  \A i \in DOMAIN jobs :
    jobs[i].heard /\ jobs[i].state \in Live =>
      \/ HeldByActor(i)
      \/ \E r \in Rows : row[r].status \in InFlight /\ row[r].ext = i

\* A row is not written off because we cancelled its job ourselves on the way
\* to a retry: it is failed with attempts left only by its own outcome.
OwnCancelIsRetried ==
  \A r \in Rows :
    row[r].status = "failed" /\ row[r].ext # NoId
    /\ row[r].attempt < MaxAttempts /\ sweep[r].step = "idle"
    => jobs[row[r].ext].state # "cancelled"

\* Every row is harvested or written off in the end, whatever RunPod answers:
\* a paused endpoint, a lost answer and a wedged job all run into a deadline.
Settled(r) == row[r].status \in Terminal \cup {"completed"}
EveryRowSettles == \A r \in Rows : <>Settled(r)
=============================================================================
