--------------------------- MODULE VolumePipeline ---------------------------
(***************************************************************************)
(* One volume from QUEUED to AWAITING_VALIDATION (scanning/services.py     *)
(* run_full_pipeline, process_next_scan, bitonal.py, admin.py).            *)
(*                                                                         *)
(* The scan's status is both its state and its lock: a worker claims a     *)
(* QUEUED scan by moving it to PROCESSING, shards it, creates one          *)
(* conversion row per shard and parks it in AWAITING; the merge tick takes *)
(* it from there once every row of the live run is finished.  Claims are   *)
(* lost to kills, to the stale sweep, to the daemon's own SIGTERM handler  *)
(* and to the admin's re-queue.  A conversion row is abstracted to the     *)
(* contract its lifecycle keeps (JobContract).                             *)
(***************************************************************************)
EXTENDS Naturals, FiniteSets

CONSTANTS
  Workers,           \* processes that claim scans, one slot each
  Shards,            \* the parts the volume is cut into
  MaxInterruptions,  \* DAEMON_MAX_INTERRUPTIONS
  Events,            \* what may happen to the workers, a subset of the below
  MaxClaims,         \* bound: claims in one behaviour
  MaxKills,          \* bound: processes killed
  MaxAdmin           \* bound: re-queues an admin asks for

AllEvents == {"raise",    \* an exception inside the pipeline
              "sigterm",  \* the serial daemon is asked to stop, and goes on
              "admin"}    \* an admin re-queues the scan

ASSUME VolumeAssumption ==
  /\ IsFiniteSet(Workers) /\ IsFiniteSet(Shards) /\ Shards # {}
  /\ MaxInterruptions \in Nat /\ MaxClaims \in Nat
  /\ MaxKills \in Nat /\ MaxAdmin \in Nat
  /\ Events \subseteq AllEvents

VARIABLES
  status,         \* Scan.status
  stamp,          \* Scan.processed_at: within the timeout, or past it
  interruptions,  \* Scan.interruption_count
  bitonal,        \* whether the original is already 1-bit
  rows,           \* the conversion rows, [Runs -> [Shards -> RowState]]
  files,          \* the result objects on S3, as <<run, shard>>
  pipeline,       \* what each worker's run_full_pipeline holds
  merge,          \* what the merge tick holds
  admin,          \* how far the admin's re-queue is
  owner,          \* auxiliary: the worker of the latest claim
  claims, kills, requeues  \* counters the bounds and the properties read

scanVars   == <<status, stamp, interruptions, bitonal, owner>>
workVars   == <<rows, files>>
countVars  == <<claims, kills, requeues>>
vars == <<scanVars, workVars, pipeline, merge, admin, countVars>>

Runs     == 1..MaxClaims   \* a claim starts at most one run
NoOne    == "nobody"
Statuses == {"queued", "processing", "awaiting", "validation", "error", "interrupted"}
RowState == {"none", "open", "completed", "consumed", "failed", "cancelled"}
DeadRow  == {"failed", "cancelled"}

Requeueable == {"error", "interrupted", "processing", "awaiting"}

PipelineSlot == [step : {"idle", "sharding", "number", "insert", "advance", "abandon"},
                 run : 0..MaxClaims, applied : BOOLEAN]
MergeSlot    == [step : {"idle", "picked", "download", "finish", "park", "fail", "delete"},
                 run : 0..MaxClaims]
PipelineIdle == [step |-> "idle", run |-> 0, applied |-> FALSE]
MergeIdle    == [step |-> "idle", run |-> 0]

TypeOK ==
  /\ status \in Statuses
  /\ stamp \in {"fresh", "old"}
  /\ interruptions \in 0..(MaxInterruptions + 1)
  /\ bitonal \in BOOLEAN
  /\ rows \in [Runs -> [Shards -> RowState]]
  /\ files \in SUBSET (Runs \X Shards)
  /\ pipeline \in [Workers -> PipelineSlot]
  /\ merge \in MergeSlot
  /\ admin \in {"idle", "picked", "abandoned"}
  /\ owner \in Workers \cup {NoOne}
  /\ claims \in 0..MaxClaims /\ kills \in 0..MaxKills /\ requeues \in 0..MaxAdmin

Init ==
  /\ status = "queued" /\ stamp = "fresh" /\ interruptions = 0
  /\ bitonal \in BOOLEAN
  /\ rows = [n \in Runs |-> [s \in Shards |-> "none"]]
  /\ files = {}
  /\ pipeline = [w \in Workers |-> PipelineIdle]
  /\ merge = MergeIdle
  /\ admin = "idle"
  /\ owner = NoOne
  /\ claims = 0 /\ kills = 0 /\ requeues = 0

-----------------------------------------------------------------------------
\* The highest of a set of runs, or 0.
Newest(T) == IF T = {} THEN 0 ELSE CHOOSE n \in T : \A m \in T : m <= n

\* The rows at the highest run; 0 when the engine never ran for this scan.
Made(n)     == \A s \in Shards : rows[n][s] # "none"
LiveRun     == Newest({n \in Runs : Made(n)})
InRun(n, S) == {s \in Shards : rows[n][s] \in S} # {}
AllIn(n, S) == \A s \in Shards : rows[n][s] \in S

\* abandon_open for the conversion stage: every open row of every run, the
\* COMPLETED ones included, is CANCELLED in one update.
Abandoned ==
  [n \in Runs |-> [s \in Shards |->
     IF rows[n][s] \in {"open", "completed"} THEN "cancelled" ELSE rows[n][s]]]

\* A write of the status guarded on the value the writer believes in.
SwapStatus(from, to) ==
  /\ status' = IF status = from THEN to ELSE status
  /\ owner' = IF status = from THEN NoOne ELSE owner
  /\ UNCHANGED <<stamp, interruptions, bitonal>>

Step(w, slot) == pipeline' = [pipeline EXCEPT ![w] = slot]

\* The heartbeat thread of a worker inside an action stamps any claim of that
\* action, so a claim ages only once no worker is inside one.
Beating == \E w \in Workers : pipeline[w].step # "idle"

-----------------------------------------------------------------------------
(* The worker.                                                             *)

Claim(w) ==
  /\ pipeline[w].step = "idle"
  /\ status = "queued"
  /\ claims < MaxClaims
  /\ claims' = claims + 1
  /\ status' = "processing" /\ stamp' = "fresh" /\ owner' = w
  /\ Step(w, [PipelineIdle EXCEPT !.step = "sharding"])
  /\ UNCHANGED <<interruptions, bitonal, workVars, merge, admin, kills, requeues>>

\* A volume that is already bitonal is parked without a conversion.
ParkUnconverted(w) ==
  /\ pipeline[w].step = "sharding"
  /\ bitonal
  /\ SwapStatus("processing", "validation")
  /\ Step(w, PipelineIdle)
  /\ UNCHANGED <<workVars, merge, admin, countVars>>

\* A run is picked back up unless one of its rows is dead.
Reusable(n) == ~InRun(n, DeadRow)

\* Read the live run and decide whether to reuse it or to start the next.
EnsureRead(w) ==
  /\ pipeline[w].step = "sharding"
  /\ ~bitonal
  /\ IF LiveRun # 0 /\ Reusable(LiveRun)
     THEN Step(w, [step |-> "advance", run |-> LiveRun,
                   applied |-> AllIn(LiveRun, {"consumed"})])
     ELSE Step(w, [PipelineIdle EXCEPT !.step = "number"])
  /\ UNCHANGED <<scanVars, workVars, merge, admin, countVars>>

\* next_run reads the rows a second time, outside any transaction.
EnsureNumber(w) ==
  /\ pipeline[w].step = "number"
  /\ Step(w, [PipelineIdle EXCEPT !.step = "insert", !.run = LiveRun + 1])
  /\ UNCHANGED <<scanVars, workVars, merge, admin, countVars>>

\* Insert the run's rows, or, when another writer made that run, take the live
\* one (the unique key is the serializer).
EnsureInsert(w) ==
  LET n == pipeline[w].run IN
  /\ pipeline[w].step = "insert"
  /\ IF Made(n)
     THEN /\ Step(w, [step |-> "advance", run |-> LiveRun,
                      applied |-> AllIn(LiveRun, {"consumed"})])
          /\ UNCHANGED rows
     ELSE /\ rows' = [rows EXCEPT ![n] = [s \in Shards |-> "open"]]
          /\ Step(w, [pipeline[w] EXCEPT !.step = "advance"])
  /\ UNCHANGED <<scanVars, files, merge, admin, countVars>>

\* Park the scan: behind its conversion, or past it when the run it found is
\* already merged.
Advance(w) ==
  LET applied == pipeline[w].applied IN
  /\ pipeline[w].step = "advance"
  /\ SwapStatus("processing", IF applied THEN "validation" ELSE "awaiting")
  /\ Step(w, IF status = "processing" \/ applied
             THEN PipelineIdle ELSE [pipeline[w] EXCEPT !.step = "abandon"])
  /\ UNCHANGED <<workVars, merge, admin, countVars>>

\* The claim was lost: hand the rows back.
AbandonLost(w) ==
  /\ pipeline[w].step = "abandon"
  /\ rows' = Abandoned
  /\ Step(w, PipelineIdle)
  /\ UNCHANGED <<scanVars, files, merge, admin, countVars>>

Raise(w) ==
  /\ "raise" \in Events
  /\ pipeline[w].step # "idle"
  /\ SwapStatus("processing", "error")
  /\ Step(w, PipelineIdle)
  /\ UNCHANGED <<workVars, merge, admin, countVars>>

-----------------------------------------------------------------------------
(* Lost claims.                                                            *)

\* Mutated form: off by one at the ceiling.
InterruptedLate ==
  /\ status = "processing"
  /\ interruptions' = interruptions + 1
  /\ status' = IF interruptions > MaxInterruptions THEN "interrupted" ELSE "queued"
  /\ owner' = NoOne
  /\ UNCHANGED <<stamp, bitonal, workVars, pipeline, merge, admin, countVars>>

\* Count the interruption and re-queue, or flag a chronic offender.
Interrupted ==
  /\ status = "processing"
  /\ interruptions' = interruptions + 1
  /\ status' = IF interruptions >= MaxInterruptions THEN "interrupted" ELSE "queued"
  /\ owner' = NoOne
  /\ UNCHANGED <<stamp, bitonal, workVars, pipeline, merge, admin, countVars>>

RecoverStale == stamp = "old" /\ Interrupted

\* The handler re-queues what is PROCESSING and returns: the interrupted
\* pipeline goes on.
Sigterm == "sigterm" \in Events /\ Interrupted

GrowsStale ==
  /\ status = "processing" /\ stamp = "fresh"
  /\ ~Beating
  /\ stamp' = "old"
  /\ UNCHANGED <<status, interruptions, bitonal, owner, workVars, pipeline, merge,
                 admin, countVars>>

Kill ==
  /\ kills < MaxKills
  /\ kills' = kills + 1
  /\ \/ \E w \in Workers : /\ pipeline[w].step # "idle"
                           /\ Step(w, PipelineIdle)
                           /\ UNCHANGED merge
     \/ merge.step # "idle" /\ merge' = MergeIdle /\ UNCHANGED pipeline
  /\ UNCHANGED <<scanVars, workVars, admin, claims, requeues>>

\* An admin re-queues: read the selection, abandon its rows, and only then
\* write the status, if it still is one the action owns.
AdminPick ==
  /\ "admin" \in Events
  /\ admin = "idle" /\ requeues < MaxAdmin
  /\ status \in Requeueable
  /\ admin' = "picked"
  /\ requeues' = requeues + 1
  /\ UNCHANGED <<scanVars, workVars, pipeline, merge, claims, kills>>

AdminAbandon ==
  /\ admin = "picked"
  /\ rows' = Abandoned
  /\ admin' = "abandoned"
  /\ UNCHANGED <<scanVars, files, pipeline, merge, countVars>>

AdminUpdate ==
  LET ours == status \in Requeueable IN
  /\ admin = "abandoned"
  /\ admin' = "idle"
  /\ status' = IF ours THEN "queued" ELSE status
  /\ owner' = IF ours THEN NoOne ELSE owner
  /\ interruptions' = IF ours THEN 0 ELSE interruptions
  /\ UNCHANGED <<stamp, bitonal, workVars, pipeline, merge, countVars>>

-----------------------------------------------------------------------------
(* The merge tick.  The scans in AWAITING are listed first; a scan's rows  *)
(* are read when its turn comes, behind the merges of the others.          *)

MergeStep(step) == merge' = [merge EXCEPT !.step = step]

MergePick ==
  /\ merge.step = "idle"
  /\ status = "awaiting" /\ LiveRun # 0
  /\ MergeStep("picked")
  /\ UNCHANGED <<scanVars, workVars, pipeline, admin, countVars>>

\* Mutated form: a run with a dead row is waited for.
VerdictPatient(n) ==
  IF AllIn(n, {"consumed"}) THEN "park"
  ELSE IF AllIn(n, {"completed"}) THEN "download"
  ELSE "idle"

\* A run still at work is left alone; one already merged only moves its scan;
\* one with a dead row fails it; else its results are merged.
Verdict(n) ==
  IF InRun(n, {"open"}) THEN "idle"
  ELSE IF AllIn(n, {"consumed"}) THEN "park"
  ELSE IF InRun(n, DeadRow) THEN "fail"
  ELSE "download"

MergeRead ==
  /\ merge.step = "picked"
  /\ merge' = [step |-> Verdict(LiveRun),
               run  |-> IF Verdict(LiveRun) = "idle" THEN 0 ELSE LiveRun]
  /\ UNCHANGED <<scanVars, workVars, pipeline, admin, countVars>>

\* Every shard's result is downloaded and assembled; a missing one is an error.
Download ==
  /\ merge.step = "download"
  /\ MergeStep(IF {merge.run} \X Shards \subseteq files THEN "finish" ELSE "fail")
  /\ UNCHANGED <<scanVars, workVars, pipeline, admin, countVars>>

Park ==
  /\ merge.step \in {"park", "fail"}
  /\ SwapStatus("awaiting", IF merge.step = "park" THEN "validation" ELSE "error")
  /\ merge' = MergeIdle
  /\ UNCHANGED <<workVars, pipeline, admin, countVars>>

\* Mutated form: the rows are left COMPLETED.
FinishWithoutConsuming ==
  /\ merge.step = "finish"
  /\ SwapStatus("awaiting", "validation")
  /\ IF status = "awaiting" THEN MergeStep("delete") ELSE merge' = MergeIdle
  /\ UNCHANGED <<workVars, pipeline, admin, countVars>>

\* Park the scan and consume the rows the merge read, in one transaction.
Finish ==
  /\ merge.step = "finish"
  /\ SwapStatus("awaiting", "validation")
  /\ IF status = "awaiting"
     THEN /\ rows' = [rows EXCEPT ![merge.run] = [s \in Shards |->
                        IF @[s] = "completed" THEN "consumed" ELSE @[s]]]
          /\ MergeStep("delete")
     ELSE merge' = MergeIdle /\ UNCHANGED rows
  /\ UNCHANGED <<files, pipeline, admin, countVars>>

\* The merged file is on S3: the shard results go.
Delete ==
  /\ merge.step = "delete"
  /\ files' = files \ ({merge.run} \X Shards)
  /\ merge' = MergeIdle
  /\ UNCHANGED <<scanVars, rows, pipeline, admin, countVars>>

-----------------------------------------------------------------------------
(* The conversion of a row, whichever run it is of: the submit and the     *)
(* sweep read neither the scan's status nor which run is live.             *)

SetRow(n, s, to) ==
  /\ rows[n][s] = "open"
  /\ rows' = [rows EXCEPT ![n][s] = to]
  /\ UNCHANGED <<scanVars, pipeline, merge, admin, countVars>>

Converts(n, s)    == SetRow(n, s, "completed") /\ files' = files \cup {<<n, s>>}
ConvertFails(n, s) == SetRow(n, s, "failed") /\ UNCHANGED files

-----------------------------------------------------------------------------
WorkerNext(w) ==
  \/ ParkUnconverted(w) \/ EnsureRead(w) \/ EnsureNumber(w) \/ EnsureInsert(w)
  \/ Advance(w) \/ AbandonLost(w)
AdminNext == AdminPick \/ AdminAbandon \/ AdminUpdate
MergeNext == MergePick \/ MergeRead \/ Download \/ Park \/ Finish \/ Delete

Next ==
  \/ \E w \in Workers : Claim(w) \/ WorkerNext(w) \/ Raise(w)
  \/ RecoverStale \/ Sigterm \/ GrowsStale \/ Kill
  \/ AdminNext \/ MergeNext
  \/ \E n \in Runs, s \in Shards : Converts(n, s) \/ ConvertFails(n, s)

Spec == Init /\ [][Next]_vars

\* The queue is polled, the merge tick and the stale sweep come again, a worker
\* that is not killed goes on, and every conversion row settles (that is
\* EveryRowSettles of DoctorJobs).  Kills, signals and admins are not assumed.
Fairness ==
  /\ WF_vars(\E w \in Workers : Claim(w))
  /\ \A w \in Workers : WF_vars(WorkerNext(w))
  /\ WF_vars(GrowsStale) /\ WF_vars(RecoverStale)
  /\ WF_vars(MergePick)
  /\ WF_vars(MergeRead \/ Download \/ Park \/ Finish \/ Delete)
  /\ \A n \in Runs, s \in Shards : WF_vars(Converts(n, s) \/ ConvertFails(n, s))

FairSpec == Spec /\ Fairness

-----------------------------------------------------------------------------
(* Properties.                                                             *)

\* A scan whose worker is killed again and again is handed out a bounded number
\* of times before a person must look (requeue_or_flag_interrupted).
ClaimsBounded == claims <= (MaxInterruptions + 1) * (requeues + 1)

\* A pipeline moves the scan only out of the claim it holds itself, never out of
\* the next worker's (_advance_scan, _handle_pipeline_exception).
OwnClaimOnly ==
  [][\A w \in Workers :
       pipeline'[w] # pipeline[w] /\ status = "processing" /\ status' # "processing"
       => owner = w]_<<status, pipeline>>

\* The run a parked scan waits for is not cancelled under it, but by an admin
\* about to re-queue the scan: nobody else than the provider ends a row the merge
\* is to read (_advance_scan, abandon_open).
AwaitedRunIsWhole ==
  status = "awaiting" /\ admin = "idle" =>
    LiveRun # 0 /\ ~InRun(LiveRun, {"cancelled"})

\* A converted volume is parked for validation only when its live run was merged
\* and consumed: no row of it is still being converted (_finish_scan).
ValidatedRunIsConsumed ==
  status = "validation" /\ ~bitonal => LiveRun # 0 /\ AllIn(LiveRun, {"consumed"})

\* What a parked volume waits for, or was handed on with, is whole: its conversion
\* is not cancelled under it, and was merged before the volume went on.
ParkedIsWhole == AwaitedRunIsWhole /\ ValidatedRunIsConsumed

\* A scan that was re-queued while an older run's merge was on its way is not
\* parked over the new run: no volume is validated while its live run is still
\* being converted (_park).
ValidatedRunIsOver ==
  status = "validation" => LiveRun = 0 \/ ~InRun(LiveRun, {"open"})

\* A conversion that was applied is never paid for again: no run is started over
\* a consumed one, though the claim, the read of the run and the insert of the
\* next one are separate steps of racing workers (ensure_run_jobs).
AppliedOnce ==
  [][\A n \in Runs : ~Made(n) /\ Made(n)' =>
       \A m \in Runs : Made(m) => ~AllIn(m, {"consumed"})]_rows

\* A run that was replaced has no row left to be converted for nobody
\* (ensure_run_jobs).
NoStrayRows == \A n \in Runs : n < LiveRun => ~InRun(n, {"open"})

\* Every volume is validated or shown to a person in the end, however its
\* workers are killed.
EventuallyParked == <>(status \in {"validation", "error", "interrupted"})
=============================================================================
