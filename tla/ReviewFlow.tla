------------------------------ MODULE ReviewFlow ------------------------------
(***************************************************************************)
(* One volume from the review of its pages to its opinions                 *)
(* (scanning/apply.py, services.py run_compute_redactions,                 *)
(* run_apply_page_edits and run_create_opinions, yolo.py, opinions.py,     *)
(* review_states.py, detections.py, process_next_scan.py).                 *)
(*                                                                         *)
(* The scan's status is the lock: the ticks move an approved volume to     *)
(* QUEUED under an action, a worker claims it, works for minutes and       *)
(* parks it.  The apply builds the corrected volume from the page      *)
(* edits and glues the paid results into it; the compute measures the      *)
(* redactions of that volume from the boxes; the approval of the curator   *)
(* creates the opinions.  Boxes are counted, so that the time a compute    *)
(* read them is the number written by then.                                *)
(***************************************************************************)
EXTENDS Naturals, FiniteSets

CONSTANTS
  Workers,      \* processes that claim scans, one slot each
  MaxAttempts,  \* APPLY_MAX_ATTEMPTS, of apply.py and of yolo.py
  Events,       \* what may happen beside the plain run, a subset of AllEvents
  MaxRuns,      \* bound: apply runs
  MaxEdits,     \* bound: changes of the page edits
  MaxBoxes,     \* bound: boxes drawn, moved or dismissed
  MaxPresses,   \* bound: reopens, recomputes and admin actions
  MaxKills      \* bound: workers killed

AllEvents == {"raise",      \* a build, a glue, a compute or a creation fails
              "deadrow",    \* a job row of an edited page dies
              "recompute",  \* the curator asks for the redactions again
              "reopen",     \* staff reopen either review
              "supersede",  \* an admin supersedes the apply run
              "requeue"}    \* an admin re-queues the scan

ASSUME ReviewAssumption ==
  /\ IsFiniteSet(Workers) /\ Workers # {}
  /\ MaxAttempts \in Nat \ {0} /\ MaxRuns \in Nat \ {0}
  /\ MaxEdits \in Nat /\ MaxBoxes \in Nat /\ MaxPresses \in Nat /\ MaxKills \in Nat
  /\ Events \subseteq AllEvents

VARIABLES
  status,     \* Scan.status
  action,     \* Scan.queued_action
  edits,      \* the standing page edits, by version; 0: there is none
  merged,     \* whether the volume's detection run is CONSUMED
  runs,       \* the ApplyRun rows with their job rows
  ledger,     \* provider_meta["apply"] of the detection run
  boxes,      \* human detection writes so far
  geometry,   \* the computed redactions and boundaries: the run, and the boxes in them
  opinions,   \* the opinions: the geometry they are cut from, what the worker saw
  worker,     \* what each worker holds
  curator,    \* requests in flight: a box, an approval, a reopen, a re-queue
  presses, kills

scanVars == <<status, action>>
workVars == <<merged, runs, ledger, geometry, opinions>>
humanVars == <<edits, boxes, curator, presses>>
vars == <<scanVars, workVars, humanVars, worker, kills>>

Runs  == 1..MaxRuns
Glues == {"pages", "detections"}  \* the bitonal and OCR glues; the detections glue
NoRun == 0

Statuses == {"page_review", "page_done", "queued", "processing",
             "redaction_review", "redaction_done"}
Busy     == {"queued", "processing"}
Approval == {"create", "compute_create"}        \* opinions.APPROVAL_ACTIONS
Actions  == {"pipeline", "apply", "compute"} \cup Approval

RowStates == {"none", "open", "done", "dead", "cancelled"}
Blocking  == {"open", "dead", "cancelled"}      \* BLOCKING_JOB_STATUSES

RunRow == [is : {"none", "standing", "superseded"}, built : BOOLEAN,
           edits : 0..MaxEdits, rows : [Glues -> RowStates],
           glues : SUBSET Glues, attempts : 0..MaxAttempts]
NoRow  == [is |-> "none", built |-> FALSE, edits |-> 0,
           rows |-> [g \in Glues |-> "none"], glues |-> {}, attempts |-> 0]

Steps == {"idle", "phase", "build", "commit", "glue", "supersede",
          "begin", "read", "write", "stamp", "look", "create", "park"}
Slot  == [step : Steps, doing : Actions, run : 0..MaxRuns, edits : 0..MaxEdits,
          seen : 0..MaxBoxes, boxes : 0..MaxBoxes, ok : BOOLEAN]
Idle  == [step |-> "idle", doing |-> "pipeline", run |-> NoRun, edits |-> 0,
          seen |-> 0, boxes |-> 0, ok |-> FALSE]

TypeOK ==
  /\ status \in Statuses /\ action \in Actions
  /\ edits \in 0..MaxEdits /\ merged \in BOOLEAN /\ boxes \in 0..MaxBoxes
  /\ runs \in [Runs -> RunRow]
  /\ ledger \in [run : 0..MaxRuns, applied : BOOLEAN, read : 0..MaxBoxes,
                 attempts : 0..MaxAttempts]
  /\ geometry \in [run : 0..MaxRuns, boxes : 0..MaxBoxes]
  /\ opinions \in [run : 0..MaxRuns, boxes : 0..MaxBoxes, look : 0..MaxBoxes]
  /\ worker \in [Workers -> Slot]
  /\ curator \in [box : BOOLEAN, approve : {"no", "create", "compute_create"},
                  reopen : BOOLEAN, requeue : BOOLEAN]
  /\ presses \in 0..MaxPresses /\ kills \in 0..MaxKills

NoState == [run |-> NoRun, applied |-> FALSE, read |-> 0, attempts |-> 0]

Init ==
  /\ status = "page_review" /\ action = "pipeline"
  /\ edits = 0 /\ merged \in BOOLEAN /\ boxes = 0
  /\ runs = [n \in Runs |-> NoRow]
  /\ ledger = NoState
  /\ geometry = [run |-> NoRun, boxes |-> 0]
  /\ opinions = [run |-> NoRun, boxes |-> 0, look |-> 0]
  /\ worker = [w \in Workers |-> Idle]
  /\ curator = [box |-> FALSE, approve |-> "no", reopen |-> FALSE, requeue |-> FALSE]
  /\ presses = 0 /\ kills = 0

-----------------------------------------------------------------------------
(* The rules read off the rows.                                            *)

Standing  == {n \in Runs : runs[n].is = "standing"}
Made      == {n \in Runs : runs[n].is # "none"}
Newest(S) == IF S = {} THEN NoRun ELSE CHOOSE n \in S : \A m \in S : m <= n

CurrentRun == Newest(Standing)
NextRun    == Newest(Made) + 1

\* The standing run once every glue of it is written.
FinalRun ==
  IF CurrentRun # NoRun /\ runs[CurrentRun].built /\ runs[CurrentRun].glues = Glues
  THEN CurrentRun ELSE NoRun

\* Mutated form: any compute that worked is current.
MeasuredOnce(n) == n # NoRun /\ ledger.applied

RedactionsCurrent(n) == n # NoRun /\ ledger.applied /\ ledger.run = n

\* The edge of review 2: merged, built, and measured against the build.
RedactionReviewReady == merged /\ RedactionsCurrent(FinalRun)

\* A human detection write newer than the read of the last compute.
ChangedSinceCompute == boxes > ledger.read

TriesLeft(n) == runs[n].attempts < MaxAttempts

GluesDue(n) ==
  {g \in Glues \ runs[n].glues :
     /\ runs[n].rows[g] \notin Blocking
     /\ g = "detections" => merged}

\* What an approved volume owes: a standing built run is rebuilt when the page
\* edits have changed, and glued as far as its rows are answered.
PhaseDue ==
  LET n == CurrentRun IN
  CASE n = NoRun                -> "build"
    [] n # NoRun /\ ~runs[n].built -> IF TriesLeft(n) THEN "build" ELSE "none"
    [] OTHER -> IF runs[n].edits # edits THEN "build"
                ELSE IF TriesLeft(n) /\ GluesDue(n) # {} THEN "glue" ELSE "none"

CancelOpen(rows) == [g \in Glues |-> IF rows[g] = "open" THEN "cancelled" ELSE rows[g]]

\* Close every standing run, and cancel the job rows nobody answered yet.
Superseded ==
  [n \in Runs |-> IF runs[n].is = "standing"
                  THEN [runs[n] EXCEPT !.is = "superseded", !.rows = CancelOpen(@)]
                  ELSE runs[n]]

IsAt(w, step) == worker[w].step = step
Goes(w, step) == worker' = [worker EXCEPT ![w].step = step]
Ends(w)       == worker' = [worker EXCEPT ![w] = Idle]

\* Only the action and its outcome are looked at by the park.
Parks(w, ok)  == worker' = [worker EXCEPT
                   ![w] = [Idle EXCEPT !.step = "park", !.doing = worker[w].doing,
                                       !.ok = ok]]

Queued(act) == status' = "queued" /\ action' = act

-----------------------------------------------------------------------------
(* Claims.                                                                 *)

FirstStep(act) ==
  CASE act = "apply" -> "phase" [] act = "create" -> "look"
    [] act = "pipeline" -> "park" [] OTHER -> "begin"

\* Claim the queued scan and run its action.
Claim(w) ==
  /\ IsAt(w, "idle") /\ status = "queued"
  /\ status' = "processing"
  /\ worker' = [worker EXCEPT ![w] = [Idle EXCEPT !.step = FirstStep(action),
                                                  !.doing = action]]
  /\ UNCHANGED <<action, workVars, humanVars, kills>>

\* The heartbeat keeps a claim of the action it was started for fresh.
Beating == \E w \in Workers : worker[w].step # "idle" /\ worker[w].doing = action

\* Mutated form: only the pipeline's claims are taken back.
RecoverPipeline ==
  /\ status = "processing" /\ ~Beating /\ action = "pipeline"
  /\ status' = "queued"
  /\ UNCHANGED <<action, workVars, humanVars, worker, kills>>

\* A claim nobody stamped for the timeout is queued again.
RecoverStale ==
  /\ status = "processing" /\ ~Beating
  /\ status' = "queued"
  /\ UNCHANGED <<action, workVars, humanVars, worker, kills>>

Kill ==
  /\ kills < MaxKills
  /\ kills' = kills + 1
  /\ \E w \in Workers : worker[w].step # "idle" /\ Ends(w)
  /\ UNCHANGED <<scanVars, workVars, humanVars>>

-----------------------------------------------------------------------------
(* The ticks.                                                              *)

\* apply.queue_ready_scans: an approved volume that owes a phase.
QueueApply ==
  /\ status = "page_done" /\ PhaseDue # "none"
  /\ Queued("apply")
  /\ UNCHANGED <<workVars, humanVars, worker, kills>>

\* The run the tick takes to the compute; NoRun when the pass goes on.
ComputeDue ==
  LET n == FinalRun IN
  IF merged /\ n # NoRun /\ ~RedactionsCurrent(n) THEN n ELSE NoRun

\* Measured against a superseded run: the ledger starts over.
LedgerFor(n) ==
  IF ledger.run \notin {NoRun, n} THEN [NoState EXCEPT !.run = n] ELSE ledger

\* yolo.queue_ready_runs: the last build of an approved volume is not measured.
QueueCompute ==
  /\ status \in {"page_done", "redaction_review"}
  /\ ComputeDue # NoRun
  /\ ledger' = LedgerFor(ComputeDue)
  /\ ledger'.attempts < MaxAttempts
  /\ Queued("compute")
  /\ UNCHANGED <<merged, runs, geometry, opinions, humanVars, worker, kills>>

Promote ==
  /\ status = "page_done" /\ RedactionReviewReady
  /\ status' = "redaction_review"
  /\ UNCHANGED <<action, workVars, humanVars, worker, kills>>

\* The volume's detection run is glued, in its own time.
DetectionMerged ==
  /\ ~merged /\ merged' = TRUE
  /\ UNCHANGED <<scanVars, runs, ledger, geometry, opinions, humanVars, worker, kills>>

\* The jobs of the edited pages are answered.
RowsSettle ==
  /\ \E n \in Runs, g \in Glues :
       /\ runs[n].rows[g] = "open"
       /\ \E end \in {"done"} \cup (IF "deadrow" \in Events THEN {"dead"} ELSE {}) :
            runs' = [runs EXCEPT ![n].rows[g] = end]
  /\ UNCHANGED <<scanVars, merged, ledger, geometry, opinions, humanVars, worker, kills>>

-----------------------------------------------------------------------------
(* The apply: run_apply_page_edits.                                        *)

\* Decide the phase; a build takes the standing unbuilt run or makes the next,
\* closing a built one whose edits have changed, and plans from the edits.
ApplyPhase(w) ==
  LET n == CurrentRun
      reuse == n # NoRun /\ ~runs[n].built
      closed == IF reuse THEN runs ELSE Superseded
      target == IF reuse THEN n ELSE NextRun IN
  /\ IsAt(w, "phase")
  /\ CASE PhaseDue = "build" ->
            /\ target \in Runs
            /\ runs' = [closed EXCEPT ![target].is = "standing"]
            /\ worker' = [worker EXCEPT ![w].step = "build", ![w].run = target,
                                       ![w].edits = edits]
       [] PhaseDue = "glue" -> UNCHANGED runs /\ Goes(w, "glue")
       [] OTHER -> UNCHANGED runs /\ Parks(w, FALSE)
  /\ UNCHANGED <<scanVars, merged, ledger, geometry, opinions, humanVars, kills>>

\* ensure_shard_jobs: rows that are alive are handed back, others made anew.
Ensured(rows, new) ==
  [g \in Glues |-> IF rows[g] \in {"open", "done"} THEN rows[g] ELSE new]

\* Cut the shards and create the job rows; no row for a volume nobody changed,
\* nor for edits that only delete or move pages.
ApplyRows(w) ==
  LET n == worker[w].run IN
  /\ IsAt(w, "build")
  /\ \E new \in IF worker[w].edits = 0 THEN {"none"} ELSE {"none", "open"} :
       runs' = [runs EXCEPT ![n].rows = Ensured(@, new)]
  /\ Goes(w, "commit")
  /\ UNCHANGED <<scanVars, merged, ledger, geometry, opinions, humanVars, kills>>

\* Stamp the run as built from the planned edits, and look again.
ApplyCommit(w) ==
  LET n == worker[w].run IN
  /\ IsAt(w, "commit")
  /\ runs' = [runs EXCEPT ![n].built = TRUE, ![n].edits = worker[w].edits,
                          ![n].attempts = 0]
  /\ worker' = [worker EXCEPT ![w] = [Idle EXCEPT !.step = "glue", !.doing = "apply"]]
  /\ UNCHANGED <<scanVars, merged, ledger, geometry, opinions, humanVars, kills>>

\* Write every glue of the current run that is due.
ApplyGlue(w) ==
  LET n == CurrentRun IN
  /\ IsAt(w, "glue")
  /\ runs' = IF PhaseDue = "glue"
             THEN [runs EXCEPT ![n].glues = @ \cup GluesDue(n), ![n].attempts = 0]
             ELSE runs
  /\ Parks(w, FALSE)
  /\ UNCHANGED <<scanVars, merged, ledger, geometry, opinions, humanVars, kills>>

\* A build or a glue raises: count it, and give up at the cap.
ApplyFails(w) ==
  LET n == IF IsAt(w, "glue") THEN CurrentRun ELSE worker[w].run
      attempts == runs[n].attempts + 1 IN
  /\ "raise" \in Events
  /\ worker[w].step \in {"build", "commit", "glue"}
  /\ IsAt(w, "glue") => PhaseDue = "glue"
  /\ runs' = [runs EXCEPT
       ![n].attempts = attempts,
       ![n].rows = IF attempts >= MaxAttempts THEN CancelOpen(@) ELSE @]
  /\ Parks(w, FALSE)
  /\ UNCHANGED <<scanVars, merged, ledger, geometry, opinions, humanVars, kills>>

\* The park is guarded on PROCESSING alone; a lost claim closes the runs.
ApplyPark(w) ==
  /\ IsAt(w, "park") /\ worker[w].doing = "apply"
  /\ IF status = "processing"
     THEN status' = "page_done" /\ Ends(w)
     ELSE UNCHANGED status /\ Goes(w, "supersede")
  /\ UNCHANGED <<action, workVars, humanVars, kills>>

ApplySupersedes(w) ==
  /\ IsAt(w, "supersede")
  /\ runs' = Superseded
  /\ Ends(w)
  /\ UNCHANGED <<scanVars, merged, ledger, geometry, opinions, humanVars, kills>>

-----------------------------------------------------------------------------
(* The compute: run_compute_redactions.                                    *)

\* Nothing to measure sends the scan back; else note the time before any read.
ComputeBegin(w) ==
  /\ IsAt(w, "begin")
  /\ IF ~merged \/ FinalRun = NoRun
     THEN Parks(w, FALSE)
     ELSE worker' = [worker EXCEPT ![w].step = "read", ![w].run = FinalRun,
                                   ![w].seen = boxes]
  /\ UNCHANGED <<scanVars, workVars, humanVars, kills>>

\* Import or keep the rows, and read them for the measure.
ComputeRead(w) ==
  /\ IsAt(w, "read")
  /\ worker' = [worker EXCEPT ![w].step = "write", ![w].boxes = boxes]
  /\ UNCHANGED <<scanVars, workVars, humanVars, kills>>

\* The boundaries and the redactions are written again.
ComputeWrite(w) ==
  /\ IsAt(w, "write")
  /\ geometry' = [run |-> worker[w].run, boxes |-> worker[w].boxes]
  /\ Goes(w, "stamp")
  /\ UNCHANGED <<scanVars, merged, runs, ledger, opinions, humanVars, kills>>

\* Mutated form: the stamp takes the time of the end.
ComputeStampEnd(w) ==
  /\ IsAt(w, "stamp")
  /\ ledger' = [ledger EXCEPT !.applied = TRUE, !.run = worker[w].run, !.read = boxes]
  /\ Parks(w, TRUE)
  /\ UNCHANGED <<scanVars, merged, runs, geometry, opinions, humanVars, kills>>

\* record_apply_success, before the park that reads it.
ComputeStamp(w) ==
  /\ IsAt(w, "stamp")
  /\ ledger' = [ledger EXCEPT !.applied = TRUE, !.run = worker[w].run,
                              !.read = worker[w].seen]
  /\ Parks(w, TRUE)
  /\ UNCHANGED <<scanVars, merged, runs, geometry, opinions, humanVars, kills>>

\* record_apply_failure: one attempt more, nothing else changed.
ComputeFails(w) ==
  /\ "raise" \in Events
  /\ worker[w].step \in {"read", "write", "stamp"}
  /\ ledger' = [ledger EXCEPT !.attempts = IF @ < MaxAttempts THEN @ + 1 ELSE @]
  /\ Parks(w, FALSE)
  /\ UNCHANGED <<scanVars, merged, runs, geometry, opinions, humanVars, kills>>

\* Where the scan belongs, read at the moment of the park.
ParkAt(w) == IF RedactionReviewReady THEN "redaction_review" ELSE "page_done"

\* Park the scan, or hand it on when an approval asked for the opinions; both
\* writes are guarded on QUEUED or PROCESSING.
ComputePark(w) ==
  /\ IsAt(w, "park") /\ worker[w].doing \in {"compute", "compute_create"}
  /\ IF status \notin Busy THEN UNCHANGED <<status, action>>
     ELSE IF /\ worker[w].ok /\ worker[w].doing = "compute_create"
             /\ ParkAt(w) = "redaction_review"
          THEN Queued("create")
          ELSE status' = ParkAt(w) /\ UNCHANGED action
  /\ Ends(w)
  /\ UNCHANGED <<workVars, humanVars, kills>>

-----------------------------------------------------------------------------
(* The opinions: opinions.run.                                             *)

\* Mutated form: the worker trusts the approval's read of the detections.
LookTrusting(w) ==
  /\ IsAt(w, "look")
  /\ worker' = [worker EXCEPT
       ![w].step = IF FinalRun # NoRun THEN "create" ELSE "park", ![w].seen = boxes]
  /\ UNCHANGED <<scanVars, workVars, humanVars, kills>>

\* No corrected volume, or a box newer than the compute: back to the review.
Look(w) ==
  /\ IsAt(w, "look")
  /\ worker' = [worker EXCEPT
       ![w].step = IF FinalRun # NoRun /\ ~ChangedSinceCompute THEN "create" ELSE "park",
       ![w].seen = boxes]
  /\ UNCHANGED <<scanVars, workVars, humanVars, kills>>

\* Write the opinion rows, unless a boundary is of another volume.
Create(w) ==
  /\ IsAt(w, "create")
  /\ IF geometry.run = FinalRun
     THEN /\ opinions' = [run |-> geometry.run, boxes |-> geometry.boxes,
                          look |-> worker[w].seen]
          /\ Parks(w, TRUE)
     ELSE Parks(w, FALSE) /\ UNCHANGED opinions
  /\ UNCHANGED <<scanVars, merged, runs, ledger, geometry, humanVars, kills>>

CreateFails(w) ==
  /\ "raise" \in Events
  /\ IsAt(w, "create")
  /\ Parks(w, FALSE)
  /\ UNCHANGED <<scanVars, workVars, humanVars, kills>>

CreatePark(w) ==
  /\ IsAt(w, "park") /\ worker[w].doing = "create"
  /\ status' = IF status \notin Busy THEN status
               ELSE IF worker[w].ok THEN "redaction_done" ELSE "redaction_review"
  /\ Ends(w)
  /\ UNCHANGED <<action, workVars, humanVars, kills>>

\* The whole pipeline of a re-queued scan, and its page numbers (VolumePipeline).
PipelinePark(w) ==
  /\ IsAt(w, "park") /\ worker[w].doing = "pipeline"
  /\ status' = IF status = "processing" THEN "page_review" ELSE status
  /\ Ends(w)
  /\ UNCHANGED <<action, workVars, humanVars, kills>>

-----------------------------------------------------------------------------
(* The people.                                                             *)

\* The page edits are open until the approval of the pages.
EditPages ==
  /\ status = "page_review"
  /\ edits < MaxEdits /\ edits' = edits + 1
  /\ UNCHANGED <<scanVars, workVars, boxes, curator, presses, worker, kills>>

ApprovePages ==
  /\ status = "page_review"
  /\ status' = "page_done"
  /\ UNCHANGED <<action, workVars, humanVars, worker, kills>>

\* A write of review 2 passes _refuse_closed_review, and lands later.
BoxGate ==
  /\ ~curator.box /\ boxes < MaxBoxes
  /\ status \notin {"page_review", "page_done", "redaction_done"}
  /\ ~(status \in Busy /\ action \in Approval)
  /\ curator' = [curator EXCEPT !.box = TRUE]
  /\ UNCHANGED <<scanVars, workVars, edits, boxes, presses, worker, kills>>

BoxLands ==
  /\ curator.box
  /\ boxes' = boxes + 1
  /\ curator' = [curator EXCEPT !.box = FALSE]
  /\ UNCHANGED <<scanVars, workVars, edits, presses, worker, kills>>

\* queue_create_opinions reads whether a compute is owed, and then swaps.
ApproveRead ==
  /\ status = "redaction_review" /\ curator.approve = "no"
  /\ curator' = [curator EXCEPT
       !.approve = IF ChangedSinceCompute THEN "compute_create" ELSE "create"]
  /\ UNCHANGED <<scanVars, workVars, edits, boxes, presses, worker, kills>>

ApproveSwap ==
  /\ curator.approve # "no"
  /\ IF status = "redaction_review" THEN Queued(curator.approve)
     ELSE UNCHANGED <<status, action>>
  /\ curator' = [curator EXCEPT !.approve = "no"]
  /\ UNCHANGED <<workVars, edits, boxes, presses, worker, kills>>

Press(event) == event \in Events /\ presses < MaxPresses /\ presses' = presses + 1

\* queue_redaction_compute, the button of review 2; that the volume has a
\* detection row at all, which the view asks first, is not looked at.
Recompute ==
  /\ Press("recompute")
  /\ status \in {"page_done", "redaction_review"}
  /\ Queued("compute")
  /\ UNCHANGED <<workVars, edits, boxes, curator, worker, kills>>

\* reopen_page_review moves the scan first and closes the runs after.
ReopenPages ==
  /\ Press("reopen") /\ ~curator.reopen
  /\ status = "page_done"
  /\ status' = "page_review"
  /\ curator' = [curator EXCEPT !.reopen = TRUE]
  /\ UNCHANGED <<action, workVars, edits, boxes, worker, kills>>

ReopenSupersedes ==
  /\ curator.reopen
  /\ runs' = Superseded
  /\ curator' = [curator EXCEPT !.reopen = FALSE]
  /\ UNCHANGED <<scanVars, merged, ledger, geometry, opinions, edits, boxes, presses,
                 worker, kills>>

ReopenRedactions ==
  /\ Press("reopen")
  /\ status = "redaction_done"
  /\ status' = "redaction_review"
  /\ UNCHANGED <<action, workVars, edits, boxes, curator, worker, kills>>

\* ApplyRunAdmin.supersede_runs.
AdminSupersedes ==
  /\ Press("supersede") /\ Standing # {}
  /\ runs' = Superseded
  /\ UNCHANGED <<scanVars, merged, ledger, geometry, opinions, edits, boxes, curator,
                 worker, kills>>

\* ScanAdmin._requeue of a scan stuck in PROCESSING closes the runs first.
AdminCloses ==
  /\ Press("requeue") /\ ~curator.requeue
  /\ status = "processing"
  /\ runs' = Superseded
  /\ curator' = [curator EXCEPT !.requeue = TRUE]
  /\ UNCHANGED <<scanVars, merged, ledger, geometry, opinions, edits, boxes, worker, kills>>

AdminRequeues ==
  /\ curator.requeue
  /\ IF status = "processing" THEN Queued("pipeline") ELSE UNCHANGED <<status, action>>
  /\ curator' = [curator EXCEPT !.requeue = FALSE]
  /\ UNCHANGED <<workVars, edits, boxes, presses, worker, kills>>

-----------------------------------------------------------------------------
(* The specification.                                                      *)

Tick == QueueApply \/ QueueCompute \/ Promote

Works(w) ==
  \/ ApplyPhase(w) \/ ApplyRows(w) \/ ApplyCommit(w) \/ ApplyGlue(w)
  \/ ApplyPark(w) \/ ApplySupersedes(w)
  \/ ComputeBegin(w) \/ ComputeRead(w) \/ ComputeWrite(w) \/ ComputeStamp(w)
  \/ ComputePark(w) \/ Look(w) \/ Create(w) \/ CreatePark(w) \/ PipelinePark(w)

Fails(w) == ApplyFails(w) \/ ComputeFails(w) \/ CreateFails(w)

Requests == BoxLands \/ ApproveSwap \/ ReopenSupersedes \/ AdminRequeues

People ==
  \/ EditPages \/ ApprovePages \/ BoxGate \/ ApproveRead \/ Recompute
  \/ ReopenPages \/ ReopenRedactions \/ AdminSupersedes \/ AdminCloses

Next ==
  \/ Tick \/ DetectionMerged \/ RowsSettle \/ RecoverStale \/ Kill
  \/ \E w \in Workers : Claim(w) \/ Works(w) \/ Fails(w)
  \/ Requests \/ People

Spec == Init /\ [][Next]_vars

\* The ticks run for ever, a worker that lives goes on, a request ends; nobody
\* has to press anything.
Fairness ==
  /\ WF_vars(QueueApply) /\ WF_vars(QueueCompute) /\ WF_vars(Promote)
  /\ WF_vars(DetectionMerged) /\ WF_vars(RowsSettle)
  /\ WF_vars(RecoverStale)
  /\ WF_vars(\E w \in Workers : Claim(w))
  /\ \A w \in Workers : WF_vars(Works(w))
  /\ WF_vars(Requests)

FairSpec == Spec /\ Fairness

-----------------------------------------------------------------------------
(* Properties.                                                             *)

\* Approved opinions are cut from redactions that hold every box the curator
\* had written when the worker looked (detections.changed_since_compute).
ApprovedOverReadBoxes ==
  status = "redaction_done" => opinions.boxes >= opinions.look

\* Whatever the redactions miss, the bar says so: one compute too many, and
\* never a change missed (detections.changed_since_compute).
NoChangeMissed ==
  (RedactionsCurrent(FinalRun) /\ boxes > geometry.boxes) => ChangedSinceCompute

\* Review 2 is open only over the redactions of the corrected volume that
\* stands, glued whole; an admin who closes the run leaves none standing, never
\* another (review_states.py).
ReviewOfTheStandingVolume ==
  status \in {"redaction_review", "redaction_done"} /\ Standing # {} =>
    FinalRun # NoRun /\ geometry.run = FinalRun

\* And that volume is built "from the rows as they stand at the approval"
\* (views_process.py reopen_page_review).  The code breaks it: README, "Known
\* counterexamples".
ReviewOfTheStandingEdits ==
  status \in {"redaction_review", "redaction_done"} /\ FinalRun # NoRun =>
    runs[FinalRun].edits = edits

\* The job rows of a run that was closed do not run and bill on
\* (apply.supersede_runs).  The code breaks it: README, "Known counterexamples".
NoRowsOfAClosedRun ==
  \A n \in Runs : runs[n].is = "superseded" =>
    \A g \in Glues : runs[n].rows[g] # "open"

\* Where a volume waits for a person: a dead row, or attempts that are spent.
Stuck ==
  \/ ledger.attempts = MaxAttempts
  \/ \E n \in Standing : runs[n].attempts = MaxAttempts
                         \/ \E g \in Glues : runs[n].rows[g] = "dead"

\* An approved volume reaches the next review, whatever is killed or fails on
\* the way, unless it waits for a person.
ApprovedIsMeasured ==
  status \in Busy \cup {"page_done"} ~>
    status \in {"page_review", "redaction_review", "redaction_done"} \/ Stuck

\* A scan the admin re-queued stays so until it is run (services.py
\* _park_after_redactions: "an admin who moved the scan while it computed keeps
\* their decision").  The code breaks it: README, "Known counterexamples".
AdminMoveStands ==
  [][status = "queued" /\ action = "pipeline" =>
       action' = "pipeline" /\ status' \in {"queued", "processing"}]_vars

=============================================================================
