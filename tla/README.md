# Verification of the scanning pipeline

TLA+ models of the concurrent core of this repository, the TLC configurations
that check them on small instances, and theorems about them that TLAPS checks
for every instance. `PROJECT.json` lists every component, run, mutant, theorem
and hazard, and maps each definition to the lines it models.

    tlc -config RunpodSerial.cfg MCRunpodJobs      # one run
    tlapm RunpodJobs_proofs.tla                    # the proofs of a module

## 1. The system

A volume (`Scan`) is a PDF that goes through a line of automatic stages and
human reviews. Nothing long runs in a request: a request or a tick writes a
status, a worker claims the scan by a compare-and-swap on that status, and the
heavy work is cut into shards, one `ExternalJob` row each, that GPU providers
and a conversion service (doctor) run. Ticks submit the rows, sweep them, and
glue the results when all of a run are in.

    upload -> QUEUED -> PROCESSING -> AWAITING -> AWAITING_VALIDATION
      -> page numbers -> review 1 -> page-edit apply + detection
      -> redaction compute -> review 2 -> opinions -> OCR glue -> ensemble
      -> text review -> tagger -> final XML

| component | state it keeps | operations | interacts with |
|---|---|---|---|
| job lifecycle (`jobs.py`, `models.ExternalJob`) | one row per shard: status, attempt, external id, result key, deadline | claim a wave, submit, record the id, sweep, complete, retry, fail, abandon, consume | RunPod, doctor, Mistral through their clients; S3 by result key; scans through `live_run` |
| runs and carry (`jobs.ensure_run_jobs`, `_reusable_results`) | the rows' run number; the highest is live | reuse, start the next run, carry paid results | the unique key (scan, stage, engine, run, shard) serializes two writers |
| scan claims (`process_next_scan.py`, `run_daemon.py`, `tasks.py`) | `Scan.status`, `processed_at`, `interruption_count`, `queued_action` | claim, heartbeat, stale sweep, SIGTERM re-queue, dispatch | every pipeline, the admin |
| pipelines (`services.py`) | the scan's status, local files | shard, start runs, park; compute redactions; apply; create opinions | claims, runs, merges |
| merges and glues (`bitonal.py`, `dots_mocr.py`, `yolo.py`, `surya.py`, `tagger.py`, `ticks.py`) | rows' COMPLETED to CONSUMED, attempts of the glue, merged objects | read the live run, assemble, park, consume, delete | the job rows, S3, the scan's status |
| Mistral batches (`mistral_ocr.py`) | a row, its batch, its page files at the provider | render and upload pages, create the batch, poll, harvest, delete files | the same rows, another provider |
| apply runs (`apply.py`, `page_edits.py`) | `ApplyRun` (standing or superseded), the edits' `applied_run` | plan, build, glue, supersede | the claim, rows of an apply run |
| redactions and review 2 (`services.py`, `detections.py`, `redactions.py`, `review_states.py`) | detections, redaction rows, findings, stamps of the last compute | compute, edit, promote, approve | claims, opinions |
| opinions (`opinions.py`, `opinion_ocr.py`, `ensemble.py`, `opinion_review.py`, `final_xml.py`) | status, `glue_revision`, the revision each object was written at | create, glue, vote, promote and demote, edit, approve, export | review 2, S3 |
| locks and ticks (`locks.py`, `tasks.py`, `ticks.py`, `stopping.py`) | Postgres advisory locks, the stop event | skip a tick that another process runs | all of the above |
| upload (`views.py`, `services.py`, `cleanup_processing_tmp.py`, `recover_pending_uploads.py`) | the scan row, `PendingUpload`, the original's object on S3 | presign, POST, confirm, classic upload, sweep, recover by hand | the browser, S3; queues the scan |

What makes it hard:

- **No lock is held across a call.** Every writer holds a copy it read earlier
  and swaps on two fields of it (`jobs._write`) or on a status
  (`services._advance_scan`, `bitonal._park`). The same status comes back, for
  another attempt, another claim, another run.
- **Two deployments.** The serial daemon runs all ticks in one loop; under the
  Celery beat a submit task and a sweep task hold different locks and run at
  once. Both are in the code, and some properties hold in one only.
- **Answers get lost, and come late.** RunPod may have accepted a job whose id
  never arrived; a worker given up hours ago may still upload.
- **Everything may be killed**, and the daemon's own SIGTERM handler re-queues
  a scan whose pipeline goes on for the rest of the grace period.
- **Two keys for one thing.** A row of the table and an object on S3 are written
  one after the other, so every stamp (`ocr`, `ens`, `pdf`, the tagger's spans,
  the XML digest) may be there without its object or the other way round.
- **Page spaces.** A page decision speaks of original pages, a box of pages of
  a built volume, and a rebuild moves them.
- **People act in between**: page edits, boxes, approvals, reopens, an abandon,
  an admin's re-queue or supersede, commands run by hand without the locks.

What makes each component correct (the hazards in `PROJECT.json` carry the
lines): a row is harvested over its own attempt's object, paid for once and
settled in the end; provider work in flight stays under its cap and none runs
unnamed; a scan is moved only by the holder of its claim, handed out a bounded
number of times, and validated only over a run that was merged; the corrected
volume is the one the standing page decisions describe, and review 2 and the
opinions are about that volume and no other; an opinion is never shown,
approved or exported at a revision whose objects are not written; the exported
XML is the approved text, and what is withdrawn or deleted leaves no object; a
PDF that was uploaded is never lost and queued once.


## 2. Modules

| module | models |
|---|---|
| `JobRows` | one job row and the fields each write sets; shared by the three lifecycles |
| `JobContract` | abstract: what a lifecycle promises its consumer |
| `RunpodJobs` | the lifecycle with RunPod: an id, a status endpoint, a cap |
| `DoctorJobs` | the lifecycle with doctor: no id, no status endpoint |
| `MistralJobs` | the lifecycle with Mistral: batches, and page files that must be deleted |
| `VolumePipeline` | one volume from QUEUED to AWAITING_VALIDATION |
| `VolumeReads` | the same volume with the OCR read of its parts, to the review of its pages |
| `PageEdits` | the decisions on the pages, the corrected volume built from them, the boxes that follow |
| `ReviewFlow` | one volume from the approval of its pages to its opinions |
| `OpinionRows` | one opinion from its creation to the approval of its text |
| `FinalXml` | the approved text, the tagger's spans, the exported XML |
| `Uploads` | the upload of the original and its recovery |
| `RunpodJobs_proofs`, `DoctorJobs_proofs`, `MistralJobs_proofs`, `VolumeReads_proofs` (which also proves of `VolumePipeline`), `ReviewFlow_proofs`, `OpinionRows_proofs`, `FinalXml_proofs`, `UploadsAndEdits_proofs` (of `Uploads` and of `PageEdits`) | theorems |
| `MC*` | what TLC needs beside a module: symmetry sets, nothing that models code |

The modules compose through what one promises the next. The three lifecycles
implement `JobContract`, and the rows of `VolumePipeline`, `ReviewFlow` and
`FinalXml` follow that contract: open, then completed with an object, or dead.
`Uploads` ends where `VolumePipeline` begins (a QUEUED scan); `VolumeReads`
extends `VolumePipeline`, whose steps it keeps, to where a curator reviews pages. `PageEdits` has the content of a build and
`ReviewFlow` who may start and close one: the decisions of the first are a
version number in the second. `ReviewFlow` ends with opinions created over a
geometry; `OpinionRows` follows one of them to an approved text, `FinalXml` that
text to S3.

In every module one action is one database statement, one object written or
deleted, or one call to a provider, so every interleaving of two processes at
those points is a behaviour. What a process read stays in its slot (`wave`,
`sweep`, `hand`, `mem`, `worker`, `build`, `web`) and is used after the world
has moved on; a kill empties the slot and nothing else.

The **mutated forms** beside some definitions are used by no action. Each is a
plausible slip in the code it stands for; put in the definition's place, it
makes TLC report the property `PROJECT.json` pairs it with.

### JobRows and RunpodJobs

A row keeps `status`, `attempt`, `ext` (the provider id, 0 for none), `key` (the
attempt its result key is scoped to) and `deadline`, abstracted to unset,
running or passed. `Matches` is the WHERE clause of `_write`; a write computes
the new row from the row in the table and from the writer's copy, because the
code does (`attempt = job.attempt + 1` is the copy's).

| action | code |
|---|---|
| `WaveRead`, `Claim`, `Post`, `RecordId`, `CancelUnrecorded`, `Defer`, `RetryOrFailSubmit` | `claim_for_wave`, `_claim`, `_submit_runpod_engine_wave`, `_apply_runpod_outcome`, `_defer`, `_retry_or_fail` |
| `SweepRead`, `Look`, `Complete`, `RecordProgress`, `FailSwept`, `CancelFailed`, `CancelForRetry`, `RetrySwept`, `StrandedRead` | `sweep_jobs`, `_sweep_runpod_job`, `_complete`, `_record_progress`, `_fail`, `_retry_or_fail` and the sweep's tail |
| `AbandonRead`, `AbandonUpdate`, `AbandonCancel` | `abandon_open` |
| `Consume` | `consume_run` |
| `Crash` | a killed process, or a database error past its retries (`db_retried`) |
| `JobStarts`, `JobFails`, `Upload`, `JobEnds` | RunPod and S3, external |

Time is `DeadlinePasses`: it needs the row's deadline to be running. It does
not fire for a ceiling the current wave has just stamped (hours, against a wave
of requests of 30 seconds).

### DoctorJobs

A wave claims its rows, opens one request per row, and writes every outcome
after the last is in; `Answers` is what the request may end with. `running` and
`objects` are doctor's and S3's side. A result that is on S3 wins over the
deadline, since the sweep looks at the key first.

### MistralJobs

`row` adds to the common fields the submission (`submitted_at`, which names the
files) and `files`, the list a deletion is under way for. `hand` holds the copies
of the wave, the sweep and the web process. A submission goes through `Upload`,
`CreateBatch` and `RecordId` under the submit lock (`_prepare_and_submit`,
`_apply_outcome`); the
sweep is `Poll`, `Harvest` and `Complete` for a row with a batch, and `LookClaim`,
`LookAgain` and `Discard` for a claim without one, judged by whether its wave
still holds the lock (`_claim_alive`). Every way out names the files on the row
before it deletes them (`Verdict`, `Cancel`, `Delete`, `Rewrite`), and
`LeftoverRead` finishes what a throttled delete left. The pages of one batch are
one file set; an abandon is one action.

### VolumePipeline

The scan's status is its lock. `pipeline[w]` is how far worker `w` is in
`run_full_pipeline`; it is not told when the claim is lost, as in the code.
`owner` is auxiliary: the worker of the latest claim, read by one property and
by no guard. `merge` is the merge tick between its reads and its writes, `admin`
the admin's re-queue between its two. A shut-down daemon is `Sigterm`: it
re-queues what is PROCESSING and its pipeline goes on. Abstracted: the shards'
content, messages and progress counters, a second volume (claims of different
scans share no state but the queue).

### VolumeReads

One action per step of `ensure_run_jobs` for whoever starts a read (`creator`: a
worker inside its claim, the sweep of the submit tick, the button and the
command, which are the one "staff"), of the tick that glues and applies
(`pass`), and of a row's worker. A row says whether its answer has a hole (a page
the model could not read: the worker is deterministic, so it is a constant of the
part, `Hard`) and whether its stored summary tells of it: a carried row and a row
whose answer was lost do not, until the glue stamps them. A creator carries what
`PriorResults` has if a look at S3 confirms the object; with "s3" any look may not
(an outage, an object that is gone), and `unseen` is the parts for which it did not:
these are read again, as the docstring of `_reusable_results` says. `ledger` is the
bookkeeping on the first row of a run, `numbers` the run `Scan.ocr_results` is
of, `review` the statuses past AWAITING_VALIDATION. The worker's steps are those
of `VolumePipeline`, with the rows of the read ensured before and handed back
after.

### PageEdits

`rows` are the `PageEdit` rows by primary key and `runs` the `ApplyRun` rows by
number; `Plan` is `plan_run`'s page map: `SlotOrder` lays out the pages and the
gaps, `Emit` says what the rows make of each. `BeginBuild`, `CutShard`,
`CommitBuild`, `FailBuild` and `KillBuild` are `build_run` and `_build`: the plan
is read at the start, the shards are written under keys by edit, the rows are
stamped at the end. `ProjectInserts` is `page_edits.project_inserts`, the walk
the viewer draws from, and `Place` the mapping that moves a box from one build's
pages to the next's. `late` is a request that passed `_refuse_locked_edits` before
the approval and writes after it. `Decided` is the reference the plan is checked
against: every page and image sorted by the place a decision gives it, with no
slot and no gap.

### ReviewFlow

`status` and `action` are the lock, as in `VolumePipeline`. The ticks queue an
approved volume (`QueueApply`, `QueueCompute`), a worker claims it and goes
through the apply (plan, build, commit, glue, failure count), the compute (begin,
read the boxes, write, stamp, look again, park) or the creation of opinions.
`worker[w].seen` is what it read of the boxes. `ledger` is
`provider_meta["apply"]` of the YOLO run: what was measured, and the attempts.
People draw boxes, approve, reopen either review, press the recompute; an admin
closes the apply run or re-queues the scan. Boxes are counted, so that "the
compute read every box" is an inequality. A box and its timestamp are committed
in one action, and so are the page edit's gate and its write (`PageEdits` takes
these apart).

### OpinionRows

`row` is the ledger of one `Opinion`: the status, `glue_revision`,
`edit_revision`, the revision each object was stamped at and the attempts of each
work. `bucket` is the objects by revision, with the redactions they were made
under and the edits they hold; `scan`, `drawn` are the redaction review and what
it has drawn. The processes are the `prepare_opinions` tick (glue, ensemble,
promotion, prune), the PDF tick, the figure tick, a curator's edit, a curator's
approval, and the re-glue command. "byhand" runs a tick's command beside the
tick, without its lock. `volume` is what `load_inputs` finds of the volume: it is
held (`ScanHeld`), or has fewer engine documents than `min_engines`, or enough; with
"engines" it changes at any moment, as reads end, die or are asked for again. A glue
stamps on the row how many documents it was made from (`enough`), and the build of
the text looks at that count, the re-run button at none.

### FinalXml

`opinion` has the approved text's key, the spans' key and the digest stamped for
the XML; `file` is the object at the one stable key; `body` is what each text
reads. The exporter renders, uploads and stamps under an advisory lock
(`ExportNext`), the glue places spans (`GlueRead`, `GlueStamp`), a press starts a
tagger run or carries an older one's result by the identity of its input, and the
admin's deletion withdraws. `runs[r].of` is the body a run is over and
`runs[r].made` the body its result object was made from: a carry copies the latter,
so a result of another text would show (`SpansFitText`).

### Uploads

| action | code |
|---|---|
| `Presign`, `Authorise`, `PresignFails` | `presign_scan_upload`: the scan, then the `PendingUpload`, then the signature |
| `Confirm`, `ConfirmVerifies`, `ConfirmReclaims`, `ConfirmForgets`, `WebSaves`, `ConfirmDrops`, `WebApplies` | `confirm_scan_upload` |
| `QueueUpload`, `StreamLands`, `StreamFails` | `queue_upload`, the classic form |
| `Starts`, `Takes`, `RecoveryVerifies`, `SweepReclaims`, `SweepForgets`, `RecoverySaves`, `RecoveryApplies`, `RecoveryDrops`, `Ends` | `_sweep_pending_uploads` and `recover_pending_upload` |
| `ClaimNext` | `claim_next` takes the queued scan |
| `Post`, `Grows`, `TurnsStale`, `KillRequest`, `KillRecovery` | the browser, time, the operating system; external |

`hand[h].todo` is the list of rows a sweep fetched with their scans, and
`fileless` what those copies said: the sweep acts on them, not on the table.
A tab whose row is past the TTL does nothing more (`InTime`) unless "late" is in
`Events`: the settings make the TTL (nine hours) longer than any transfer.

## 3. Runs

| run | instance | what it shows |
|---|---|---|
| `RunpodSerial` | 1 row, 2 attempts, 3 provider jobs, 1 crash, every fault and an abandon, serial daemon | no key signed twice, `JobContract` implemented, the row settles |
| `RunpodCelery` | 2 rows, cap 1, 2 attempts, lost answers and a busy endpoint, ticks at once | the cap, no unnamed job, finished rows are final |
| `DoctorCelery` | 2 rows in one wave, cap 2, 2 attempts, every fault but a gateway's answer, 1 crash, ticks at once | `JobContract` implemented, a late result wins, one conversion at a time inside the budget, every row settles |
| `MistralPages` | 1 row, 2 attempts, 3 uploads, 1 hand-back or kill, nine faults, serial daemon | every page file can be found and goes, `JobContract` implemented, the row settles |
| `VolumeRequeues` | 2 workers, 1 shard, SIGTERM, exceptions, a kill, an admin | claims bounded, parked in the end |
| `VolumeReads` | 1 worker, 1 shard, 2 parts of which one has a hole, 2 claims, SIGTERM, an exception, 1 press of any kind, a dead row, looks at S3 that do not confirm, 1 kill or fault | a parked volume is whole, the review is of a glued run, nothing read is bought again, no hole a third time, unless the look at S3 did not confirm it |
| `PageEditsBuilds` | 2 pages, 2 decisions of any kind, 2 builds, 1 box, kills, failures, reopen, supersede, late requests | the corrected volume is the decision, the viewer shows it, boxes keep their page |
| `ReviewApprovals` | 1 worker, 4 apply runs, 1 edit, 1 box, 1 press of any kind, 1 kill, failures | no change missed, approved over the boxes it read, review 2 is about the standing volume, an approved volume goes on |
| `OpinionEdits` | 1 picture, 2 revisions, 2 edit revisions, commands by hand, faults, 1 death | the text is current, promotion over live stamps, what is approved is whole |
| `OpinionReviews` | two readings of the redactions, reopen, 2 revisions, engine documents that come and go, 1 death | stamped glues and PDFs exist, approved stays, every opinion settles or waits at a named gate |
| `FinalXmlListing` | 2 texts of 2 bodies, 2 tagger runs, rewrite, command, deletion, refused S3 calls, 1 death | what is called written is in the bucket, spans fit, every object is named, the listing catches up |
| `UploadSweeps` | 2 direct uploads and a classic one, 2 copies of the sweep, files that are no PDF, 2 kills | a good file is kept, a scan is queued once, every upload ends |

**Why the bounds are enough.** Rows of one engine meet only in the cap (and a
scan's abandon), so one row shows every race on a row and two rows behind a cap
every race for room. Two attempts make a stale attempt and a last one; a third
provider job allows one more than the attempts, which a reused key needs. One or
two deaths cover a death at every step and, with a ceiling of 1 or 2, both of its
sides. Two workers make a stale claim and a new one. Two revisions make an object
that is stale and one that is live, two texts a spans object over the wrong one, and
two tagger runs an older result that a press must not carry. Two decisions cover a
decision taken back and made again and every pair of kinds on one page or two; two builds, a box that crosses from one to the next. Three
uploads and two sweeps let a sweep work through a list that another sweep and two
browsers change. Larger instances were explored once: `PageEdits` over three
pages (375,009 states) or with three decisions, all events and a box (1,264,869),
`FinalXml` with three texts (4.06 million) or with three texts and three tagger runs
(1,207,561, fewer events), `MistralJobs` with hand-backs and
kills counted apart (966,582 to 1,744,560), `OpinionRows` with edits and a reopen
in one behaviour (638,568), `ReviewFlow` with dying rows (1.60 million); the
safety properties of the runs hold there too. (Where edits and a reopen meet,
`TextIsCurrent` fails further out, over a third revision: section 5.) `EventuallyReviewed` holds of `FairReads`
on the instance of `VolumeReads` without "s3", which takes more than five minutes.

Bounds of the models themselves: `MaxPosts`, `MaxCrashes`, `MaxStops`,
`MaxClaims`, `MaxKills`, `MaxAdmin`, `MaxRev`, `MaxEdit`, `MaxEdits`, `MaxTexts`,
`MaxRuns`, `MaxRows`, `MaxBoxes`, `MaxPresses`, `MaxFails`; a behaviour that would pass one
stops taking that action. A bound never stops what fairness relies on: no run
reaches `MaxClaims` in `VolumeRequeues` (4 of 5: two rounds of two) nor `MaxRuns`
in `ReviewApprovals`, and `MistralAssumption` leaves `MaxPosts` room for every
attempt. Deadlock is not checked: every one of these systems is done at some
point.

**Fairness.** `FairSpec` assumes that the beat (or the loop) starts every tick
again and that a process which is not killed goes on.

- Job lifecycles: strong fairness for the reads that start a tick, because a tick
  that is skipped while another runs (`tasks.locked`) is tried again for ever, and
  for time; weak fairness for what a tick holds. In `DoctorJobs` a sweep reaches
  S3 once in a while; in `MistralJobs` a listing and a delete do.
- `VolumePipeline` (and `VolumeReads`): claims, workers, the clock, the stale sweep and the merge
  tick; every conversion row settles, which is `EveryRowSettles` of `DoctorJobs`.
- `ReviewFlow`: the ticks, claims and workers, the stale sweep, the merge of the
  detections, the settling of rows, and the tail of a request that has begun.
- `OpinionRows`: the three ticks, which pass a held volume over. Nothing makes a
  volume's documents come: `EveryOpinionSettles` supposes that they are at rest in the
  end, in whatever state. `FinalXml`: the exporter, and an S3 that takes
  a write and a delete once in a while. `Uploads`: requests that are being
  handled, the sweep, and time. `PageEdits` claims no liveness: everything in it
  is a person's act or a worker's.

Nothing is assumed of providers, of browsers, of people, of kills or of signals,
and nothing of a command run by hand. Liveness of RunPod and Mistral rows is
claimed for the serial daemon only: under Celery the swap of a sweep may lose to a
wave's every time, on a row an endpoint keeps declining, and no fairness the code
has excludes it. A doctor row has no such decline that costs no attempt.

**Refinement.** `RunpodJobs`, `DoctorJobs` and `MistralJobs` each instantiate
`JobContract` with a row's status folded to open, completed, consumed or dead.
`Harvest` needs the result of the current attempt, so `ImplementsContract` fails
as soon as a stale object, a stale copy or a late poll can complete a row.

## 4. Theorems

| theorem | statement |
|---|---|
| `RunpodJobs_proofs!TypeCorrect` | `Spec => []TypeOK` |
| `RunpodJobs_proofs!FinalRows` | `Spec => TerminalIsFinal`: no late writer revives a finished row |
| `RunpodJobs_proofs!CapIsHeld` | `Spec => []CapHolds`, in both deployments |
| `RunpodJobs_proofs!KeysAreSignedOnce` | `Serial`: `Spec => []KeyPerJob` |
| `RunpodJobs_proofs!ContractIsImplemented` | `Serial`: `Spec => ImplementsContract` |
| `RunpodJobs_proofs!NoJobIsOrphaned` | `Tended`: `Spec => []NoOrphanJob`, in both deployments |
| `DoctorJobs_proofs!TypeCorrect` | `Spec => []TypeOK` |
| `DoctorJobs_proofs!ContractIsImplemented` | `OwnAnswers`: `Spec => ImplementsContract` |
| `DoctorJobs_proofs!ConvertedOnce` | `Spec => OneConversion` |
| `DoctorJobs_proofs!LateResultsWin` | `Spec => LateResultWins` |
| `MistralJobs_proofs!TypeCorrect` | `Spec => []TypeOK`, in both deployments |
| `MistralJobs_proofs!ContractIsImplemented` | `Serial`: `Spec => ImplementsContract` |
| `MistralJobs_proofs!FilesAreFound` | `Serial`, `"lost" \notin Faults`: `Spec => []FilesAreNamed` |
| `VolumeReads_proofs!HandedOutBoundedly` | `Spec => []ClaimsBounded` |
| `VolumeReads_proofs!ParkedStaysWhole` | `NobodyMeets`: `Spec => []ParkedIsWhole` |
| `VolumeReads_proofs!ReadsImplementPipeline` | `ReadsSpec => Spec`: the composition implements the conversion |
| `VolumeReads_proofs!ParkedStaysWholeWithReads` | `NobodyMeets`: `ReadsSpec => []ParkedIsWhole` |
| `VolumeReads_proofs!ReviewedStaysRead` | `ReadsSpec => []ReviewedIsRead` |
| `VolumeReads_proofs!ReadsAreCarried`, `NoThirdPurchase` | `ReadsSpec => ReadOnce`, `NoThirdRead`: only a look at S3 that does not confirm a result makes the code buy it again |
| `ReviewFlow_proofs!TypeCorrect` | `OneHolder`: `Spec => []TypeOK` |
| `ReviewFlow_proofs!NoChangeIsMissed` | `OneHolder`: `Spec => []NoChangeMissed` |
| `ReviewFlow_proofs!ApprovedOverWhatWasRead` | `OneHolder`: `Spec => []ApprovedOverReadBoxes` |
| `ReviewFlow_proofs!ReviewStaysOfTheVolume` | `OneHolder`: `Spec => []ReviewOfTheStandingVolume` |
| `OpinionRows_proofs!StampsAlwaysFit` | `Spec => [](TypeOK /\ StampedFit)` |
| `OpinionRows_proofs!StampedAlwaysExist` | `Spec => []StampedObjectsExist` |
| `OpinionRows_proofs!PromotedAlwaysOverLiveStamps` | `Spec => PromotedOverLiveStamps` |
| `OpinionRows_proofs!ApprovedIsAlwaysKept` | `Spec => ApprovedIsKept` |
| `OpinionRows_proofs!TextIsAlwaysCurrent` | `NotBoth`: `Spec => []TextIsCurrent` |
| `OpinionRows_proofs!ApprovedIsAlwaysWhole` | `NotBoth`: `Spec => ApprovedIsWhole` |
| `FinalXml_proofs!SpansAlwaysFit` | `Spec => []SpansFitText` |
| `FinalXml_proofs!WrittenStaysCurrent` | `NothingLost`: `Spec => []WrittenIsCurrent` |
| `FinalXml_proofs!ObjectsAreNamed` | `NothingLost`: `Spec => []ObjectIsNamed` |
| `UploadsAndEdits_proofs!TypeCorrect` | `Spec => []TypeOK` |
| `UploadsAndEdits_proofs!FilesAreKept` | `AnswersAreTrue`, `NothingIsLate`: `Spec => GoodFileKept`, commands by hand included |
| `UploadsAndEdits_proofs!QueuedAtMostOnce` | `NothingIsLate`, `NoCommand`: `Spec => QueuedOnce`, whatever S3 answers |
| `UploadsAndEdits_proofs!EditsTypeCorrect` | `EditsSpec => []EditsTypeOK` |
| `UploadsAndEdits_proofs!BoxesStayOnTheirPage` | `NoLateTurn`: `EditsSpec => []BoxesKeepTheirPage` |
| `UploadsAndEdits_proofs!FinalVolumeIsTheDecision` | `NoLateRewrite`: `EditsSpec => []VolumeIsTheDecision` |
| `UploadsAndEdits_proofs!ViewerShowsWhatIsBuilt` | `EditsSpec => []ViewerShowsThePlan` |

They hold for every set of rows, workers, parts, uploads and sweeps, every number
of pages, every cap, mode, set of faults and bound, under the named assumptions of the modules and the
ones in the table. Those say which part of the code's world a theorem leaves out,
and section 5 has the counterexample without each:

| hypothesis | says | without it |
|---|---|---|
| `Serial` | the submit tick and the sweep are one loop, as in the daemon | one key signed twice; no contract; a live page deleted, another unnamed |
| `"lost" \notin Faults` | an upload that landed is answered | an upload under an old attempt's prefix, unnamed |
| `Tended` | cancels take, nobody dies, no scan is abandoned | a job no row names |
| `OwnAnswers` | no gateway answers for doctor, or the ticks are one loop | a row harvested over an earlier attempt's object; no contract |
| `NobodyMeets` | no admin re-queue, and one worker or no SIGTERM handler | a parked run cancelled under the scan |
| `OneHolder` | no admin re-queue of a scan in PROCESSING, or one worker | review 2 over another run's redactions, a box missed |
| `NotBoth` | no text edits, or no reopened redaction review, in one behaviour | a stamped text of an older reading |
| `NothingLost` | no PUT whose answer is lost, no exporter that dies between PUT and stamp | an object nobody names, a stamp over the wrong one |
| `AnswersAreTrue` | a ranged GET that errors is not taken for a missing file | a good file deleted |
| `NothingIsLate` | no POST or confirm outlives the TTL | a good file deleted, a scan queued again |
| `NoCommand` | nobody runs the recovery by hand | a scan queued again |
| `NoLateTurn` | no request that turns a page passes the lock before the approval and writes after it | a box over a page turned since |
| `NoLateRewrite` | nor one that moves a page | a final PDF that is not the decision |

*RunPod.* `TypeOK` is not inductive: that a poll finds its job needs every id a
row or a copy holds to be one the provider gave out, and that a retry stays in
range needs the copy of a slot in step "retry" to have attempts left. `IInv`
adds that (`SlotsFit`). Every action but the reading of a wave is shown to be a
`Step`: rows move within bounds and only if not finished, slots are left or
replaced by one that fits, the job list only grows; one lemma per action.
`FinalRows` reads off `Step`. For `CapIsHeld` the cap is not inductive either:
a wave counts what is in flight before it claims. The set `Held` of rows in
flight and rows a wave has read and not yet claimed is what never passes the
cap; a row enters it only through `WaveRead`, which leaves room for it.

For `KeyPerJob` the swap is not enough, since it compares two fields of a copy and
not the attempt. `SInv` has what one loop adds: at any time one of the two ticks is
at rest (`Turns`), so a copy a tick may still write is of the row's own attempt or
can match no more (`WaveTrue`, `SweepTrue`), a row that may be posted has no job
under its attempt yet (`RowTrue`), and a job that reads as done has its object
(`DoneTrue`). The refinement is read off the same invariant, one case per write of
a row. `NoOrphanJob` needs other facts, which hold in both deployments: nothing is
posted for a row that names a job, and a row is completed or retried only past its
job's end (`Tidy`); so each job still alive is named by its row, or about to be
named or cancelled by the tick that holds the row (`Covers`).

*Claims.* `ClaimsBounded` says nothing of what the interruption counter still
allows. `HandedOut` does: the claims so far, and the one a QUEUED scan waits
for, are paid for by the first queueing, by the interruptions, and by each
re-queue of an admin, which pays a whole round and only once its update has
reset the counter.

*Parked volumes.* While nobody takes a claim away from a pipeline that goes on, one
worker at most is inside `run_full_pipeline` and the scan is not parked under it
(`OneHolder`); then the runs a pipeline has read or made are the ones the table has
(`RunsFit`), a merge under way is over a run whose rows are in (`MergeFits`), and a
parked scan's live run has no cancelled row (`ParkedFits`).

*Reads.* `ReadsSpec` takes each step of `Spec` or leaves its variables alone, so
what is proved of the conversion holds of the composition. `RInv` then says what a
row may carry and tell (`RowsTell`, `Stored`), that a tick that applies has read a
glued run (`PassFits`), that the numbers are of one (`NumbersFit`), and that what a
creator decided to carry it may still carry (`CarriesFit`): rows are only added,
and a stored answer never goes. The two theorems of the carry are read off the
decision itself, for each part whose object the look confirmed: what is stored and
has no hole is a prior result, and so is one of two answers with the same hole.

*Review 2.* The status is the lock (`HolderFits`): one worker at work at most, and it
holds the scan or an admin has queued it again. So nobody else builds, glues or
measures while it works, and people only add boxes and close runs. One run stands at
most, numbered without a gap (`RunsFit`); no other came to stand since a compute
began (`MeasureFits`); the time the ledger notes is never later than the boxes in the
redactions, and a standing run it calls measured is the one they are of
(`LedgerFits`). `ReviewFits` extends the property over the claims of an approval,
without which a creation that parks could not be shown to return to the right volume.

*Opinions.* A process writes under a swap on the revision, so what matters is what it
knows of a row that *still* has the revision it read: `StampedFit` says that for the
tick, the PDF tick, the figures, the re-glue, an edit and an approval, beside what the
stamps say of the bucket. Revisions and stamps only rise and an object at a lower
revision is never the stamped one (`Lasts`), so each process's facts outlive the
others' steps, and one lemma per action is left. For the texts it takes one of two
more arguments, which is what `NotBoth` is for: without a reopen there is one reading
of the redactions for every glue, and without edits the tick alone builds, over a
glue it has stamped (`TextsFit`).

*Export.* Texts and tagger runs are numbered in the order they are written, so what a
process holds is a text the row had and may only have moved up from: `PairsFit` says
of every holder of spans or of a rendering that its run has a result made from the
body of its text. That needs each result to be of its run's own body (`ResultsFit`),
which a carry keeps because it takes an older result by that body (`NewRunIs`); a run
that has a result keeps it, and its body, while the scan is there (`Monotone`).
For the object, `ObjectFits` says that it is the one the row's stamp names
(`Matched`), or that a writer in its window between the PUT and the stamp is about to
say so, or to find that the row has moved on and mark it unknown (`Surpassed`).

*Doctor.* `IInv` is `TypeOK` and, for each row, `Fits`: what the row, the wave's
copy and the sweep's copy may say together at each step (`RowFits`, `WaveFits`,
`SweepFits`): an object or a conversion is of an attempt already claimed, a slot whose request
is open holds the row's own attempt, an older copy of the sweep is never overdue,
and an overdue one means that the wave has let go. The three properties are read off
`Fits` and the step, one case per action. The contract alone needs `OwnAnswers`: then
nothing ran for an older copy's attempt, so no verdict is written from one.

*Mistral.* What a write-off deletes is what its copy names, so what counts is how far a
copy may be behind its row. In one loop it is the row, or the row was abandoned in the
copy's attempt and names nothing the copy does not (`LInv`: `Follows`, and one conjunct
for each place in a write-off, `JudgeOK`); the refinement is read off that, as for
RunPod. The files need two invariants more. `KInv`: only claimed submissions' files are
named or there, so the number the next claim takes is in no list yet. `FInv`: each page
file there is named on its row (`OnRow`), held by the wave that uploaded it while the
row is still its own claim or abandoned (`InWave`), or its claim has no id and its wave
is dead, which is what the sweep lists a prefix for (`LostClaim`); and what a wave holds
accounts for all it uploaded and all an earlier try left (`WaveFiles`), without which a
carry that replaces the row's list could drop a name. A kill turns the second into the
third, a discard the third into the first. An abandon may come between: those are the
files the property leaves out.

*Uploads.* `GoodFileKept` needs `FilesFit`: nothing is at the key before the tab has
posted (`RowFits`), a request belongs to a tab that is at its end (`RequestFits`), and a
sweep's list holds only direct uploads past their TTL, whose tabs write no more
(`ListFits`); if looks at S3 do not err, whoever is about to reclaim then stands over no
PDF (`ReclaimsFit`). `QueuedOnce` needs `QueueFits` on top of `FilesFit`: a scan that
has left UPLOADED has a file, a request at work has a scan still UPLOADED and no
sweep near it, a copy that says "no file yet" is true while the sweep may act on
it (`CopyFits`), and at most one sweep is under way.

*Page edits.* What a plan is made of must be known before any of it can be shown to be
right: `RowsInv` (no page has two standing decisions of a kind, the ordinals of a gap
rise) makes the lists of `SlotOrder`, `Inserts` and `Plan` well defined, and `TypeInv`
adds that a standing run is the last one and that a map names rows that are there. The
plan is computed by walks over sequences. The library's induction takes an operator, so
the module states induction over a set of numbers and over a set of sequences
(`NatInductionOnSets`, `SeqInductionOnSets`) and derives what `FlattenSeq` and `InOrder`
compute: concatenation, and the one list of a finite set in the order of a key.

For the boxes, a picture is a function of the rows and of an address alone (`Shows`):
the map holds the turn of its row (`TurnsInv`), and a row no request rewrites shows what
it showed, so a box that finds its address in a new map finds its picture (`BoxesInv`).
For the volume, there are two halves. A run that is built with the edits that stand, and
a build under way whose edits stand, hold the `Plan` of this very state (`PlanInv`):
before the approval nothing of the kind exists that is current, and after it a late
delete, replacement or image changes the set of standing edits, which makes the run due
again; a stamp changes no decision (`SameDecisions`, `PlanSame`). And the `Plan` of any
state is `Decided` (`PlanIsDecided`): the items that the slots up to a page stand for
are, by induction on the page, those of a rank up to it in the order of their places
(`ItemsUpto`), so the slots of the whole volume are the one list in that order, and each
slot emits the pictures its items hold (`PicturesOfPlan`).

The viewer reaches the same order by another way, a walk over the page map that queues
the images of a gap and draws them when a page or a placeholder comes. `FoldLeft` is
shown to take a sequence one by one (`VisitAllAppend`, `DrawAllAppend`). A walk has
`Seen` what it has drawn followed by what it has queued: drawing and flushing keep that
(`DrawUntilSeen`, `FlushSeen`), and a visited gap or page extends it (`VisitGap`,
`VisitNextPage`). Over a map of all the pages the walk has seen the items of the slots
behind it and stands at the last page among them, with at most placeholders in between
(`BetweenPages`, `BothWalked`); at the end it has seen `ItemsAlong` of all the slots,
which is the order of the decisions by the lemma the volume rests on (`OrderOfItems`,
`AllPagesShown`). Over a map that has lost a page the images drawn at their page are a
sorted part of all of them (`TakenSorted`) and the rest follow at the end, each once
(`EveryImageOnce`, `LostPage`).

**Only model-checked**: liveness (fairness and ENABLED are out of the prover's
reach). Every other property of the runs is stated by a theorem.
(The contracts of `RunpodJobs` and
`MistralJobs` are claimed for the serial daemon only, by the runs as by the theorems.)

## 5. Known counterexamples

Each of these is a property the modules state, or the property of a run, that
TLC finds violated with the constants given; where a comment of the repository
promises otherwise, it is named. None is in a run. The numbers in brackets are
the states of the shortest behaviour found.

**Job lifecycles**

- *A key signed twice* (`KeyPerJob`; `RunpodJobs`, 1 row, `Serial = FALSE`,
  {"busy", "refused", "lost"}, 3 posts). The guard of a write is not the attempt:
  a sweep that holds an older copy writes attempt + 1 of that copy, and two jobs
  get one result key (`jobs.py:730` against `jobs.py:54`, `s3_sync.py:208`,
  `models.py:4993`).
- *A retry lost to a crash* (`OwnCancelIsRetried`, one crash). A retry cancels
  the old job first; a process that dies before the row is written leaves a job
  that reads CANCELLED, which fails the row with attempts left (`jobs.py:1128`).
- *The abandon's early list* (`NoOrphanJob`, 1 row, {"abandon"}). The open rows
  are read before they are cancelled; a job whose id arrives in between runs on
  unnamed (`jobs.py:3429`).
- *A gateway answers for doctor* (`ImplementsContract` [12]; `DoctorCelery` with
  "gateway"). A non-JSON 5xx is taken for doctor's own answer and retried at once,
  while the conversion still runs (`jobs.py:2724`); a sweep that found the old
  attempt's object completes the row at the next. `OneConversion` names the answer.
- *Mistral's files without a name* (`MistralJobs`). With "lost", an upload whose
  answer is lost while its attempt changes (`FilesAreNamed` [10]). With "abandon"
  and one kill, a written-off row whose process dies right after the status write
  keeps a `files` list no sweep reads [8] (`mistral_ocr.py:1556`; `PagesGo`
  exempts this case by name). Under Celery with {"busy"}, a sweep with an old copy
  judges a claimed-again row lost and deletes live pages [16], against the
  docstring of `_claim_alive`; and with 3 attempts and {"transient"} it counts the
  attempt back (`ImplementsContract` [30]). And without a property: a kill between the creation
  of a batch and the write of its id leaves a paid batch nobody lists.

**Volumes and claims** (`VolumePipeline`)

- *The run awaited is not whole* (`AwaitedRunIsWhole`, 2 workers, 1 shard,
  {"sigterm"}, 2 claims). A pipeline that goes on after SIGTERM finds its claim
  lost and cancels the rows the next claim is parked on (`services.py:2785`,
  against `services.py:2781-2783` and `README.md:596-598`). `OwnClaimOnly` fails
  in the same place.
- *Converted twice* (`AppliedOnce` [16], the same constants). The first worker has
  found no run and loses its claim before it reads the next run's number; the next
  worker makes run 1, which is converted and merged; the first then inserts run 2
  over a run that was consumed (`jobs.py:2345`).
- *Validated over a run that converts* (`ValidatedRunIsOver`, one admin re-queue
  during a merge): the merge under way parks a scan that was re-queued and parked
  again meanwhile (`bitonal.py:222`).
- *Rows of a replaced run* (`NoStrayRows`, 2 shards, a failed row): they are
  converted for nobody (`jobs.py:2345`).
- *Numbers behind an approval* (`ApprovedNumbersStand` of `VolumeReads` [25]; the
  instance of the run). A tick that applies a run dies between the edge to the review
  and its stamp; the next tick reads the document again while a person approves, and
  saves its numbers whatever the status is by then (`services.py:1799`, against
  `dots_mocr.py:1222`).

**Page edits and review 2**

- *A shard of another turn* (`ReadsAreOfThePages`; `PageEdits`, 1 page, `Turns =
  {90, 180}`, {"rotate"}, {"kill", "reopen"}, 2 builds [11]). A build is killed
  after the shard is cut, the review is reopened, the page turned again in place:
  the next build finds the shard under the row's key (`apply.py:821`,
  `page_edits.py:114-119`, against `apply.py:165`, "a row is immutable").
- *A placeholder loses its gap* (`PlaceholderHoldsItsGap`, 3 pages, {"move"}, one
  decision): `page_edits.py:580-605` against the docstring of `project_inserts`.
- *A decision the build did not read* (`VolumeIsTheDecision`, `LateKinds =
  {"rotate"}` or {"move"} [7]). A request that passed the lock refreshes a
  standing row during a build and is stamped as applied; the set of edits the
  build compares by has not changed (`views_process.py:3488-3494`). With a late turn a
  box drawn on the old picture is carried to the new one (`BoxesKeepTheirPage`): these
  are `NoLateRewrite` and `NoLateTurn`.
- *An admin's re-queue during the park* (`ReviewFlow`, 2 workers, {"requeue"}).
  `AdminMoveStands` [20, one worker]: the park takes QUEUED for its own claim
  (`services.py:2546`, `2583`). `NoChangeMissed` [30], `ApprovedOverReadBoxes` [37]
  and `ReviewOfTheStandingVolume` [30]: the compute of the lost claim writes over
  the next one's; and two builds of one run fail past its attempts (`TypeOK` [15]).
- *A review of older page edits* (`ReviewOfTheStandingEdits`; {"reopen"} [19], or
  {"requeue"} and a kill [23]). A reopen moves the scan before it closes the run; a
  page edited and approved in between finds the old run standing, which the compute's
  tick takes for the corrected volume because only the apply's compares the edits
  (`yolo.queue_ready_runs` against `apply.py:1434`), against "the apply builds the
  final volume from the rows as they stand at the approval"
  (`views_process.py:4099-4101`). The reopen's own close ends it.
- *Rows of a closed apply run* (`NoRowsOfAClosedRun`; {"supersede"} [11],
  {"reopen"} [13]): they are submitted after the run is closed (`apply.py:763-775`,
  `1193-1199`).

**Opinions and their export**

- *A PDF of older redactions* (`PdfOfItsInputs`, `StampedPdfStands`; `OpinionRows`,
  two inputs, {"reopen"} [10] or with {"reglue"}): `views_process.py:4161`,
  `opinion_ocr.py:2447`.
- *A text of an older reading* (`TextIsCurrent` [43]; `OpinionRows`, two inputs,
  {"edit", "reopen"}, 2 revisions, 1 edit, 1 death). A request that saved an edit
  builds from the draft glue of a new revision, because the scan of the bucket does
  not ask for a stamped one; the tick dies before the stamp, glues that revision again
  under other redactions, builds and stamps; then the request's late upload overwrites
  the stamped text with the older reading (`opinion_ocr.py:2207-2252`, `757-843`,
  `ensemble.write`).
- *An approved text that goes* (`ApprovedTextIsKept` [25], `LiveTextExists` [34];
  {"edit", "approve", "rewrite", "reglue"}): `ensemble.py:5423-5442`.
- *An opinion that never settles* (`EveryOpinionSettles`). The creation of rows
  revives a row in ERROR and resets three works' attempts but not the figures'
  ({"reopen", "unpictured"} [33], `opinions.py:566`, `ensemble.py:5344`); a fault
  or a kill between a reopen and an approval ({"approve", "reopen", "reglue",
  "fault"} [37], `opinion_pdf._fail`; with a kill [47]).
- *A third engine that comes late* (`ThirdEngineOpens` [11]; the instance of
  `OpinionReviews`). The glue takes what documents the run has; a row glued over fewer
  than `min_engines` owes no text (`ensemble.py:4377`), and is not due for its glue
  again when the next engine's document arrives, since its stamp is of the live
  revision. It stays in preparation until a person presses "Re run OCR ensemble"
  (`ensemble.py:5448`) or runs the re-glue command. A volume held for good
  (`opinion_ocr.py:772-795`) keeps its rows in preparation too. `EveryOpinionSettles`
  excepts these two waits and nothing else (`Waits`).
- *Written, for a moment, over other spans* (`WrittenAtAnyMoment`; `FinalXml`, two
  bodies, 5 texts, 5 tagger runs, no event [43]). Two glues hold runs of one body over
  one text; the row takes the first's spans back while the exporter holds the
  second's, and between its PUT and its stamp the row calls written an object of the
  other spans. The swap then fails and the object is marked unknown, so
  `WrittenIsCurrent` leaves that window out.
- *An XML nobody names* (`ObjectIsNamed`; `FinalXml`, {"lost"} [10]), *one failure
  counted twice* (`OneFailureOneCount`, {"rewrite", "fault"} [14],
  `final_xml.py:468-480`), and *an older XML kept by the command*
  (`WrittenIsCurrent`, {"command", "lost"}; `export_final_xml.py:146` against "the
  one rule" of `final_xml.py:188-199`).

**Uploads** (`Uploads`)

- *Queued again* (`QueuedOnce`; 1 upload, `Commands = {m1}` [16], or {"late"} [17]).
  The command by hand takes no lock; `tasks.py:561-563` says what two copies do:
  "the second would put a running pipeline back to QUEUED".
- *A good file deleted* (`GoodFileKept`; {"late"} [10]: a slow POST lands after the
  sweep looked; {"s3"} [7]: one errored ranged GET reads as no file), against
  "Never destroy a good file" in `cleanup_processing_tmp.py`.
- *A file attached and never queued* (`AttachedIsQueued`, one kill [16 direct, 6
  classic]). After a death between the save of the file and `apply_upload_action`
  the scan stays UPLOADED, and `recover_pending_upload` takes it for done, against
  its docstring (`services.py:260-266`).

Found by reading, of code no module has: two presses of a re-read may start runs
n + 1 and n + 2 over the same dead shard, against the docstring of
`ensure_shard_jobs`; `hole_is_stable` looks at no worker image, so a new image
never re-reads a stable hole (`reread_failed_pages.py:42-47`); `reglue_dots_mocr`
may run between the download of an apply and its stamp, so the new document is
never applied (`dots_mocr.py:1182-1190`, "The two cannot interleave"); one row that
raises ends the whole upload sweep; a kill in `presign_scan_upload` between the
scan and its `PendingUpload` leaves a fileless scan for good.

## 6. Plan

Done, in this order: `JobRows`, `RunpodJobs`, `DoctorJobs`, `JobContract`,
`VolumePipeline`; `ReviewFlow`; `PageEdits`; `OpinionRows`; `FinalXml`;
`MistralJobs`; `Uploads`; `VolumeReads`; the theorems of section 4.

Left to model, in order of worth:

1. The printed page numbers and the repairs of an apply, in `PageEdits`.
2. The volume's queue status and its parts flag, in `Uploads`.
3. The legacy actions of `VolumePipeline`.

Each of these brings its own theorem: that a final volume keeps the printed numbers its
decisions give it, and that a requeued volume is queued once.

## 7. Not modelled

The image analysis and geometry, the vote over words, the XML rendering, the
bad-page forest, the prompts, the parsing of the models' output, the worker
handlers on the GPUs, the views that only read or write one field, templates,
JavaScript, migrations and settings: they hold no concurrent state, or are numeric
code over inputs no small instance stands for. This is most of the lines of the
repository, so the share `PROJECT.json` maps stays small; what it maps is where
two writers meet. Transfers to S3 are modelled by the presence of an object.

Left out of modules that exist: `gates_closed` and the ceiling of scans in flight
of the apply, second detection runs and the addressing of boxes by page in
`ReviewFlow` (`PageEdits` has the latter); a manual box drawn in a stale tab, which
the server addresses to the current run; the lost answer of a classic upload, which
leaves a stray object; `release_scan_files` of Mistral, which deletes with the scan;
the findings of a text. `PROJECT.json` names the reason for each component.
