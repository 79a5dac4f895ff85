----------------------------- MODULE VolumeReads -----------------------------
(***************************************************************************)
(* The conversion of a volume (VolumePipeline) composed with the OCR read  *)
(* of its shards (scanning/dots_mocr.py, jobs.py ensure_run_jobs,          *)
(* services.py run_full_pipeline and run_compute_issues).                  *)
(*                                                                         *)
(* A read is a run of one row per shard.  The pipeline, a tick, a button   *)
(* and a command may start one; a new run carries the results the older    *)
(* ones hold and pays for the rest.  A result may have a hole, a page the  *)
(* model could not read.  A finished run is glued into one document, and   *)
(* the page numbers of the document open the review of the pages once the  *)
(* conversion is parked: the read itself never writes the scan's status.   *)
(***************************************************************************)
EXTENDS VolumePipeline

CONSTANTS
  Parts,       \* the shards as the read has them: the code cuts one set for both
               \* stages, and no row of one is read by the other
  Hard,        \* the parts the worker leaves a hole in: it is deterministic
  Tries,       \* GLUE_MAX_ATTEMPTS and APPLY_MAX_ATTEMPTS
  ReadEvents,  \* what may happen to the reads, a subset of AllReadEvents
  MaxPresses,  \* bound: what people ask for
  MaxFails     \* bound: rows of the read that die

AllReadEvents == {"lost",     \* a worker's answer is lost, its object is not
                  "s3",       \* a look at S3 does not confirm a stored result
                  "fault",    \* a glue or an apply raises
                  "press",    \* staff press the start button
                  "reread",   \* the command that reads the holes again
                  "handback", \* another engine's glue, or a command, reopens the apply
                  "approve"}  \* a person approves the pages

ASSUME ReadsAssumption ==
  /\ IsFiniteSet(Parts) /\ Parts # {} /\ Hard \subseteq Parts
  /\ Tries \in Nat \ {0} /\ MaxPresses \in Nat /\ MaxFails \in Nat
  /\ ReadEvents \subseteq AllReadEvents

VARIABLES
  enabled,  \* whether the endpoint and its key are configured
  cut,      \* whether the shard set is committed
  reads,    \* the ANALYZE rows, [ReadRuns -> [Parts -> ReadRow]]
  creator,  \* what each writer of runs holds inside ensure_run_jobs
  pass,     \* what the tick that glues and applies holds
  ledger,   \* provider_meta of the first row of each run
  objects,  \* the results on S3, as <<run, shard>>; they are kept for good
  docs,     \* the runs whose glued document is on S3
  numbers,  \* the run whose document Scan.ocr_results is of; 0: none
  review,   \* the review of the pages, of a scan past its conversion
  presses,
  deaths    \* bound: creators and ticks killed

setVars    == <<enabled, cut, deaths>>
runVars    == <<reads, objects, ledger, docs>>
reviewVars == <<numbers, review, presses>>
readVars   == <<setVars, runVars, reviewVars, creator, pass>>
allVars    == <<vars, readVars>>

\* A claim, a press and the sweep start one run each at most.
MaxReads == MaxClaims + MaxPresses + 1
ReadRuns == 1..MaxReads
Creators == Workers \cup {"tick", "staff"}
HasRead  == {"completed", "consumed"}
ReadRow  == [status : RowState, hole : BOOLEAN, told : BOOLEAN]
NoRead   == [status |-> "none", hole |-> FALSE, told |-> FALSE]
Open     == [NoRead EXCEPT !.status = "open"]
Carried  == [Parts -> 0..MaxReads]
NotCarried  == [s \in Parts |-> 0]
CreatorIdle == [step |-> "idle", run |-> 0, carried |-> NotCarried, unseen |-> {}]
PassIdle    == [step |-> "idle", run |-> 0, opened |-> FALSE]
NoLedger    == [glues |-> 0, applies |-> 0, applied |-> FALSE]

ReadsTypeOK ==
  /\ enabled \in BOOLEAN /\ cut \in BOOLEAN
  /\ reads \in [ReadRuns -> [Parts -> ReadRow]]
  /\ creator \in [Creators -> [step : {"idle", "judge", "number", "insert", "held",
                                       "skipped", "abandon"},
                               run : 0..MaxReads, carried : Carried,
                               unseen : SUBSET Parts]]
  /\ pass \in [step : {"idle", "merge", "consume", "read", "edge", "stamp"},
               run : 0..MaxReads, opened : BOOLEAN]
  /\ ledger \in [ReadRuns -> [glues : 0..Tries, applies : 0..Tries, applied : BOOLEAN]]
  /\ objects \subseteq ReadRuns \X Parts /\ docs \subseteq ReadRuns /\ numbers \in 0..MaxReads
  /\ review \in {"none", "open", "done"} /\ presses \in 0..MaxPresses
  /\ deaths \in 0..MaxKills

ReadsInit ==
  /\ Init
  /\ enabled \in BOOLEAN /\ cut = FALSE
  /\ reads = [n \in ReadRuns |-> [s \in Parts |-> NoRead]]
  /\ creator = [c \in Creators |-> CreatorIdle]
  /\ pass = PassIdle
  /\ ledger = [n \in ReadRuns |-> NoLedger]
  /\ objects = {} /\ docs = {} /\ numbers = 0 /\ review = "none" /\ presses = 0
  /\ deaths = 0

\* MaxKills bounds the processes killed and the faults of a glue or an apply.
Mishaps ==
  kills + deaths + Cardinality({n \in ReadRuns : ledger[n].glues + ledger[n].applies > 0})

-----------------------------------------------------------------------------
(* The rows of the read.                                                   *)

Status(n, s)    == reads[n][s].status
ReadIs(n, S)    == \A s \in Parts : Status(n, s) \in S
ReadHas(n, S)   == \E s \in Parts : Status(n, s) \in S
StartedReads    == {n \in ReadRuns : ~ReadIs(n, {"none"})}
LiveRead        == Newest(StartedReads)
LiveReadIs(S)   == LiveRead # 0 /\ ReadIs(LiveRead, S)
LiveReadHas(S)  == LiveRead # 0 /\ ReadHas(LiveRead, S)

\* A row that tells of its hole; a row without a summary tells of none.
HasUnread(n, s) == reads[n][s].told

\* The runs before n that have a result for the shard.
Before(n, s) == {m \in ReadRuns : m < n /\ Status(m, s) \in HasRead}

\* The run before gave the same answer: another read would buy it again.
HoleIsStable(n, s) ==
  /\ HasUnread(n, s)
  /\ \E m \in Before(n, s) : HasUnread(m, s) /\ \A k \in Before(n, s) : k <= m

\* Mutated form: a result with a hole is never carried.
PriorWhole(s) == {n \in ReadRuns : Status(n, s) \in HasRead /\ ~HasUnread(n, s)}

\* The runs whose result for the shard a new run may carry.
PriorResults(s) ==
  {n \in ReadRuns : Status(n, s) \in HasRead /\ (HasUnread(n, s) => HoleIsStable(n, s))}

\* The newest of them, once a look at S3 confirms its object.  A look that fails or
\* finds nothing leaves the shard to be read again: no older result is tried.
ReusableResults(unseen) ==
  [s \in Parts |-> IF s \in unseen THEN 0 ELSE Newest(PriorResults(s))]

\* The rows of a run as they are created: the carried ones are born COMPLETED,
\* without the summary of the row they come from.
BornRows(carried) ==
  [s \in Parts |-> IF carried[s] = 0 THEN Open
                    ELSE [status |-> "completed", hole |-> reads[carried[s]][s].hole,
                          told |-> FALSE]]

\* Mutated form: whatever is finished is cancelled too.
UnstartedAndPaid(row) ==
  IF row.status \in {"open", "completed"} THEN [row EXCEPT !.status = "cancelled"] ELSE row

\* A lost claim hands back the work that is not done; a COMPLETED row is paid.
Unstarted(row) == IF row.status = "open" THEN [row EXCEPT !.status = "cancelled"] ELSE row

-----------------------------------------------------------------------------
(* ensure_run_jobs, by whichever creator.                                  *)

Creates(c, slot) == creator' = [creator EXCEPT ![c] = slot]

\* What a creator does with the rows it was handed: the pipeline goes on.
Handed(c) == IF c \in Workers THEN [CreatorIdle EXCEPT !.step = "held"] ELSE CreatorIdle

EnsureJudge(c) ==
  LET reused == LiveRead # 0 /\ ~ReadHas(LiveRead, DeadRow) IN
  /\ creator[c].step = "judge"
  /\ IF c \in Workers
     THEN pipeline[c].step = "sharding" /\ cut' = TRUE
     ELSE UNCHANGED cut
  /\ Creates(c, IF c \in Workers /\ ~enabled THEN [CreatorIdle EXCEPT !.step = "skipped"]
                ELSE IF reused THEN Handed(c)
                ELSE [CreatorIdle EXCEPT !.step = "number"])
  /\ UNCHANGED <<vars, enabled, deaths, runVars, reviewVars, pass>>

\* next_run and _reusable_results read the rows once more.
EnsureCarry(c) ==
  /\ creator[c].step = "number"
  /\ \E unseen \in SUBSET {s \in Parts : "s3" \in ReadEvents /\ PriorResults(s) # {}} :
       Creates(c, [step |-> "insert", run |-> LiveRead + 1,
                   carried |-> ReusableResults(unseen), unseen |-> unseen])
  /\ UNCHANGED <<vars, setVars, runVars, reviewVars, pass>>

\* The run is inserted, or it is another writer's and its rows are handed out.
InsertRead(c) ==
  LET n == creator[c].run IN
  /\ creator[c].step = "insert"
  /\ reads' = IF n \in StartedReads THEN reads
              ELSE [reads EXCEPT ![n] = BornRows(creator[c].carried)]
  /\ Creates(c, Handed(c))
  /\ UNCHANGED <<vars, setVars, objects, ledger, docs, reviewVars, pass>>

Ensures(c) == EnsureJudge(c) \/ EnsureCarry(c) \/ InsertRead(c)

-----------------------------------------------------------------------------
(* The worker, around the steps of VolumePipeline.                         *)

ClaimVolume(w) ==
  /\ creator[w].step = "idle"
  /\ Claim(w)
  /\ Creates(w, [CreatorIdle EXCEPT !.step = "judge"])
  /\ UNCHANGED <<setVars, runVars, reviewVars, pass>>

\* The conversion starts once the rows of the read are there, or skipped.
Converting(w) ==
  /\ creator[w].step \in {"held", "skipped"}
  /\ EnsureRead(w) \/ EnsureNumber(w) \/ EnsureInsert(w)
  /\ UNCHANGED readVars

\* The write that parks the volume tells whether the claim was still held: if it
\* was not, the rows of the read go back as well.
Parking(w) ==
  /\ creator[w].step \in {"held", "skipped"}
  /\ ParkUnconverted(w) \/ Advance(w)
  /\ Creates(w, IF status # "processing" /\ creator[w].step = "held"
                THEN [CreatorIdle EXCEPT !.step = "abandon"] ELSE CreatorIdle)
  /\ UNCHANGED <<setVars, runVars, reviewVars, pass>>

HandBack(w) == AbandonLost(w) /\ UNCHANGED readVars

AbandonReads(w) ==
  /\ creator[w].step = "abandon" /\ pipeline[w].step = "idle"
  /\ reads' = [n \in ReadRuns |-> [s \in Parts |-> Unstarted(reads[n][s])]]
  /\ Creates(w, CreatorIdle)
  /\ UNCHANGED <<vars, setVars, objects, ledger, docs, reviewVars, pass>>

Raises(w) ==
  /\ Raise(w)
  /\ Creates(w, CreatorIdle)
  /\ UNCHANGED <<setVars, runVars, reviewVars, pass>>

\* A worker that hands its rows back still stamps the claims.
Ages == GrowsStale /\ (\A w \in Workers : creator[w].step = "idle") /\ UNCHANGED readVars

\* A process dies, with what it held.
Dies ==
  /\ Mishaps < MaxKills
  /\ \/ Kill /\ creator' = [c \in Creators |->
                             IF c \in Workers /\ pipeline'[c] # pipeline[c]
                             THEN CreatorIdle ELSE creator[c]]
             /\ UNCHANGED <<pass, deaths>>
     \/ /\ deaths' = deaths + 1
        /\ \/ pass # PassIdle /\ pass' = PassIdle /\ UNCHANGED creator
           \/ \E c \in Creators :
                /\ creator[c].step # "idle" /\ (c \in Workers => pipeline[c].step = "idle")
                /\ Creates(c, CreatorIdle) /\ UNCHANGED pass
        /\ UNCHANGED vars
  /\ UNCHANGED <<enabled, cut, runVars, reviewVars>>

-----------------------------------------------------------------------------
(* The other creators.                                                     *)

Parked == status \in {"awaiting", "validation"}

Presses == presses < MaxPresses /\ presses' = presses + 1

\* The sweep of the submit tick takes a set nobody ever read (enqueue_missing_runs).
SweepStarts ==
  /\ creator["tick"].step = "idle"
  /\ enabled /\ Parked /\ LiveRead = 0
  /\ Creates("tick", [CreatorIdle EXCEPT !.step = "judge"])
  /\ UNCHANGED <<vars, setVars, runVars, reviewVars, pass>>

\* Staff press the button.  An open run refuses them, and over a finished run they
\* get its rows and nothing else.
ButtonStarts ==
  /\ "press" \in ReadEvents /\ creator["staff"].step = "idle"
  /\ enabled /\ cut
  /\ ~LiveReadHas({"open"}) /\ (LiveRead # 0 => LiveReadHas(DeadRow))
  /\ Presses
  /\ Creates("staff", [CreatorIdle EXCEPT !.step = "judge"])
  /\ UNCHANGED <<vars, setVars, runVars, numbers, review, pass>>

\* The command replaces a glued run with a hole worth reading again.
RereadStarts ==
  /\ "reread" \in ReadEvents /\ creator["staff"].step = "idle"
  /\ enabled /\ status = "validation" /\ review # "done"
  /\ LiveReadIs({"consumed"})
  /\ \E s \in Parts : HasUnread(LiveRead, s) /\ ~HoleIsStable(LiveRead, s)
  /\ Presses
  /\ Creates("staff", [CreatorIdle EXCEPT !.step = "number"])
  /\ UNCHANGED <<vars, setVars, runVars, numbers, review, pass>>

SwitchedOn ==
  /\ ~enabled /\ enabled' = TRUE
  /\ UNCHANGED <<vars, cut, deaths, runVars, reviewVars, creator, pass>>

-----------------------------------------------------------------------------
(* The worker of a row, whichever run it is of.                            *)

SetRead(n, s, row) ==
  /\ Status(n, s) = "open"
  /\ reads' = [reads EXCEPT ![n][s] = row]
  /\ UNCHANGED <<vars, setVars, ledger, docs, reviewVars, creator, pass>>

\* A row whose answer was lost is completed by a look at S3, without a summary.
ReadEnds(n, s) ==
  /\ \E told \in IF "lost" \in ReadEvents THEN BOOLEAN ELSE {TRUE} :
       SetRead(n, s, [status |-> "completed", hole |-> s \in Hard,
                      told |-> told /\ s \in Hard])
  /\ objects' = objects \cup {<<n, s>>}

ReadFails(n, s) ==
  /\ Cardinality({x \in ReadRuns \X Parts : Status(x[1], x[2]) = "failed"}) < MaxFails
  /\ SetRead(n, s, [NoRead EXCEPT !.status = "failed"])
  /\ UNCHANGED objects

-----------------------------------------------------------------------------
(* The tick that glues and applies: one after the other, in one process.   *)

Passes(step, n) == pass' = [PassIdle EXCEPT !.step = step, !.run = n]

\* The live run is finished, and not all of it is glued.
Glueable == LiveReadIs(HasRead) /\ LiveReadHas({"completed"})

GluePick ==
  /\ pass.step = "idle"
  /\ Glueable /\ ledger[LiveRead].glues < Tries
  /\ Passes("merge", LiveRead)
  /\ UNCHANGED <<vars, setVars, runVars, reviewVars, creator>>

\* The results are read one by one, and each row is told its holes; the document
\* is uploaded at the end.
Glue ==
  LET n == pass.run
      Told(S) == [reads EXCEPT ![n] = [s \in Parts |->
                    IF s \in S THEN [@[s] EXCEPT !.told = reads[n][s].hole]
                    ELSE @[s]]] IN
  /\ pass.step = "merge"
  /\ \/ /\ reads' = Told(Parts) /\ docs' = docs \cup {n}
        /\ Passes("consume", n) /\ UNCHANGED ledger
     \/ /\ "fault" \in ReadEvents /\ Mishaps < MaxKills
        /\ \E S \in SUBSET Parts : reads' = Told(S)
        /\ ledger' = [ledger EXCEPT ![n].glues = @ + 1]
        /\ pass' = PassIdle /\ UNCHANGED docs
  /\ UNCHANGED <<vars, setVars, objects, reviewVars, creator>>

ConsumeRun ==
  LET n == pass.run IN
  /\ pass.step = "consume"
  /\ reads' = [reads EXCEPT ![n] = [s \in Parts |->
                 IF @[s].status = "completed" THEN [@[s] EXCEPT !.status = "consumed"]
                 ELSE @[s]]]
  /\ pass' = PassIdle
  /\ UNCHANGED <<vars, setVars, objects, ledger, docs, reviewVars, creator>>

\* The statuses the apply takes: parked past the conversion, not yet approved.
Applies == status = "validation" /\ review # "done"

ApplyPick ==
  /\ pass.step = "idle"
  /\ Applies /\ LiveReadIs({"consumed"})
  /\ ~ledger[LiveRead].applied /\ ledger[LiveRead].applies < Tries
  /\ pass' = [step |-> "read", run |-> LiveRead, opened |-> review = "open"]
  /\ UNCHANGED <<vars, setVars, runVars, reviewVars, creator>>

\* The document is downloaded and its numbers are saved, whatever the status has
\* become.
SaveNumbers ==
  /\ pass.step = "read"
  /\ \/ /\ pass.run \in docs /\ numbers' = pass.run
        /\ pass' = [pass EXCEPT !.step = IF pass.opened THEN "stamp" ELSE "edge"]
        /\ UNCHANGED ledger
     \/ /\ ("fault" \in ReadEvents /\ Mishaps < MaxKills) \/ pass.run \notin docs
        /\ ledger' = [ledger EXCEPT ![pass.run].applies = @ + 1]
        /\ pass' = PassIdle /\ UNCHANGED numbers
  /\ UNCHANGED <<vars, setVars, reads, objects, docs, review, presses, creator>>

OpenReview ==
  LET taken == status = "validation" /\ review = "none" IN
  /\ pass.step = "edge"
  /\ review' = IF taken THEN "open" ELSE review
  /\ pass' = IF taken THEN [pass EXCEPT !.step = "stamp"] ELSE PassIdle
  /\ UNCHANGED <<vars, setVars, runVars, numbers, presses, creator>>

\* Mutated form: the live run is read again, and stamped.
StampLive ==
  /\ pass.step = "stamp"
  /\ ledger' = [ledger EXCEPT ![LiveRead].applied = TRUE]
  /\ pass' = PassIdle
  /\ UNCHANGED <<vars, setVars, reads, objects, docs, reviewVars, creator>>

StampApplied ==
  /\ pass.step = "stamp"
  /\ ledger' = [ledger EXCEPT ![pass.run].applied = TRUE]
  /\ pass' = PassIdle
  /\ UNCHANGED <<vars, setVars, reads, objects, docs, reviewVars, creator>>

-----------------------------------------------------------------------------
(* People.                                                                 *)

\* The numbers are to be read again, off the stored documents.
ReopenApply ==
  /\ "handback" \in ReadEvents
  /\ Applies /\ LiveReadIs({"consumed"}) /\ ledger[LiveRead].applied
  /\ Presses
  /\ ledger' = [ledger EXCEPT ![LiveRead].applied = FALSE, ![LiveRead].applies = 0]
  /\ UNCHANGED <<vars, setVars, reads, objects, docs, numbers, review, creator, pass>>

ApprovePages ==
  /\ "approve" \in ReadEvents
  /\ review = "open" /\ review' = "done"
  /\ UNCHANGED <<vars, setVars, runVars, numbers, presses, creator, pass>>

-----------------------------------------------------------------------------
Volume(A) == A /\ UNCHANGED readVars

VolumeWorker(w) ==
  ClaimVolume(w) \/ Converting(w) \/ Parking(w) \/ HandBack(w) \/ AbandonReads(w)
  \/ Raises(w)
VolumeRest ==
  \/ Volume(RecoverStale \/ Sigterm \/ AdminNext \/ MergeNext)
  \/ Volume(\E n \in Runs, s \in Shards : Converts(n, s) \/ ConvertFails(n, s))
  \/ Ages \/ Dies
Starts == SweepStarts \/ ButtonStarts \/ RereadStarts
Pass ==
  \/ GluePick \/ Glue \/ ConsumeRun
  \/ ApplyPick \/ SaveNumbers \/ OpenReview \/ StampApplied

ReadsNext ==
  \/ \E w \in Workers : VolumeWorker(w)
  \/ VolumeRest
  \/ \E c \in Creators : Ensures(c)
  \/ Starts \/ SwitchedOn
  \/ \E n \in ReadRuns, s \in Parts : ReadEnds(n, s) \/ ReadFails(n, s)
  \/ Pass
  \/ ReopenApply \/ ApprovePages

ReadsSpec == ReadsInit /\ [][ReadsNext]_allVars

\* Each process goes on: a worker, the sweeps, the merge, the creators, the tick
\* that glues and applies; and every row settles (EveryRowSettles of DoctorJobs and
\* of RunpodJobs).  What people ask for, the switch of the environment, kills,
\* signals and faults are not assumed.
ReadsFairness ==
  /\ \A w \in Workers :
       WF_allVars(\/ ClaimVolume(w) \/ Ensures(w) \/ Converting(w) \/ Parking(w)
                  \/ HandBack(w) \/ AbandonReads(w))
  /\ WF_allVars(Ages \/ Volume(RecoverStale))
  /\ WF_allVars(Volume(MergeNext))
  /\ WF_allVars(SweepStarts \/ Ensures("tick"))
  /\ WF_allVars(Ensures("staff"))
  /\ WF_allVars(Pass)
  /\ WF_allVars(\/ \E n \in ReadRuns, s \in Parts : ReadEnds(n, s) \/ ReadFails(n, s)
                \/ Volume(\E n \in Runs, s \in Shards : Converts(n, s) \/ ConvertFails(n, s)))

FairReads == ReadsSpec /\ ReadsFairness

-----------------------------------------------------------------------------
(* Properties.                                                             *)

\* What opened the review of the pages is whole: the numbers are of one run every
\* row of which was glued, and a live run that is stamped as applied is the run the
\* numbers are of, whatever was started during the apply (apply_ready_runs).
ReviewedIsRead ==
  /\ review # "none" => numbers # 0 /\ ReadIs(numbers, {"consumed"})
  /\ LiveRead # 0 /\ ledger[LiveRead].applied => numbers = LiveRead

\* The step in which a creator decides what its run carries.
Decides(c) == creator[c].step = "number" /\ creator'[c].step = "insert"

\* A result without a hole that is stored when a run is put together is carried
\* into it and not paid for again, whoever starts the run, and whatever became of
\* the runs between: only a look at S3 that does not confirm it, at that decision and
\* for that shard, costs another read (_reusable_results, "degrade to not carried";
\* the abandon of run_full_pipeline).
ReadOnce ==
  [][\A c \in Creators, s \in Parts, n \in ReadRuns :
       Decides(c) /\ <<n, s>> \in objects /\ ~reads[n][s].hole /\ s \notin creator'[c].unseen =>
         LET from == creator'[c].carried[s] IN from # 0 /\ ~reads[from][s].hole]_allVars

\* A hole that was bought twice is not bought again by a later run whose look at S3
\* confirms the answer: the second answer is the first, told or not, and one of the
\* two is carried (hole_is_stable, "a third read would pay for the answer a third
\* time").
NoThirdRead ==
  [][\A c \in Creators, s \in Parts :
       /\ Decides(c) /\ Cardinality({n \in ReadRuns : <<n, s>> \in objects}) > 1
       /\ s \notin creator'[c].unseen
       => creator'[c].carried[s] # 0]_allVars

\* Every volume of an environment that reads is converted, read, numbered and
\* handed to its review, or it stops where a person is shown it: in an error, at a
\* dead row of the read or at the last attempt of a glue or an apply
\* (enqueue_missing_runs, finish_ready_runs, apply_ready_runs).
EventuallyReviewed ==
  enabled ~> \/ review # "none" \/ status \in {"error", "interrupted"}
             \/ LiveReadHas(DeadRow)
             \/ LiveRead # 0 /\ Tries \in {ledger[LiveRead].glues, ledger[LiveRead].applies}

\* Nothing rewrites the numbers a person approved (reopen_apply_after_read).
ApprovedNumbersStand == [][review = "done" => UNCHANGED numbers]_allVars
=============================================================================
