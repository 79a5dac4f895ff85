----------------------------- MODULE MistralJobs -----------------------------
(***************************************************************************)
(* The lifecycle of the pages read by Mistral (scanning/mistral_ocr.py,    *)
(* mistral_client.py, jobs.py).  A shard is one batch over page files the  *)
(* daemon uploads first and must delete again: they are unredacted.  A     *)
(* wave claims one row, uploads its pages, creates the batch and writes    *)
(* its id, under a lock; the sweep polls the batch, stores its output and  *)
(* deletes the files; a claim without an id is judged by the lock.         *)
(*                                                                         *)
(* Mistral is modelled from how the code uses it.  subs lists the          *)
(* submissions in the order they were claimed: the number of one stands    *)
(* for its submitted_at, its files and its batch, and of, the row and the  *)
(* attempt, for the prefix of its files' names.  A cancel gets through,    *)
(* and a cancelled batch leaves no output.                                 *)
(***************************************************************************)
EXTENDS JobRows, FiniteSets, Sequences

CONSTANTS
  Cap,         \* MISTRAL_MAX_CONCURRENCY
  Serial,      \* TRUE: one daemon loop; FALSE: submit and sweep are Celery tasks
  Faults,      \* which faults may happen, a subset of AllFaults
  MaxStops     \* bound: submissions handed back and processes killed, together

AllFaults == {"busy",       \* a submission is throttled or stopped: handed back
              "transient",  \* a submission fails and is worth another attempt
              "refused",    \* a submission fails for good
              "lost",       \* an upload or a create lands, its answer does not
              "throttled",  \* a delete does not reach its file
              "listing",    \* the files of a lost claim cannot be listed
              "unpolled",   \* a poll is not due, or fails
              "unstored",   \* the output of a batch cannot be fetched or stored
              "gone",       \* the output of a batch is not there
              "broken",     \* a batch fails
              "db",         \* the id of a batch cannot be written
              "abandon"}    \* the web process abandons the open rows

ASSUME MistralAssumption ==
  /\ IsFiniteSet(Rows)
  /\ Cap \in Nat \ {0}
  /\ Serial \in BOOLEAN
  /\ Faults \subseteq AllFaults
  /\ MaxStops \in Nat
  /\ MaxPosts >= Cardinality(Rows) * MaxAttempts + MaxStops

VARIABLES
  row,      \* the table: [Rows -> MistralRow]
  hand,     \* what each process holds of each row: [Processes -> [Rows -> Slot]]
  subs,     \* the submissions so far, in order
  files,    \* the files at Mistral
  results,  \* the result objects stored, as <<row, attempt>>
  stops,    \* submissions handed back and processes killed so far
  killed    \* whether a process was killed

vars == <<row, hand, subs, files, results, stops, killed>>

Processes == {"wave", "sweep", "web"}

Pages(n) == <<n, "pages">>   \* the page images and the manifest of submission n
Out(n)   == <<n, "out">>     \* the output and the error file of its batch
Files    == Ids \X {"pages", "out"}

\* A row's submitted_at and, of its provider_meta, "files" and "files_left".
MistralRow == [status   : Statuses,
               attempt  : Attempts,
               ext      : Ids \cup {NoId},
               key      : Attempts \cup {NoKey},
               deadline : {"none", "running", "passed"},
               at       : {0} \cup Ids,
               files    : SUBSET Files,
               left     : SUBSET Files]

FreshRow == [status |-> "pending", attempt |-> 1, ext |-> NoId, key |-> NoKey,
             deadline |-> "none", at |-> 0, files |-> {}, left |-> {}]

Submission == [of : Rows \X Attempts,
               batch : {"none", "running", "success", "failed", "cancelled"}]

Steps == {"idle", "read", "claimed", "uploaded", "failing", "carry", "handback", "created",
          "swept", "lost", "discard", "harvest", "stored",
          "verdict", "cancel", "delete", "rewrite", "handles"}

\* read is the process's copy of the row; files and ext are what it is about to
\* delete and to cancel; left, the files a wave could not delete; why, what the
\* step under way is for: the row goes back ("busy"), gets another attempt
\* ("retry", or "late" after the deletes) or is written off ("fail", "end").
Slot == [step : Steps, read : MistralRow, ext : Ids \cup {NoId},
         files : SUBSET Files, left : SUBSET Files,
         why : {"none", "busy", "retry", "fail", "end", "late"}]
Idle == [step |-> "idle", read |-> FreshRow, ext |-> NoId,
         files |-> {}, left |-> {}, why |-> "none"]

TypeOK ==
  /\ row \in [Rows -> MistralRow]
  /\ hand \in [Processes -> [Rows -> Slot]]
  /\ subs \in Seq(Submission) /\ Len(subs) <= MaxPosts
  /\ files \subseteq Files
  /\ results \subseteq Rows \X Attempts
  /\ stops \in 0..MaxStops
  /\ killed \in BOOLEAN

Init ==
  /\ row = [r \in Rows |-> FreshRow]
  /\ hand = [p \in Processes |-> [r \in Rows |-> Idle]]
  /\ subs = <<>>
  /\ files = {}
  /\ results = {}
  /\ stops = 0
  /\ killed = FALSE

-----------------------------------------------------------------------------
At(p, r, step)    == hand[p][r].step = step
Free(p)           == \A r \in Rows : At(p, r, "idle")
Becomes(p, r, s)  == hand' = [hand EXCEPT ![p][r] = s]
Drops(p, r)       == Becomes(p, r, Idle)

SubmitIdle   == Free("wave")
SweepDone    == Free("sweep") /\ (Serial => SubmitIdle)
InFlightRows == {r \in Rows : row[r].status \in InFlight}

\* What a delete of these files may leave: it gets through, or it is throttled.
\* A file already gone counts as deleted.
Kept(S) == {{}} \cup (IF "throttled" \in Faults THEN {S \cap files} ELSE {})

\* The row for another claim: no id, no key, no submitted_at.
HandedBack(cur)      == [Deferred(cur) EXCEPT !.at = 0]
NextAttempt(cur, read) ==
  [Retried(cur, read) EXCEPT !.at = 0, !.files = read.files, !.left = read.left]

\* Mutated forms, used by no action: files are deleted without being named
\* first; the deadline ends nothing.
UnnamedForDeletion(cur, S) == [cur EXCEPT !.files = {}]
NeverEnds(s, why) == Idle

\* Files are named on the row, or come off it, by a swap on provider_meta that
\* looks at no status; the copy that swaps takes the row's files over.
Naming(cur, S)            == [cur EXCEPT !.left = @ \cup S]
NamedForDeletion(cur, S)  == [cur EXCEPT !.left = @ \cup S, !.files = {}]
Carried(cur, tried, kept) == [cur EXCEPT !.left = (@ \ (tried \ kept)) \cup kept]
Refreshed(read, cur)      == [read EXCEPT !.files = cur.files, !.left = cur.left]

\* The carry writes only when a file is left, or the copy carried some.
Carry(r, read, tried, kept) ==
  IF kept # {} \/ read.left # {}
  THEN row' = [row EXCEPT ![r] = Carried(@, tried, kept)]
  ELSE UNCHANGED row
AfterCarry(r, read, tried, kept) ==
  IF kept # {} \/ read.left # {} THEN Refreshed(read, Carried(row[r], tried, kept))
                                 ELSE read

Swap(r, read, new) ==
  row' = IF Matches(row[r], read) THEN [row EXCEPT ![r] = new] ELSE row

Goes(s, step) == [s EXCEPT !.step = step]
ToVerdict(s, why) == [s EXCEPT !.step = "verdict", !.why = why]
\* Cancel what the copy names: its batch, and every file of it.
ToCancel(s, why) == [s EXCEPT !.step = "cancel", !.why = why, !.ext = s.read.ext,
                              !.files = s.read.files \cup s.read.left]

\* Nothing to apply: the deadline alone is judged (check_deadline).
Ends(s, why) == IF IsOverdue(s.read) THEN ToVerdict(s, why) ELSE Idle

-----------------------------------------------------------------------------
(* The submit wave: one row, under the submit lock.                        *)

WaveRead(r) ==
  /\ SubmitIdle
  /\ Serial => SweepDone
  /\ Cardinality(InFlightRows) < Cap
  /\ row[r].status = "pending"
  /\ Becomes("wave", r, [Idle EXCEPT !.step = "read", !.read = row[r]])
  /\ UNCHANGED <<row, subs, files, results, stops, killed>>

Claim(r) ==
  LET read == hand["wave"][r].read
      new  == [Claimed(row[r], read, CeilingOnce(read)) EXCEPT !.at = Len(subs) + 1] IN
  /\ At("wave", r, "read")
  /\ Swap(r, read, new)
  /\ \/ /\ Matches(row[r], read)
        /\ Len(subs) < MaxPosts
        /\ subs' = Append(subs, [of |-> <<r, read.attempt>>, batch |-> "none"])
        /\ Becomes("wave", r, [Idle EXCEPT !.step = "claimed", !.read =
             [Claimed(read, read, CeilingOnce(read)) EXCEPT !.at = Len(subs) + 1]])
     \/ /\ ~Matches(row[r], read)
        /\ Drops("wave", r)
        /\ UNCHANGED subs
  /\ UNCHANGED <<files, results, stops, killed>>

\* How a submission may fail: a 429 or a shutdown hands the row back, a fault
\* of the network or of S3 costs an attempt, a refusal ends the row.
Failings == (IF stops < MaxStops THEN Faults \cap {"busy"} ELSE {})
            \cup {why \in {"retry", "fail"} :
                    \/ why = "retry" /\ "transient" \in Faults
                    \/ why = "fail" /\ "refused" \in Faults}
Counted(why) == stops' = IF why = "busy" THEN stops + 1 ELSE stops

\* The files a last try left are deleted first; then the pages go up, all of
\* them or, on a failure, some.  The answer of one that landed may be lost.
Upload(r) ==
  LET s == hand["wave"][r]
      n == s.read.at IN
  /\ At("wave", r, "claimed")
  /\ \E kept \in Kept(s.read.left) :
       LET swept == files \ (s.read.left \ kept) IN
       \/ /\ files' = swept \cup {Pages(n)}
          /\ Becomes("wave", r, [s EXCEPT !.step = "uploaded", !.files = {Pages(n)},
                                          !.left = kept])
          /\ UNCHANGED stops
       \/ \E why \in Failings, landed \in SUBSET {Pages(n)} :
            /\ files' = swept \cup landed
            /\ Becomes("wave", r, [s EXCEPT !.step = "failing", !.files = landed,
                                            !.left = kept, !.why = why])
            /\ Counted(why)
       \/ /\ "lost" \in Faults
          /\ files' = swept \cup {Pages(n)}
          /\ Becomes("wave", r, [s EXCEPT !.step = "failing", !.left = kept, !.why = "retry"])
          /\ UNCHANGED stops
  /\ UNCHANGED <<row, subs, results, killed>>

\* The create may mint a batch whose answer is lost: nothing names that one.
CreateBatch(r) ==
  LET s == hand["wave"][r]
      minted == [subs EXCEPT ![s.read.at].batch = "running"] IN
  /\ At("wave", r, "uploaded")
  /\ \/ /\ subs' = minted
        /\ Becomes("wave", r, Goes(s, "created"))
        /\ UNCHANGED stops
     \/ \E why \in Failings :
          /\ subs' \in {subs} \cup (IF why = "retry" THEN {minted} ELSE {})
          /\ Becomes("wave", r, [s EXCEPT !.step = "failing", !.why = why])
          /\ Counted(why)
  /\ UNCHANGED <<row, files, results, killed>>

\* What landed goes before the outcome is written.
LetGo(r) ==
  LET s == hand["wave"][r] IN
  /\ At("wave", r, "failing")
  /\ \E kept \in Kept(s.files) :
       /\ files' = files \ (s.files \ kept)
       /\ Becomes("wave", r, [s EXCEPT !.step = "carry", !.left = @ \cup kept])
  /\ UNCHANGED <<row, subs, results, stops, killed>>

\* What did not go is carried on the row, and the failure is judged.
CarryLeft(r) ==
  LET s     == hand["wave"][r]
      tried == s.read.left \cup s.files
      s2    == IF s.left = {} THEN s
               ELSE [s EXCEPT !.read = AfterCarry(r, s.read, tried, s.left)] IN
  /\ At("wave", r, "carry")
  /\ IF s.left = {} THEN UNCHANGED row ELSE Carry(r, s.read, tried, s.left)
  /\ Becomes("wave", r, IF s.why = "busy" THEN Goes(s2, "handback")
                        ELSE ToVerdict(s2, s.why))
  /\ UNCHANGED <<subs, files, results, stops, killed>>

HandBack(r) ==
  /\ At("wave", r, "handback")
  /\ Swap(r, hand["wave"][r].read, HandedBack(row[r]))
  /\ Drops("wave", r)
  /\ UNCHANGED <<subs, files, results, stops, killed>>

\* The batch and its files are named on the row; if the row was taken, or the
\* write fails, the batch is cancelled and the files deleted from here.
RecordId(r) ==
  LET s == hand["wave"][r]
      n == s.read.at IN
  /\ At("wave", r, "created")
  /\ \/ /\ Matches(row[r], s.read)
        /\ row' = [row EXCEPT ![r] = [@ EXCEPT !.ext = n, !.files = s.files, !.left = s.left]]
        /\ Drops("wave", r)
     \/ /\ ~Matches(row[r], s.read) \/ "db" \in Faults
        /\ Becomes("wave", r, [s EXCEPT !.step = "cancel", !.why = "end", !.ext = n,
                                        !.files = @ \cup s.left])
        /\ UNCHANGED row
  /\ UNCHANGED <<subs, files, results, stops, killed>>

-----------------------------------------------------------------------------
(* What a write-off and a retry do, whoever decides them.                  *)

\* A row out of attempts, or refused for good, is written off before what it
\* names is cancelled; a retry cancels first.
Verdict(p, r) ==
  LET s     == hand[p][r]
      final == s.why = "fail" \/ OutOfAttempts(s.read) IN
  /\ At(p, r, "verdict")
  /\ \/ /\ final
        /\ Swap(r, s.read, WithStatus(row[r], "failed"))
        /\ Becomes(p, r, IF Matches(row[r], s.read) THEN ToCancel(s, "end") ELSE Idle)
     \/ /\ ~final
        /\ Becomes(p, r, ToCancel(s, "retry"))
        /\ UNCHANGED row
  /\ UNCHANGED <<subs, files, results, stops, killed>>

\* The batch is cancelled, and the files about to be deleted are named on the
\* row, whatever its status is by now.  One step: nobody else reads both.
Cancel(p, r) ==
  LET s == hand[p][r] IN
  /\ At(p, r, "cancel")
  /\ subs' = IF s.ext # NoId /\ subs[s.ext].batch = "running"
             THEN [subs EXCEPT ![s.ext].batch = "cancelled"] ELSE subs
  /\ IF s.files = {} /\ s.read.files = {}
     THEN UNCHANGED row /\ Becomes(p, r, Goes(s, "delete"))
     ELSE /\ row' = [row EXCEPT ![r] = NamedForDeletion(@, s.files)]
          /\ Becomes(p, r, [s EXCEPT !.step = "delete",
                                     !.read = Refreshed(@, NamedForDeletion(row[r], s.files))])
  /\ UNCHANGED <<files, results, stops, killed>>

Delete(p, r) ==
  LET s == hand[p][r] IN
  /\ At(p, r, "delete")
  /\ \E kept \in Kept(s.files) :
       LET done == [s EXCEPT !.read = AfterCarry(r, @, s.files, kept)] IN
       /\ files' = files \ (s.files \ kept)
       /\ Carry(r, s.read, s.files, kept)
       /\ Becomes(p, r, CASE s.why = "retry" -> Goes(done, "rewrite")
                          [] s.why = "late"  -> ToVerdict(done, "retry")
                          [] OTHER           -> Idle)
  /\ UNCHANGED <<subs, results, stops, killed>>

Rewrite(p, r) ==
  LET read == hand[p][r].read IN
  /\ At(p, r, "rewrite")
  /\ Swap(r, read, NextAttempt(row[r], read))
  /\ Drops(p, r)
  /\ UNCHANGED <<subs, files, results, stops, killed>>

-----------------------------------------------------------------------------
(* The sweep.                                                              *)

SweepRead ==
  /\ SweepDone
  /\ InFlightRows # {}
  /\ hand' = [hand EXCEPT !["sweep"] = [r \in Rows |->
                IF r \in InFlightRows THEN [Idle EXCEPT !.step = "swept", !.read = row[r]]
                                      ELSE Idle]]
  /\ UNCHANGED <<row, subs, files, results, stops, killed>>

\* The rows are judged one after another.
Turn(r) == /\ At("sweep", r, "swept")
           /\ \A q \in Rows : hand["sweep"][q].step \in {"idle", "swept"}

\* A wave holds the lock, and no claim without an id is newer than this one.
ClaimAlive(read) ==
  /\ ~SubmitIdle
  /\ \A q \in Rows : row[q].status = read.status /\ row[q].ext = NoId
                     => row[q].at <= read.at

\* With no lock held, a claim inside the legacy grace is left alone too.
LookClaim(r) ==
  LET s == hand["sweep"][r] IN
  /\ Turn(r)
  /\ s.read.ext = NoId
  /\ \/ /\ ClaimAlive(s.read) \/ SubmitIdle
        /\ Drops("sweep", r)
     \/ /\ ~ClaimAlive(s.read)
        /\ Becomes("sweep", r, Goes(s, "lost"))
  /\ UNCHANGED <<row, subs, files, results, stops, killed>>

\* The status and the id are read again after the lock was seen free.
LookAgain(r) ==
  LET s == hand["sweep"][r] IN
  /\ At("sweep", r, "lost")
  /\ Becomes("sweep", r, IF row[r].status = s.read.status /\ row[r].ext = NoId
                         THEN Goes(s, "discard") ELSE Idle)
  /\ UNCHANGED <<row, subs, files, results, stops, killed>>

\* The files of a lost claim are found by their names, the row and the attempt.
Found(r, read) == {f \in files : f[2] = "pages" /\ subs[f[1]].of = <<r, read.attempt>>}

Discard(r) ==
  LET s     == hand["sweep"][r]
      tried == Found(r, s.read) \cup s.read.left IN
  /\ At("sweep", r, "discard")
  /\ \/ \E kept \in Kept(tried) :
          /\ files' = files \ (tried \ kept)
          /\ Carry(r, s.read, tried, kept)
          /\ Becomes("sweep", r,
               ToVerdict([s EXCEPT !.read = AfterCarry(r, @, tried, kept)], "retry"))
     \/ /\ "listing" \in Faults
        /\ Drops("sweep", r)
        /\ UNCHANGED <<row, files>>
  /\ UNCHANGED <<subs, results, stops, killed>>

\* The two output files of a batch, named by the batch alone.
Outputs(read) == {Out(read.ext)} \cap files
NameOutputs(r, s, why) ==
  LET named == Naming(row[r], Outputs(s.read)) IN
  IF Outputs(s.read) = {} THEN UNCHANGED row /\ Becomes("sweep", r, ToVerdict(s, why))
  ELSE /\ row' = [row EXCEPT ![r] = named]
       /\ Becomes("sweep", r, ToVerdict([s EXCEPT !.read = Refreshed(@, named)], why))

\* One poll.  A running batch refreshes the row with the copy's ledger; a poll
\* that is not due or fails judges the deadline all the same.
Poll(r) ==
  LET s     == hand["sweep"][r]
      batch == subs[s.read.ext].batch
      fresh == WithStatus(s.read, "in_progress") IN
  /\ Turn(r)
  /\ s.read.ext # NoId
  /\ \/ /\ "unpolled" \in Faults
        /\ Becomes("sweep", r, Ends(s, "retry"))
        /\ UNCHANGED row
     \/ /\ batch = "running"
        /\ Swap(r, s.read, Refreshed(WithStatus(row[r], "in_progress"), s.read))
        /\ Becomes("sweep", r, IF Matches(row[r], s.read)
                               THEN Ends([s EXCEPT !.read = fresh], "retry") ELSE Idle)
     \/ /\ batch = "success"
        /\ Becomes("sweep", r, Goes(s, "harvest"))
        /\ UNCHANGED row
     \/ batch = "failed" /\ NameOutputs(r, s, "retry")
     \/ batch = "cancelled" /\ NameOutputs(r, s, "fail")
  /\ UNCHANGED <<subs, files, results, stops, killed>>

\* The output is downloaded and stored at the row's key; an output that cannot
\* be stored waits for the deadline, one that is gone costs an attempt.
Harvest(r) ==
  LET s == hand["sweep"][r] IN
  /\ At("sweep", r, "harvest")
  /\ \/ /\ Outputs(s.read) # {}
        /\ results' = results \cup {<<r, s.read.key>>}
        /\ Becomes("sweep", r, Goes(s, "stored"))
        /\ UNCHANGED row
     \/ /\ "unstored" \in Faults
        /\ Becomes("sweep", r, Ends(s, "retry"))
        /\ UNCHANGED <<row, results>>
     \/ /\ Outputs(s.read) = {} \/ "gone" \in Faults
        /\ NameOutputs(r, s, "retry")
        /\ UNCHANGED results
  /\ UNCHANGED <<subs, files, stops, killed>>

\* The row is completed over the stored output, every file named on it until
\* it is gone; a lost swap leaves the batch's own output to delete from here.
Complete(r) ==
  LET s    == hand["sweep"][r]
      all  == s.read.files \cup s.read.left \cup Outputs(s.read)
      over == [s EXCEPT !.step = "delete", !.read.files = {}, !.read.left = all] IN
  /\ At("sweep", r, "stored")
  /\ IF Matches(row[r], s.read)
     THEN /\ row' = [row EXCEPT ![r] = [@ EXCEPT !.status = "completed",
                                                 !.files = {}, !.left = all]]
          /\ Becomes("sweep", r, [over EXCEPT !.files = all, !.why = "end",
                                              !.read.status = "completed"])
     ELSE /\ UNCHANGED row
          /\ Becomes("sweep", r, [over EXCEPT !.files = Outputs(s.read),
                                  !.why = IF IsOverdue(s.read) THEN "late" ELSE "end"])
  /\ UNCHANGED <<subs, files, results, stops, killed>>

\* Mutated form: leftovers are looked for on the rows to submit again only.
LeftoverOfPending(r) ==
  /\ SweepDone
  /\ row[r].status = "pending" /\ row[r].left # {}
  /\ Becomes("sweep", r, [Idle EXCEPT !.step = "delete", !.read = row[r],
                                      !.files = row[r].left, !.why = "end"])
  /\ UNCHANGED <<row, subs, files, results, stops, killed>>

\* The tail of the sweep: a PENDING row past its ceiling is written off, and
\* the files that rows out of flight still carry are deleted.
SweepIs(r, s) ==
  /\ SweepDone
  /\ Becomes("sweep", r, s)
  /\ UNCHANGED <<row, subs, files, results, stops, killed>>

StrandedRead(r) ==
  /\ row[r].status = "pending" /\ row[r].deadline = "passed"
  /\ SweepIs(r, ToVerdict([Idle EXCEPT !.read = row[r]], "fail"))

LeftoverRead(r) ==
  /\ row[r].status \notin InFlight /\ row[r].left # {}
  /\ SweepIs(r, [Idle EXCEPT !.step = "delete", !.read = row[r],
                             !.files = row[r].left, !.why = "end"])

-----------------------------------------------------------------------------
(* The web process abandons the scan; the glue consumes it.                *)

\* One UPDATE over the open rows.  The rows in flight were listed by the
\* statement before it; a claim that lands between the two is left out: its wave
\* finds the row cancelled and deletes what it uploaded.
Abandon ==
  /\ "abandon" \in Faults
  /\ Free("web")
  /\ \E statuses \in {Open, Open \ {"completed"}} :
       LET doomed == {r \in Rows : row[r].status \in statuses} IN
       /\ doomed # {}
       /\ row' = [r \in Rows |-> IF r \in doomed
                                 THEN WithStatus(row[r], "cancelled") ELSE row[r]]
       /\ hand' = [hand EXCEPT !["web"] = [r \in Rows |->
                     IF r \in doomed \cap InFlightRows THEN Goes(Idle, "handles") ELSE Idle]]
  /\ UNCHANGED <<subs, files, results, stops, killed>>

\* The doomed rows are read again: a wave writes its id up to the update.
AbandonHandles(r) ==
  LET s == hand["web"][r] IN
  /\ At("web", r, "handles")
  /\ Becomes("web", r, ToCancel([s EXCEPT !.read = row[r]], "end"))
  /\ UNCHANGED <<row, subs, files, results, stops, killed>>

Consume(r) ==
  /\ row[r].status = "completed"
  /\ row' = [row EXCEPT ![r] = WithStatus(@, "consumed")]
  /\ UNCHANGED <<hand, subs, files, results, stops, killed>>

-----------------------------------------------------------------------------
(* Mistral, the clock and the operator's kill.                             *)

\* A batch ends over its pages and leaves output, whole or in part; without
\* its pages it fails.
BatchEnds(n) ==
  /\ n <= Len(subs) /\ subs[n].batch = "running"
  /\ \E end \in {"success", "failed"} :
       /\ end = "success" => Pages(n) \in files
       /\ end = "failed" => Pages(n) \notin files \/ "broken" \in Faults
       /\ subs' = [subs EXCEPT ![n].batch = end]
  /\ files' = files \cup {Out(n)}
  /\ UNCHANGED <<row, hand, results, stops, killed>>

\* A day and its slack pass.  What passes while a process holds the row is as
\* good as passing before or after: a sweep compares with the time it started,
\* and neither a wave nor an abandon looks.
DeadlinePasses(r) ==
  /\ \A p \in Processes : At(p, r, "idle")
  /\ row[r].status \in InFlight \cup {"pending"}
  /\ row[r].deadline = "running"
  /\ row' = [row EXCEPT ![r].deadline = "passed"]
  /\ UNCHANGED <<hand, subs, files, results, stops, killed>>

Crash(p) ==
  /\ stops < MaxStops
  /\ ~Free(p)
  /\ hand' = [hand EXCEPT ![p] = [r \in Rows |-> Idle]]
  /\ stops' = stops + 1
  /\ killed' = TRUE
  /\ UNCHANGED <<row, subs, files, results>>

-----------------------------------------------------------------------------
WriteOffNext(p, r) == Verdict(p, r) \/ Cancel(p, r) \/ Delete(p, r) \/ Rewrite(p, r)

WaveStep(r) ==
  \/ Claim(r) \/ Upload(r) \/ CreateBatch(r) \/ LetGo(r) \/ CarryLeft(r)
  \/ HandBack(r) \/ RecordId(r) \/ WriteOffNext("wave", r)

SweepStep(r) ==
  \/ LookClaim(r) \/ LookAgain(r) \/ Discard(r) \/ Poll(r) \/ Harvest(r) \/ Complete(r)
  \/ WriteOffNext("sweep", r)

WebStep(r) == AbandonHandles(r) \/ WriteOffNext("web", r)

Next ==
  \/ SweepRead \/ Abandon
  \/ \E r \in Rows : \/ WaveRead(r) \/ WaveStep(r)
                     \/ SweepStep(r) \/ StrandedRead(r) \/ LeftoverRead(r)
                     \/ WebStep(r) \/ Consume(r) \/ DeadlinePasses(r)
  \/ \E n \in Ids : BatchEnds(n)
  \/ \E p \in Processes : Crash(p)

Spec == Init /\ [][Next]_vars

\* Both ticks come again and again, every process goes on with what it started,
\* and time passes.  A claim leaves the legacy grace, a listing and a delete get through
\* in the end.  Nothing is assumed of polls, of the store, of a batch's end, of
\* new abandons or of crashes.
DeleteLands(r) == Delete("sweep", r) /\ files' \cap hand["sweep"][r].files = {}
ClaimIsLost(r) == LookClaim(r) /\ hand'["sweep"][r].step = "lost"
FilesAreListed(r) == Discard(r) /\ hand'["sweep"][r].step = "verdict"

Fairness ==
  /\ SF_vars(SweepRead)
  /\ \A r \in Rows :
       /\ SF_vars(WaveRead(r)) /\ SF_vars(StrandedRead(r)) /\ SF_vars(LeftoverRead(r))
       /\ WF_vars(WaveStep(r)) /\ WF_vars(SweepStep(r)) /\ WF_vars(WebStep(r))
       /\ SF_vars(ClaimIsLost(r)) /\ SF_vars(FilesAreListed(r)) /\ SF_vars(DeleteLands(r))
       /\ SF_vars(DeadlinePasses(r))

FairSpec == Spec /\ Fairness

-----------------------------------------------------------------------------
(* Properties.                                                             *)

\* Every page file at Mistral can be found again: a row names it, a live
\* process is about to name or to delete it, or it carries the name prefix a
\* lost claim is searched by (file_prefix, _name_before_delete,
\* discard_lost_files).  Left out: a claim the web process cancelled and whose
\* worker was then killed; nothing searches for the files of a cancelled row.
FoundByName(n) ==
  \E r \in Rows : /\ subs[n].of = <<r, row[r].attempt>>
                  /\ row[r].status \in InFlight /\ row[r].ext = NoId
FilesAreNamed ==
  \A n \in DOMAIN subs :
    Pages(n) \in files =>
      \/ \E r \in Rows : Pages(n) \in row[r].files \cup row[r].left
      \/ \E p \in Processes, r \in Rows : Pages(n) \in hand[p][r].files \cup hand[p][r].left
      \/ FoundByName(n)
      \/ killed /\ row[subs[n].of[1]].status = "cancelled"

\* The lifecycle keeps the promise every provider's lifecycle makes: a row is
\* completed over its current attempt's result only, and finished rows never
\* come back (harvest, apply_poll_outcome, abandon_open).
Contract == INSTANCE JobContract WITH
  state   <- [r \in Rows |-> CASE row[r].status = "completed" -> "completed"
                               [] row[r].status = "consumed"  -> "consumed"
                               [] row[r].status \in Dead      -> "dead"
                               [] OTHER                       -> "open"],
  attempt <- [r \in Rows |-> row[r].attempt]

ImplementsContract == Contract!Spec

\* Unredacted pages do not stay at Mistral: whatever was throttled, killed or
\* abandoned, every page file is deleted in the end (delete_leftover_files).
\* Left out: a row written off by a process that was then killed, whose files
\* no row carries yet.
KilledOverWriteOff(n) == killed /\ row[subs[n].of[1]].status \in Dead
PagesGo ==
  <>[](\A n \in DOMAIN subs : Pages(n) \notin files \/ KilledOverWriteOff(n))

\* Every row is harvested or written off in the end, whatever Mistral answers
\* (check_deadline, _harvest_outcome).
EveryRowSettles == \A r \in Rows : <>(row[r].status \in Terminal \cup {"completed"})
=============================================================================
