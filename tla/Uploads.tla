------------------------------- MODULE Uploads -------------------------------
(***************************************************************************)
(* The upload of a volume's original PDF and its recovery (scanning/       *)
(* views.py, services.py, cleanup_processing_tmp.py,                       *)
(* recover_pending_uploads.py).                                            *)
(*                                                                         *)
(* A direct upload takes three requests of a browser tab: presign makes    *)
(* the scan and a PendingUpload row, the POST goes straight to S3, and     *)
(* confirm verifies the object, attaches it and queues the scan.  The tab  *)
(* may close and a request may be killed at any point, so a sweep takes    *)
(* the rows older than PENDING_UPLOAD_TTL_HOURS: it does what confirm      *)
(* would have done for an object that landed, and deletes the rest.  A     *)
(* classic upload is one request and leaves no row for the sweep.          *)
(***************************************************************************)
EXTENDS Naturals

CONSTANTS
  Direct,     \* uploads through a presigned POST, one scan each
  Classic,    \* uploads through Django
  Sweepers,   \* copies of the locked task recover_uploads
  Commands,   \* recover_pending_uploads run by hand, which takes no lock
  Events,     \* what else may happen, a subset of the below
  MaxKills    \* bound: processes killed

AllEvents == {"notpdf",  \* the browser posts a file that is no PDF
              "s3",      \* a ranged GET or a delete of an object errors
              "late"}    \* a POST or a confirm outlives the row's TTL

Uploads == Direct \cup Classic
Hands   == Sweepers \cup Commands

ASSUME UploadsAssumption ==
  /\ Direct \cap Classic = {} /\ Sweepers \cap Commands = {}
  /\ Events \subseteq AllEvents /\ MaxKills \in Nat

VARIABLES
  scans,    \* per upload the scan row: is it there, has it a file, its status
  pending,  \* the PendingUpload row, by its age, or "none"
  object,   \* what lies at its S3 key
  tab,      \* how far the browser is
  web,      \* the request being handled, and if its copy of the scan is fileless
  hand,     \* each recovery: its step, list, fileless copies and current row
  kills     \* processes killed

vars == <<scans, pending, object, tab, web, hand, kills>>

Scan      == [row : BOOLEAN, file : BOOLEAN, status : {"uploaded", "queued", "processing"}]
Ages      == {"young", "grown", "stale"}  \* by the command's grace and the TTL
WebSteps  == {"idle", "authorise", "stream", "verify", "reclaim", "forget",
              "save", "drop", "apply"}
HandSteps == {"idle", "next", "verify", "reclaim", "forget", "save", "apply", "drop"}
NoScan    == [row |-> FALSE, file |-> FALSE, status |-> "uploaded"]
WebIdle   == [step |-> "idle", fileless |-> FALSE]
HandIdle  == [step |-> "idle", todo |-> {}, fileless |-> {}, at |-> {}]

TypeOK ==
  /\ scans \in [Uploads -> Scan]
  /\ pending \in [Uploads -> Ages \cup {"none"}]
  /\ object \in [Uploads -> {"none", "pdf", "other"}]
  /\ tab \in [Uploads -> {"start", "presigned", "posted", "done"}]
  /\ web \in [Uploads -> [step : WebSteps, fileless : BOOLEAN]]
  /\ hand \in [Hands -> [step : HandSteps, todo : SUBSET Uploads,
                         fileless : SUBSET Uploads, at : SUBSET Uploads]]
  /\ kills \in 0..MaxKills

Init ==
  /\ scans = [u \in Uploads |-> NoScan]
  /\ pending = [u \in Uploads |-> "none"]
  /\ object = [u \in Uploads |-> "none"]
  /\ tab = [u \in Uploads |-> "start"]
  /\ web = [u \in Uploads |-> WebIdle]
  /\ hand = [h \in Hands |-> HandIdle]
  /\ kills = 0

-----------------------------------------------------------------------------
(* The writes the request and the recovery share.                          *)

\* Scan.save of a fresh row.
CreateScan(u) == scans' = [scans EXCEPT ![u] = [NoScan EXCEPT !.row = TRUE]]

\* save(update_fields=["original_pdf"]): it raises when the row is gone.
AttachFile(u) == scans' = [scans EXCEPT ![u].file = scans[u].row]

\* apply_upload_action saves every field of its copy, over whatever the row
\* says by now, and inserts the row again when it is gone.
QueueScan(u) ==
  scans' = [scans EXCEPT ![u] = [row |-> TRUE, file |-> TRUE, status |-> "queued"]]

\* scan.delete takes the pending rows with it (CASCADE).
DeleteScan(u) ==
  /\ scans' = [scans EXCEPT ![u] = NoScan]
  /\ pending' = [pending EXCEPT ![u] = "none"]

DropPending(u) == pending' = [pending EXCEPT ![u] = "none"]

\* What the ranged GET may answer: any ClientError reads as no valid object.
Answers(u) == {object[u] = "pdf"} \cup (IF "s3" \in Events THEN {FALSE} ELSE {})

\* delete_uploaded_object is best effort.
DeleteObject(u) ==
  \E left \in {"none"} \cup (IF "s3" \in Events THEN {object[u]} ELSE {}) :
    object' = [object EXCEPT ![u] = left]

Web(u, step) == web' = [web EXCEPT ![u].step = step]

\* A transfer takes at most the TTL (processing_storage.py).
InTime(u) == "late" \in Events \/ pending[u] \in {"young", "grown"}

-----------------------------------------------------------------------------
(* The requests.                                                           *)

\* presign_scan_upload saves the scan before the key can be built.
Presign(u) ==
  /\ tab[u] = "start" /\ web[u].step = "idle"
  /\ CreateScan(u)
  /\ web' = [web EXCEPT ![u] = [step |-> "authorise", fileless |-> TRUE]]
  /\ UNCHANGED <<pending, object, tab, hand, kills>>

Authorise(u) ==
  /\ web[u].step = "authorise"
  /\ pending' = [pending EXCEPT ![u] = "young"]
  /\ tab' = [tab EXCEPT ![u] = "presigned"]
  /\ Web(u, "idle")
  /\ UNCHANGED <<scans, object, hand, kills>>

\* The policy or the insert of the row failed: the scan goes inline.
PresignFails(u) ==
  /\ web[u].step = "authorise"
  /\ DeleteScan(u)
  /\ tab' = [tab EXCEPT ![u] = "done"]
  /\ Web(u, "idle")
  /\ UNCHANGED <<object, hand, kills>>

\* The browser's POST lands on S3.
Post(u) ==
  /\ tab[u] = "presigned" /\ InTime(u)
  /\ \E body \in {"pdf"} \cup (IF "notpdf" \in Events THEN {"other"} ELSE {}) :
       object' = [object EXCEPT ![u] = body]
  /\ tab' = [tab EXCEPT ![u] = "posted"]
  /\ UNCHANGED <<scans, pending, web, hand, kills>>

\* confirm_scan_upload reads the pending row, a 404 without one, and its scan.
Confirm(u) ==
  /\ tab[u] = "posted" /\ InTime(u)
  /\ pending[u] # "none"
  /\ tab' = [tab EXCEPT ![u] = "done"]
  /\ web' = [web EXCEPT ![u] = [step |-> "verify", fileless |-> ~scans[u].file]]
  /\ UNCHANGED <<scans, pending, object, hand, kills>>

ConfirmVerifies(u) ==
  /\ web[u].step = "verify"
  /\ \E valid \in Answers(u) :
       Web(u, IF valid THEN "save" ELSE IF web[u].fileless THEN "reclaim" ELSE "forget")
  /\ UNCHANGED <<scans, pending, object, tab, hand, kills>>

ConfirmReclaims(u) ==
  /\ web[u].step = "reclaim"
  /\ DeleteObject(u)
  /\ Web(u, "forget")
  /\ UNCHANGED <<scans, pending, tab, hand, kills>>

\* The scan goes if the copy was fileless, the pending row in any case.
ConfirmForgets(u) ==
  /\ web[u].step = "forget"
  /\ IF web[u].fileless THEN DeleteScan(u) ELSE DropPending(u) /\ UNCHANGED scans
  /\ Web(u, "idle")
  /\ UNCHANGED <<object, tab, hand, kills>>

\* queue_upload has read the file's header before it makes the scan.
QueueUpload(u) ==
  /\ tab[u] = "start" /\ web[u].step = "idle"
  /\ CreateScan(u)
  /\ tab' = [tab EXCEPT ![u] = "done"]
  /\ web' = [web EXCEPT ![u] = [step |-> "stream", fileless |-> TRUE]]
  /\ UNCHANGED <<pending, object, hand, kills>>

StreamLands(u) ==
  /\ web[u].step = "stream"
  /\ object' = [object EXCEPT ![u] = "pdf"]
  /\ Web(u, "save")
  /\ UNCHANGED <<scans, pending, tab, hand, kills>>

StreamFails(u) ==
  /\ web[u].step = "stream"
  /\ DeleteScan(u)
  /\ Web(u, "idle")
  /\ UNCHANGED <<object, tab, hand, kills>>

\* Both requests attach the file and queue the scan; confirm drops the pending
\* row in between.
WebSaves(u) ==
  /\ web[u].step = "save"
  /\ AttachFile(u)
  /\ Web(u, IF ~scans[u].row THEN "idle" ELSE IF u \in Direct THEN "drop" ELSE "apply")
  /\ UNCHANGED <<pending, object, tab, hand, kills>>

ConfirmDrops(u) ==
  /\ web[u].step = "drop"
  /\ DropPending(u)
  /\ Web(u, "apply")
  /\ UNCHANGED <<scans, object, tab, hand, kills>>

WebApplies(u) ==
  /\ web[u].step = "apply"
  /\ QueueScan(u)
  /\ Web(u, "idle")
  /\ UNCHANGED <<pending, object, tab, hand, kills>>

-----------------------------------------------------------------------------
(* The recovery.                                                           *)

Due(h) == {u \in Uploads : pending[u] \in IF h \in Sweepers THEN {"stale"} ELSE {"grown", "stale"}}

Hand(h, step) == hand' = [hand EXCEPT ![h].step = step]
Current(h, u) == hand[h].at = {u}

\* Mutated form: the task takes no lock.
LockIsOff(h) == TRUE

\* The advisory lock of the task; a command takes none.
LockIsFree(h) == h \in Sweepers => \A g \in Sweepers : hand[g].step = "idle"

\* One query reads the rows that are due, each with its copy of the scan.
Starts(h) ==
  /\ hand[h].step = "idle" /\ LockIsFree(h)
  /\ Due(h) # {}
  /\ hand' = [hand EXCEPT ![h] = [step |-> "next", todo |-> Due(h),
                fileless |-> {u \in Due(h) : ~scans[u].file}, at |-> {}]]
  /\ UNCHANGED <<scans, pending, object, tab, web, kills>>

\* Mutated form: a row whose scan has its file is passed over.
PassedOver(h, u) ==
  IF h \in Sweepers /\ u \in hand[h].fileless THEN "reclaim" ELSE "next"

\* Where a row that is not recovered goes: the command leaves it alone, the
\* sweep reclaims the object of a fileless scan before it forgets the row.
NotRecovered(h, u) ==
  IF h \in Commands THEN "next" ELSE IF u \in hand[h].fileless THEN "reclaim" ELSE "forget"

\* Mutated form: the sweep deletes what is too old without a recovery.
Discards(h, u) == NotRecovered(h, u)

\* recover_pending_upload has nothing to do for a scan that has its file.
Recovers(h, u) == IF u \in hand[h].fileless THEN "verify" ELSE NotRecovered(h, u)

Takes(h, u) ==
  /\ hand[h].step = "next" /\ u \in hand[h].todo
  /\ hand' = [hand EXCEPT ![h].at = {u}, ![h].todo = @ \ {u}, ![h].step = Recovers(h, u)]
  /\ UNCHANGED <<scans, pending, object, tab, web, kills>>

Ends(h) ==
  /\ hand[h].step = "next" /\ hand[h].todo = {}
  /\ hand' = [hand EXCEPT ![h] = HandIdle]
  /\ UNCHANGED <<scans, pending, object, tab, web, kills>>

RecoveryVerifies(h, u) ==
  /\ hand[h].step = "verify" /\ Current(h, u)
  /\ \E valid \in Answers(u) : Hand(h, IF valid THEN "save" ELSE NotRecovered(h, u))
  /\ UNCHANGED <<scans, pending, object, tab, web, kills>>

SweepReclaims(h, u) ==
  /\ hand[h].step = "reclaim" /\ Current(h, u)
  /\ DeleteObject(u)
  /\ Hand(h, "forget")
  /\ UNCHANGED <<scans, pending, tab, web, kills>>

SweepForgets(h, u) ==
  /\ hand[h].step = "forget" /\ Current(h, u)
  /\ IF u \in hand[h].fileless THEN DeleteScan(u) ELSE DropPending(u) /\ UNCHANGED scans
  /\ Hand(h, "next")
  /\ UNCHANGED <<object, tab, web, kills>>

\* A save that raises ends the whole recovery: the loop catches nothing.
RecoverySaves(h, u) ==
  /\ hand[h].step = "save" /\ Current(h, u)
  /\ AttachFile(u)
  /\ hand' = [hand EXCEPT ![h] =
                IF scans[u].row THEN [@ EXCEPT !.step = "apply"] ELSE HandIdle]
  /\ UNCHANGED <<pending, object, tab, web, kills>>

RecoveryApplies(h, u) ==
  /\ hand[h].step = "apply" /\ Current(h, u)
  /\ QueueScan(u)
  /\ Hand(h, "drop")
  /\ UNCHANGED <<pending, object, tab, web, kills>>

RecoveryDrops(h, u) ==
  /\ hand[h].step = "drop" /\ Current(h, u)
  /\ DropPending(u)
  /\ Hand(h, "next")
  /\ UNCHANGED <<scans, object, tab, web, kills>>

-----------------------------------------------------------------------------
(* Time, the pipeline, and kills.                                          *)

Grows(u) ==
  /\ pending[u] = "young"
  /\ pending' = [pending EXCEPT ![u] = "grown"]
  /\ UNCHANGED <<scans, object, tab, web, hand, kills>>

\* No request is handled for the whole of the TTL.
TurnsStale(u) ==
  /\ pending[u] = "grown"
  /\ "late" \in Events \/ web[u].step = "idle"
  /\ pending' = [pending EXCEPT ![u] = "stale"]
  /\ UNCHANGED <<scans, object, tab, web, hand, kills>>

\* claim_next takes a queued scan into the pipeline.
ClaimNext(u) ==
  /\ scans[u].row /\ scans[u].status = "queued"
  /\ scans' = [scans EXCEPT ![u].status = "processing"]
  /\ UNCHANGED <<pending, object, tab, web, hand, kills>>

KillRequest(u) ==
  /\ web[u].step # "idle"
  /\ kills < MaxKills /\ kills' = kills + 1
  /\ web' = [web EXCEPT ![u] = WebIdle]
  /\ tab' = [tab EXCEPT ![u] = "done"]
  /\ UNCHANGED <<scans, pending, object, hand>>

KillRecovery(h) ==
  /\ hand[h].step # "idle"
  /\ kills < MaxKills /\ kills' = kills + 1
  /\ hand' = [hand EXCEPT ![h] = HandIdle]
  /\ UNCHANGED <<scans, pending, object, tab, web>>

\* What the process that handles a request does next.
Handles(u) ==
  \/ Authorise(u) \/ PresignFails(u)
  \/ ConfirmVerifies(u) \/ ConfirmReclaims(u) \/ ConfirmForgets(u)
  \/ StreamLands(u) \/ StreamFails(u)
  \/ WebSaves(u) \/ ConfirmDrops(u) \/ WebApplies(u)

Works(h) ==
  \/ Ends(h)
  \/ \E u \in Uploads :
       \/ Takes(h, u) \/ RecoveryVerifies(h, u)
       \/ SweepReclaims(h, u) \/ SweepForgets(h, u)
       \/ RecoverySaves(h, u) \/ RecoveryApplies(h, u) \/ RecoveryDrops(h, u)

Next ==
  \/ \E u \in Direct : Presign(u) \/ Post(u) \/ Confirm(u) \/ Grows(u) \/ TurnsStale(u)
  \/ \E u \in Classic : QueueUpload(u)
  \/ \E u \in Uploads : Handles(u) \/ ClaimNext(u) \/ KillRequest(u)
  \/ \E h \in Hands : Starts(h) \/ Works(h) \/ KillRecovery(h)

Spec == Init /\ [][Next]_vars

\* A process that is not killed goes on, time passes and the sweep recurs.
\* Nothing makes a browser post or confirm.
FairSpec ==
  /\ Spec
  /\ \A u \in Uploads : WF_vars(Handles(u))
  /\ \A u \in Direct : WF_vars(Grows(u)) /\ WF_vars(TurnsStale(u))
  /\ \A h \in Sweepers : WF_vars(Works(h))
  /\ WF_vars(\E h \in Sweepers : Starts(h))

-----------------------------------------------------------------------------
(* Properties.                                                             *)

\* A PDF that landed is never deleted, by a rejected confirm or by a sweep,
\* whoever died before ("Never destroy a good file", cleanup_processing_tmp).
GoodFileKept ==
  [][\A u \in Uploads : object[u] = "pdf" => object'[u] = "pdf"]_vars

\* A scan the pipeline has taken is not put back in the queue by a recovery of
\* its upload, however confirm and the sweeps died (tasks.recover_uploads).
QueuedOnce ==
  [][\A u \in Uploads :
       scans[u].status = "processing" => scans'[u].status # "queued"]_vars

\* An authorised upload ends, with or without its tab: the row goes, a PDF that
\* landed is the file of its scan, and nothing is left of the others
\* (_sweep_pending_uploads, recover_pending_upload).
EveryUploadEnds ==
  \A u \in Direct :
    pending[u] # "none" ~>
      /\ pending[u] = "none"
      /\ IF object[u] = "pdf" THEN scans[u].file ELSE ~scans[u].row /\ object[u] = "none"

\* A scan whose file is stored is queued in the end.  The code does not keep
\* this: a process killed between the two writes leaves a scan that confirm has
\* no row for and recover_pending_upload takes for done.
AttachedIsQueued ==
  \A u \in Uploads : scans[u].file ~> scans[u].status # "uploaded"
=============================================================================
