------------------------ MODULE UploadsAndEdits_proofs ------------------------
(***************************************************************************)
(* Theorems about the two ways a curator's files enter a volume: Uploads,  *)
(* for any set of uploads and copies of the sweep and any number of kills; *)
(* then PageEdits, for a volume of any length and any number of decisions, *)
(* builds and boxes.                                                       *)
(***************************************************************************)
EXTENDS Uploads, PageEdits, SequenceTheorems, FiniteSetTheorems, TLAPS

\* What the theorems leave to the run: a ranged GET that errors, a transfer
\* that outlives the TTL, and the command that takes no lock.
AnswersAreTrue == "s3" \notin Events
NothingIsLate  == "late" \notin Events
NoCommand      == Commands = {}

-----------------------------------------------------------------------------
(* What is known of one upload, of the request that handles it, and of a   *)
(* recovery that has it on its list.                                       *)

RowFits(u) ==
  /\ tab[u] = "start" => pending[u] = "none"
  /\ u \in Classic => pending[u] = "none" /\ tab[u] \in {"start", "done"}
  /\ u \in Direct /\ tab[u] \in {"start", "presigned"} => object[u] = "none"

RequestFits(u) ==
  /\ web[u].step = "authorise" => u \in Direct /\ tab[u] = "start"
  /\ web[u].step = "stream" => u \in Classic
  /\ web[u].step \in {"verify", "reclaim", "forget", "drop"} => u \in Direct
  /\ web[u].step \notin {"idle", "authorise"} => tab[u] = "done"

\* A command reclaims and forgets nothing; what a sweep has listed was stale.
ListFits(h, u) ==
  /\ h \in Commands => hand[h].step \notin {"reclaim", "forget"}
  /\ h \in Sweepers /\ u \in hand[h].todo \cup hand[h].at =>
       u \in Direct /\ pending[u] \in {"stale", "none"} /\ tab[u] # "start"

FilesFit ==
  /\ \A u \in Uploads : RowFits(u) /\ RequestFits(u)
  /\ \A h \in Hands, u \in Uploads : ListFits(h, u)

\* What is about to be deleted was looked at and is no PDF.
ReclaimsFit ==
  \A u \in Uploads :
    /\ web[u].step = "reclaim" => object[u] # "pdf"
    /\ \A h \in Sweepers : hand[h].step = "reclaim" /\ u \in hand[h].at => object[u] # "pdf"

\* The scan is in the queue, or past it, only with its file, and never while its
\* pending row is young or its request is at work.
ScanFits(u) ==
  /\ ~scans[u].row => ~scans[u].file
  /\ ~scans[u].file => scans[u].status = "uploaded"
  /\ pending[u] \in {"young", "grown"} => scans[u].status = "uploaded"

BusyFits(u) ==
  /\ web[u].step # "idle" => scans[u].status = "uploaded" /\ pending[u] # "stale"
  /\ web[u].step = "apply" => pending[u] = "none"

\* What a sweep has listed no request is at work on, and a copy that says
\* fileless is true until the sweep itself attaches the file.
CopyFits(h, u) ==
  /\ hand[h].step = "idle" => u \notin hand[h].todo \cup hand[h].at
  /\ u \in hand[h].todo \cup hand[h].at => web[u].step = "idle"
  /\ u \in hand[h].at => u \notin hand[h].todo
  /\ u \in hand[h].todo \cap hand[h].fileless => ~scans[u].file
  /\ u \in hand[h].at /\ hand[h].step \in {"verify", "save"} => ~scans[u].file
  /\ u \in hand[h].at /\ hand[h].step = "apply" => scans[u].status = "uploaded"

OneSweep == \A g, h \in Hands : g # h => "idle" \in {hand[g].step, hand[h].step}

QueueFits ==
  /\ \A u \in Uploads : ScanFits(u) /\ BusyFits(u)
  /\ \A h \in Hands, u \in Uploads : CopyFits(h, u)
  /\ OneSweep

-----------------------------------------------------------------------------
LEMMA TypeStep == ASSUME TypeOK, Next PROVE TypeOK'
<1>1. ASSUME NEW u \in Direct, Presign(u) PROVE TypeOK'
  BY <1>1, UploadsAssumption DEF TypeOK, Scan, Ages, WebSteps, HandSteps, Uploads, Presign, CreateScan, NoScan
<1>2. ASSUME NEW u \in Direct, Post(u) PROVE TypeOK'
  BY <1>2, UploadsAssumption DEF TypeOK, Scan, Ages, WebSteps, HandSteps, Uploads, Post, InTime
<1>3. ASSUME NEW u \in Direct, Confirm(u) PROVE TypeOK'
  BY <1>3, UploadsAssumption DEF TypeOK, Scan, Ages, WebSteps, HandSteps, Uploads, Confirm, InTime
<1>4. ASSUME NEW u \in Direct, Grows(u) PROVE TypeOK'
  BY <1>4, UploadsAssumption DEF TypeOK, Scan, Ages, WebSteps, HandSteps, Uploads, Grows
<1>5. ASSUME NEW u \in Direct, TurnsStale(u) PROVE TypeOK'
  BY <1>5, UploadsAssumption DEF TypeOK, Scan, Ages, WebSteps, HandSteps, Uploads, TurnsStale
<1>6. ASSUME NEW u \in Classic, QueueUpload(u) PROVE TypeOK'
  BY <1>6, UploadsAssumption DEF TypeOK, Scan, Ages, WebSteps, HandSteps, Uploads, QueueUpload, CreateScan, NoScan
<1>7. ASSUME NEW u \in Uploads, Authorise(u) PROVE TypeOK'
  BY <1>7, UploadsAssumption DEF TypeOK, Scan, Ages, WebSteps, HandSteps, Uploads, Authorise, Web
<1>8. ASSUME NEW u \in Uploads, PresignFails(u) PROVE TypeOK'
  BY <1>8, UploadsAssumption DEF TypeOK, Scan, Ages, WebSteps, HandSteps, Uploads, PresignFails, DeleteScan, Web, NoScan
<1>9. ASSUME NEW u \in Uploads, ConfirmVerifies(u) PROVE TypeOK'
  BY <1>9, UploadsAssumption DEF TypeOK, Scan, Ages, WebSteps, HandSteps, Uploads, ConfirmVerifies, Web, Answers
<1>10. ASSUME NEW u \in Uploads, ConfirmReclaims(u) PROVE TypeOK'
  BY <1>10, UploadsAssumption DEF TypeOK, Scan, Ages, WebSteps, HandSteps, Uploads, ConfirmReclaims, Web, DeleteObject
<1>11. ASSUME NEW u \in Uploads, ConfirmForgets(u) PROVE TypeOK'
  <2>1. CASE DeleteScan(u)
    BY <1>11, <2>1 DEF TypeOK, Scan, Ages, WebSteps, HandSteps, Uploads, ConfirmForgets, Web, DeleteScan, DropPending, NoScan
  <2>2. CASE DropPending(u) /\ UNCHANGED scans
    BY <1>11, <2>2 DEF TypeOK, Scan, Ages, WebSteps, HandSteps, Uploads, ConfirmForgets, Web, DeleteScan, DropPending, NoScan
  <2> QED BY <1>11, <2>1, <2>2 DEF ConfirmForgets
<1>12. ASSUME NEW u \in Uploads, StreamLands(u) PROVE TypeOK'
  BY <1>12, UploadsAssumption DEF TypeOK, Scan, Ages, WebSteps, HandSteps, Uploads, StreamLands, Web
<1>13. ASSUME NEW u \in Uploads, StreamFails(u) PROVE TypeOK'
  BY <1>13, UploadsAssumption DEF TypeOK, Scan, Ages, WebSteps, HandSteps, Uploads, StreamFails, Web, DeleteScan, NoScan
<1>14. ASSUME NEW u \in Uploads, WebSaves(u) PROVE TypeOK'
  BY <1>14, UploadsAssumption DEF TypeOK, Scan, Ages, WebSteps, HandSteps, Uploads, WebSaves, Web, AttachFile
<1>15. ASSUME NEW u \in Uploads, ConfirmDrops(u) PROVE TypeOK'
  BY <1>15, UploadsAssumption DEF TypeOK, Scan, Ages, WebSteps, HandSteps, Uploads, ConfirmDrops, Web, DropPending
<1>16. ASSUME NEW u \in Uploads, WebApplies(u) PROVE TypeOK'
  BY <1>16, UploadsAssumption DEF TypeOK, Scan, Ages, WebSteps, HandSteps, Uploads, WebApplies, Web, QueueScan
<1>17. ASSUME NEW u \in Uploads, ClaimNext(u) PROVE TypeOK'
  BY <1>17, UploadsAssumption DEF TypeOK, Scan, Ages, WebSteps, HandSteps, Uploads, ClaimNext
<1>18. ASSUME NEW u \in Uploads, KillRequest(u) PROVE TypeOK'
  BY <1>18, UploadsAssumption DEF TypeOK, Scan, Ages, WebSteps, HandSteps, Uploads, KillRequest, WebIdle
<1>19. ASSUME NEW h \in Hands, Starts(h) PROVE TypeOK'
  BY <1>19, UploadsAssumption DEF TypeOK, Scan, Ages, WebSteps, HandSteps, Uploads, Starts, Due
<1>20. ASSUME NEW h \in Hands, Ends(h) PROVE TypeOK'
  BY <1>20, UploadsAssumption DEF TypeOK, Scan, Ages, WebSteps, HandSteps, Uploads, Ends, HandIdle
<1>21. ASSUME NEW h \in Hands, KillRecovery(h) PROVE TypeOK'
  BY <1>21, UploadsAssumption DEF TypeOK, Scan, Ages, WebSteps, HandSteps, Uploads, KillRecovery, HandIdle
<1>22. ASSUME NEW h \in Hands, NEW u \in Uploads, Takes(h, u) PROVE TypeOK'
  BY <1>22, UploadsAssumption DEF TypeOK, Scan, Ages, WebSteps, HandSteps, Uploads, Takes, Recovers, NotRecovered
<1>23. ASSUME NEW h \in Hands, NEW u \in Uploads, RecoveryVerifies(h, u) PROVE TypeOK'
  BY <1>23, UploadsAssumption DEF TypeOK, Scan, Ages, WebSteps, HandSteps, Uploads, RecoveryVerifies, Answers, Hand, NotRecovered, Current
<1>24. ASSUME NEW h \in Hands, NEW u \in Uploads, SweepReclaims(h, u) PROVE TypeOK'
  BY <1>24, UploadsAssumption DEF TypeOK, Scan, Ages, WebSteps, HandSteps, Uploads, SweepReclaims, DeleteObject, Hand, Current
<1>25. ASSUME NEW h \in Hands, NEW u \in Uploads, SweepForgets(h, u) PROVE TypeOK'
  <2>1. CASE DeleteScan(u)
    BY <1>25, <2>1 DEF TypeOK, Scan, Ages, WebSteps, HandSteps, Uploads, SweepForgets, DeleteScan, DropPending, Hand, Current, NoScan
  <2>2. CASE DropPending(u) /\ UNCHANGED scans
    BY <1>25, <2>2 DEF TypeOK, Scan, Ages, WebSteps, HandSteps, Uploads, SweepForgets, DeleteScan, DropPending, Hand, Current, NoScan
  <2> QED BY <1>25, <2>1, <2>2 DEF SweepForgets
<1>26. ASSUME NEW h \in Hands, NEW u \in Uploads, RecoverySaves(h, u) PROVE TypeOK'
  BY <1>26, UploadsAssumption DEF TypeOK, Scan, Ages, WebSteps, HandSteps, Uploads, RecoverySaves, AttachFile, HandIdle, Current
<1>27. ASSUME NEW h \in Hands, NEW u \in Uploads, RecoveryApplies(h, u) PROVE TypeOK'
  BY <1>27, UploadsAssumption DEF TypeOK, Scan, Ages, WebSteps, HandSteps, Uploads, RecoveryApplies, QueueScan, Hand, Current
<1>28. ASSUME NEW h \in Hands, NEW u \in Uploads, RecoveryDrops(h, u) PROVE TypeOK'
  BY <1>28, UploadsAssumption DEF TypeOK, Scan, Ages, WebSteps, HandSteps, Uploads, RecoveryDrops, DropPending, Hand, Current
<1> QED
  BY <1>1, <1>2, <1>3, <1>4, <1>5, <1>6, <1>7, <1>8, <1>9, <1>10, <1>11, <1>12, <1>13, <1>14, <1>15, <1>16, <1>17, <1>18, <1>19, <1>20, <1>21, <1>22, <1>23, <1>24, <1>25, <1>26, <1>27, <1>28 DEF Next, Handles, Works

LEMMA FilesStep ==
  ASSUME NothingIsLate, TypeOK, FilesFit, Next
  PROVE  FilesFit'
<1>1. ASSUME NEW u \in Direct, Presign(u) PROVE FilesFit'
  <2>1. ASSUME NEW v \in Uploads PROVE (RowFits(v) /\ RequestFits(v))'
    BY <1>1, <2>1, UploadsAssumption DEF FilesFit, TypeOK, RowFits, RequestFits, ListFits, NothingIsLate, Uploads, Presign, CreateScan
  <2>2. ASSUME NEW g \in Hands, NEW v \in Uploads PROVE ListFits(g, v)'
    BY <1>1, <2>2, UploadsAssumption DEF FilesFit, TypeOK, RowFits, RequestFits, ListFits, NothingIsLate, Uploads, Hands, Presign, CreateScan
  <2> QED BY <2>1, <2>2 DEF FilesFit
<1>2. ASSUME NEW u \in Direct, Post(u) PROVE FilesFit'
  <2>1. ASSUME NEW v \in Uploads PROVE (RowFits(v) /\ RequestFits(v))'
    BY <1>2, <2>1, UploadsAssumption DEF FilesFit, TypeOK, RowFits, RequestFits, ListFits, NothingIsLate, Uploads, Post, InTime
  <2>2. ASSUME NEW g \in Hands, NEW v \in Uploads PROVE ListFits(g, v)'
    BY <1>2, <2>2, UploadsAssumption DEF FilesFit, TypeOK, RowFits, RequestFits, ListFits, NothingIsLate, Uploads, Hands, Post, InTime
  <2> QED BY <2>1, <2>2 DEF FilesFit
<1>3. ASSUME NEW u \in Direct, Confirm(u) PROVE FilesFit'
  <2>1. ASSUME NEW v \in Uploads PROVE (RowFits(v) /\ RequestFits(v))'
    BY <1>3, <2>1, UploadsAssumption DEF FilesFit, TypeOK, RowFits, RequestFits, ListFits, NothingIsLate, Uploads, Confirm, InTime
  <2>2. ASSUME NEW g \in Hands, NEW v \in Uploads PROVE ListFits(g, v)'
    BY <1>3, <2>2, UploadsAssumption DEF FilesFit, TypeOK, RowFits, RequestFits, ListFits, NothingIsLate, Uploads, Hands, Confirm, InTime
  <2> QED BY <2>1, <2>2 DEF FilesFit
<1>4. ASSUME NEW u \in Direct, Grows(u) PROVE FilesFit'
  <2>1. ASSUME NEW v \in Uploads PROVE (RowFits(v) /\ RequestFits(v))'
    BY <1>4, <2>1, UploadsAssumption DEF FilesFit, TypeOK, RowFits, RequestFits, ListFits, NothingIsLate, Uploads, Grows
  <2>2. ASSUME NEW g \in Hands, NEW v \in Uploads PROVE ListFits(g, v)'
    BY <1>4, <2>2, UploadsAssumption DEF FilesFit, TypeOK, RowFits, RequestFits, ListFits, NothingIsLate, Uploads, Hands, Grows
  <2> QED BY <2>1, <2>2 DEF FilesFit
<1>5. ASSUME NEW u \in Direct, TurnsStale(u) PROVE FilesFit'
  <2>1. ASSUME NEW v \in Uploads PROVE (RowFits(v) /\ RequestFits(v))'
    BY <1>5, <2>1, UploadsAssumption DEF FilesFit, TypeOK, RowFits, RequestFits, ListFits, NothingIsLate, Uploads, TurnsStale
  <2>2. ASSUME NEW g \in Hands, NEW v \in Uploads PROVE ListFits(g, v)'
    BY <1>5, <2>2, UploadsAssumption DEF FilesFit, TypeOK, RowFits, RequestFits, ListFits, NothingIsLate, Uploads, Hands, TurnsStale
  <2> QED BY <2>1, <2>2 DEF FilesFit
<1>6. ASSUME NEW u \in Classic, QueueUpload(u) PROVE FilesFit'
  <2>1. ASSUME NEW v \in Uploads PROVE (RowFits(v) /\ RequestFits(v))'
    BY <1>6, <2>1, UploadsAssumption DEF FilesFit, TypeOK, RowFits, RequestFits, ListFits, NothingIsLate, Uploads, QueueUpload, CreateScan
  <2>2. ASSUME NEW g \in Hands, NEW v \in Uploads PROVE ListFits(g, v)'
    BY <1>6, <2>2, UploadsAssumption DEF FilesFit, TypeOK, RowFits, RequestFits, ListFits, NothingIsLate, Uploads, Hands, QueueUpload, CreateScan
  <2> QED BY <2>1, <2>2 DEF FilesFit
<1>7. ASSUME NEW u \in Uploads, Authorise(u) PROVE FilesFit'
  <2>1. ASSUME NEW v \in Uploads PROVE (RowFits(v) /\ RequestFits(v))'
    BY <1>7, <2>1, UploadsAssumption DEF FilesFit, TypeOK, RowFits, RequestFits, ListFits, NothingIsLate, Uploads, Authorise, Web
  <2>2. ASSUME NEW g \in Hands, NEW v \in Uploads PROVE ListFits(g, v)'
    BY <1>7, <2>2, UploadsAssumption DEF FilesFit, TypeOK, RowFits, RequestFits, ListFits, NothingIsLate, Uploads, Hands, Authorise, Web
  <2> QED BY <2>1, <2>2 DEF FilesFit
<1>8. ASSUME NEW u \in Uploads, PresignFails(u) PROVE FilesFit'
  <2>1. ASSUME NEW v \in Uploads PROVE (RowFits(v) /\ RequestFits(v))'
    BY <1>8, <2>1, UploadsAssumption DEF FilesFit, TypeOK, RowFits, RequestFits, ListFits, NothingIsLate, Uploads, PresignFails, DeleteScan, Web
  <2>2. ASSUME NEW g \in Hands, NEW v \in Uploads PROVE ListFits(g, v)'
    BY <1>8, <2>2, UploadsAssumption DEF FilesFit, TypeOK, RowFits, RequestFits, ListFits, NothingIsLate, Uploads, Hands, PresignFails, DeleteScan, Web
  <2> QED BY <2>1, <2>2 DEF FilesFit
<1>9. ASSUME NEW u \in Uploads, ConfirmVerifies(u) PROVE FilesFit'
  <2>1. ASSUME NEW v \in Uploads PROVE (RowFits(v) /\ RequestFits(v))'
    BY <1>9, <2>1, UploadsAssumption DEF FilesFit, TypeOK, RowFits, RequestFits, ListFits, NothingIsLate, Uploads, ConfirmVerifies, Web, Answers
  <2>2. ASSUME NEW g \in Hands, NEW v \in Uploads PROVE ListFits(g, v)'
    BY <1>9, <2>2, UploadsAssumption DEF FilesFit, TypeOK, RowFits, RequestFits, ListFits, NothingIsLate, Uploads, Hands, ConfirmVerifies, Web, Answers
  <2> QED BY <2>1, <2>2 DEF FilesFit
<1>10. ASSUME NEW u \in Uploads, ConfirmReclaims(u) PROVE FilesFit'
  <2>1. ASSUME NEW v \in Uploads PROVE (RowFits(v) /\ RequestFits(v))'
    BY <1>10, <2>1, UploadsAssumption DEF FilesFit, TypeOK, RowFits, RequestFits, ListFits, NothingIsLate, Uploads, ConfirmReclaims, Web, DeleteObject
  <2>2. ASSUME NEW g \in Hands, NEW v \in Uploads PROVE ListFits(g, v)'
    BY <1>10, <2>2, UploadsAssumption DEF FilesFit, TypeOK, RowFits, RequestFits, ListFits, NothingIsLate, Uploads, Hands, ConfirmReclaims, Web, DeleteObject
  <2> QED BY <2>1, <2>2 DEF FilesFit
<1>11. ASSUME NEW u \in Uploads, ConfirmForgets(u) PROVE FilesFit'
  <2>1. ASSUME NEW v \in Uploads PROVE (RowFits(v) /\ RequestFits(v))'
    BY <1>11, <2>1, UploadsAssumption DEF FilesFit, TypeOK, RowFits, RequestFits, ListFits, NothingIsLate, Uploads, ConfirmForgets, Web, DeleteScan, DropPending
  <2>2. ASSUME NEW g \in Hands, NEW v \in Uploads PROVE ListFits(g, v)'
    BY <1>11, <2>2, UploadsAssumption DEF FilesFit, TypeOK, RowFits, RequestFits, ListFits, NothingIsLate, Uploads, Hands, ConfirmForgets, Web, DeleteScan, DropPending
  <2> QED BY <2>1, <2>2 DEF FilesFit
<1>12. ASSUME NEW u \in Uploads, StreamLands(u) PROVE FilesFit'
  <2>1. ASSUME NEW v \in Uploads PROVE (RowFits(v) /\ RequestFits(v))'
    BY <1>12, <2>1, UploadsAssumption DEF FilesFit, TypeOK, RowFits, RequestFits, ListFits, NothingIsLate, Uploads, StreamLands, Web
  <2>2. ASSUME NEW g \in Hands, NEW v \in Uploads PROVE ListFits(g, v)'
    BY <1>12, <2>2, UploadsAssumption DEF FilesFit, TypeOK, RowFits, RequestFits, ListFits, NothingIsLate, Uploads, Hands, StreamLands, Web
  <2> QED BY <2>1, <2>2 DEF FilesFit
<1>13. ASSUME NEW u \in Uploads, StreamFails(u) PROVE FilesFit'
  <2>1. ASSUME NEW v \in Uploads PROVE (RowFits(v) /\ RequestFits(v))'
    BY <1>13, <2>1, UploadsAssumption DEF FilesFit, TypeOK, RowFits, RequestFits, ListFits, NothingIsLate, Uploads, StreamFails, Web, DeleteScan
  <2>2. ASSUME NEW g \in Hands, NEW v \in Uploads PROVE ListFits(g, v)'
    BY <1>13, <2>2, UploadsAssumption DEF FilesFit, TypeOK, RowFits, RequestFits, ListFits, NothingIsLate, Uploads, Hands, StreamFails, Web, DeleteScan
  <2> QED BY <2>1, <2>2 DEF FilesFit
<1>14. ASSUME NEW u \in Uploads, WebSaves(u) PROVE FilesFit'
  <2>1. ASSUME NEW v \in Uploads PROVE (RowFits(v) /\ RequestFits(v))'
    BY <1>14, <2>1, UploadsAssumption DEF FilesFit, TypeOK, RowFits, RequestFits, ListFits, NothingIsLate, Uploads, WebSaves, Web, AttachFile
  <2>2. ASSUME NEW g \in Hands, NEW v \in Uploads PROVE ListFits(g, v)'
    BY <1>14, <2>2, UploadsAssumption DEF FilesFit, TypeOK, RowFits, RequestFits, ListFits, NothingIsLate, Uploads, Hands, WebSaves, Web, AttachFile
  <2> QED BY <2>1, <2>2 DEF FilesFit
<1>15. ASSUME NEW u \in Uploads, ConfirmDrops(u) PROVE FilesFit'
  <2>1. ASSUME NEW v \in Uploads PROVE (RowFits(v) /\ RequestFits(v))'
    BY <1>15, <2>1, UploadsAssumption DEF FilesFit, TypeOK, RowFits, RequestFits, ListFits, NothingIsLate, Uploads, ConfirmDrops, Web, DropPending
  <2>2. ASSUME NEW g \in Hands, NEW v \in Uploads PROVE ListFits(g, v)'
    BY <1>15, <2>2, UploadsAssumption DEF FilesFit, TypeOK, RowFits, RequestFits, ListFits, NothingIsLate, Uploads, Hands, ConfirmDrops, Web, DropPending
  <2> QED BY <2>1, <2>2 DEF FilesFit
<1>16. ASSUME NEW u \in Uploads, WebApplies(u) PROVE FilesFit'
  <2>1. ASSUME NEW v \in Uploads PROVE (RowFits(v) /\ RequestFits(v))'
    BY <1>16, <2>1, UploadsAssumption DEF FilesFit, TypeOK, RowFits, RequestFits, ListFits, NothingIsLate, Uploads, WebApplies, Web, QueueScan
  <2>2. ASSUME NEW g \in Hands, NEW v \in Uploads PROVE ListFits(g, v)'
    BY <1>16, <2>2, UploadsAssumption DEF FilesFit, TypeOK, RowFits, RequestFits, ListFits, NothingIsLate, Uploads, Hands, WebApplies, Web, QueueScan
  <2> QED BY <2>1, <2>2 DEF FilesFit
<1>17. ASSUME NEW u \in Uploads, ClaimNext(u) PROVE FilesFit'
  <2>1. ASSUME NEW v \in Uploads PROVE (RowFits(v) /\ RequestFits(v))'
    BY <1>17, <2>1, UploadsAssumption DEF FilesFit, TypeOK, RowFits, RequestFits, ListFits, NothingIsLate, Uploads, ClaimNext
  <2>2. ASSUME NEW g \in Hands, NEW v \in Uploads PROVE ListFits(g, v)'
    BY <1>17, <2>2, UploadsAssumption DEF FilesFit, TypeOK, RowFits, RequestFits, ListFits, NothingIsLate, Uploads, Hands, ClaimNext
  <2> QED BY <2>1, <2>2 DEF FilesFit
<1>18. ASSUME NEW u \in Uploads, KillRequest(u) PROVE FilesFit'
  <2>1. ASSUME NEW v \in Uploads PROVE (RowFits(v) /\ RequestFits(v))'
    BY <1>18, <2>1, UploadsAssumption DEF FilesFit, TypeOK, RowFits, RequestFits, ListFits, NothingIsLate, Uploads, KillRequest, WebIdle
  <2>2. ASSUME NEW g \in Hands, NEW v \in Uploads PROVE ListFits(g, v)'
    BY <1>18, <2>2, UploadsAssumption DEF FilesFit, TypeOK, RowFits, RequestFits, ListFits, NothingIsLate, Uploads, Hands, KillRequest, WebIdle
  <2> QED BY <2>1, <2>2 DEF FilesFit
<1>19. ASSUME NEW h \in Hands, Starts(h) PROVE FilesFit'
  <2>1. ASSUME NEW v \in Uploads PROVE (RowFits(v) /\ RequestFits(v))'
    BY <1>19, <2>1, UploadsAssumption DEF FilesFit, TypeOK, RowFits, RequestFits, ListFits, NothingIsLate, Uploads, Starts, Due
  <2>2. ASSUME NEW g \in Hands, NEW v \in Uploads PROVE ListFits(g, v)'
    BY <1>19, <2>2, UploadsAssumption DEF FilesFit, TypeOK, RowFits, RequestFits, ListFits, NothingIsLate, Uploads, Hands, Starts, Due
  <2> QED BY <2>1, <2>2 DEF FilesFit
<1>20. ASSUME NEW h \in Hands, Ends(h) PROVE FilesFit'
  <2>1. ASSUME NEW v \in Uploads PROVE (RowFits(v) /\ RequestFits(v))'
    BY <1>20, <2>1, UploadsAssumption DEF FilesFit, TypeOK, RowFits, RequestFits, ListFits, NothingIsLate, Uploads, Ends, HandIdle
  <2>2. ASSUME NEW g \in Hands, NEW v \in Uploads PROVE ListFits(g, v)'
    BY <1>20, <2>2, UploadsAssumption DEF FilesFit, TypeOK, RowFits, RequestFits, ListFits, NothingIsLate, Uploads, Hands, Ends, HandIdle
  <2> QED BY <2>1, <2>2 DEF FilesFit
<1>21. ASSUME NEW h \in Hands, KillRecovery(h) PROVE FilesFit'
  <2>1. ASSUME NEW v \in Uploads PROVE (RowFits(v) /\ RequestFits(v))'
    BY <1>21, <2>1, UploadsAssumption DEF FilesFit, TypeOK, RowFits, RequestFits, ListFits, NothingIsLate, Uploads, KillRecovery, HandIdle
  <2>2. ASSUME NEW g \in Hands, NEW v \in Uploads PROVE ListFits(g, v)'
    BY <1>21, <2>2, UploadsAssumption DEF FilesFit, TypeOK, RowFits, RequestFits, ListFits, NothingIsLate, Uploads, Hands, KillRecovery, HandIdle
  <2> QED BY <2>1, <2>2 DEF FilesFit
<1>22. ASSUME NEW h \in Hands, NEW u \in Uploads, Takes(h, u) PROVE FilesFit'
  <2>1. ASSUME NEW v \in Uploads PROVE (RowFits(v) /\ RequestFits(v))'
    BY <1>22, <2>1, UploadsAssumption DEF FilesFit, TypeOK, RowFits, RequestFits, ListFits, NothingIsLate, Uploads, Takes, Recovers, NotRecovered
  <2>2. ASSUME NEW g \in Hands, NEW v \in Uploads PROVE ListFits(g, v)'
    BY <1>22, <2>2, UploadsAssumption DEF FilesFit, TypeOK, RowFits, RequestFits, ListFits, NothingIsLate, Uploads, Hands, Takes, Recovers, NotRecovered
  <2> QED BY <2>1, <2>2 DEF FilesFit
<1>23. ASSUME NEW h \in Hands, NEW u \in Uploads, RecoveryVerifies(h, u) PROVE FilesFit'
  <2>1. ASSUME NEW v \in Uploads PROVE (RowFits(v) /\ RequestFits(v))'
    BY <1>23, <2>1 DEF FilesFit, RowFits, RequestFits, RecoveryVerifies
  <2>2. PICK valid \in Answers(u) : Hand(h, IF valid THEN "save" ELSE NotRecovered(h, u))
    BY <1>23 DEF RecoveryVerifies
  <2>3. ASSUME NEW g \in Hands, NEW v \in Uploads PROVE ListFits(g, v)'
    <3>1. g # h => hand'[g] = hand[g]
      BY <2>2 DEF Hand, TypeOK
    <3>2. h \in Commands => hand'[h].step \notin {"reclaim", "forget"}
      BY <2>2, UploadsAssumption DEF Hand, TypeOK, NotRecovered, Hands
    <3>3. hand'[h].todo = hand[h].todo /\ hand'[h].at = hand[h].at
      BY <2>2 DEF Hand, TypeOK
    <3>4. hand[h].at = {u}
      BY <1>23 DEF RecoveryVerifies, Current
    <3> QED
      BY <1>23, <3>1, <3>2, <3>3, <3>4 DEF FilesFit, ListFits, RecoveryVerifies
  <2> QED BY <2>1, <2>3 DEF FilesFit
<1>24. ASSUME NEW h \in Hands, NEW u \in Uploads, SweepReclaims(h, u) PROVE FilesFit'
  <2>1. ASSUME NEW v \in Uploads PROVE (RowFits(v) /\ RequestFits(v))'
    BY <1>24, <2>1, UploadsAssumption DEF FilesFit, TypeOK, RowFits, RequestFits, ListFits, NothingIsLate, Uploads, SweepReclaims, DeleteObject, Hand, Current
  <2>2. ASSUME NEW g \in Hands, NEW v \in Uploads PROVE ListFits(g, v)'
    BY <1>24, <2>2, UploadsAssumption DEF FilesFit, TypeOK, RowFits, RequestFits, ListFits, NothingIsLate, Uploads, Hands, SweepReclaims, DeleteObject, Hand, Current
  <2> QED BY <2>1, <2>2 DEF FilesFit
<1>25. ASSUME NEW h \in Hands, NEW u \in Uploads, SweepForgets(h, u) PROVE FilesFit'
  <2>1. ASSUME NEW v \in Uploads PROVE (RowFits(v) /\ RequestFits(v))'
    BY <1>25, <2>1, UploadsAssumption DEF FilesFit, TypeOK, RowFits, RequestFits, ListFits, NothingIsLate, Uploads, SweepForgets, DeleteScan, DropPending, Hand, Current
  <2>2. ASSUME NEW g \in Hands, NEW v \in Uploads PROVE ListFits(g, v)'
    BY <1>25, <2>2, UploadsAssumption DEF FilesFit, TypeOK, RowFits, RequestFits, ListFits, NothingIsLate, Uploads, Hands, SweepForgets, DeleteScan, DropPending, Hand, Current
  <2> QED BY <2>1, <2>2 DEF FilesFit
<1>26. ASSUME NEW h \in Hands, NEW u \in Uploads, RecoverySaves(h, u) PROVE FilesFit'
  <2>1. ASSUME NEW v \in Uploads PROVE (RowFits(v) /\ RequestFits(v))'
    BY <1>26, <2>1, UploadsAssumption DEF FilesFit, TypeOK, RowFits, RequestFits, ListFits, NothingIsLate, Uploads, RecoverySaves, AttachFile, HandIdle, Current
  <2>2. ASSUME NEW g \in Hands, NEW v \in Uploads PROVE ListFits(g, v)'
    BY <1>26, <2>2, UploadsAssumption DEF FilesFit, TypeOK, RowFits, RequestFits, ListFits, NothingIsLate, Uploads, Hands, RecoverySaves, AttachFile, HandIdle, Current
  <2> QED BY <2>1, <2>2 DEF FilesFit
<1>27. ASSUME NEW h \in Hands, NEW u \in Uploads, RecoveryApplies(h, u) PROVE FilesFit'
  <2>1. ASSUME NEW v \in Uploads PROVE (RowFits(v) /\ RequestFits(v))'
    BY <1>27, <2>1, UploadsAssumption DEF FilesFit, TypeOK, RowFits, RequestFits, ListFits, NothingIsLate, Uploads, RecoveryApplies, QueueScan, Hand, Current
  <2>2. ASSUME NEW g \in Hands, NEW v \in Uploads PROVE ListFits(g, v)'
    BY <1>27, <2>2, UploadsAssumption DEF FilesFit, TypeOK, RowFits, RequestFits, ListFits, NothingIsLate, Uploads, Hands, RecoveryApplies, QueueScan, Hand, Current
  <2> QED BY <2>1, <2>2 DEF FilesFit
<1>28. ASSUME NEW h \in Hands, NEW u \in Uploads, RecoveryDrops(h, u) PROVE FilesFit'
  <2>1. ASSUME NEW v \in Uploads PROVE (RowFits(v) /\ RequestFits(v))'
    BY <1>28, <2>1, UploadsAssumption DEF FilesFit, TypeOK, RowFits, RequestFits, ListFits, NothingIsLate, Uploads, RecoveryDrops, DropPending, Hand, Current
  <2>2. ASSUME NEW g \in Hands, NEW v \in Uploads PROVE ListFits(g, v)'
    BY <1>28, <2>2, UploadsAssumption DEF FilesFit, TypeOK, RowFits, RequestFits, ListFits, NothingIsLate, Uploads, Hands, RecoveryDrops, DropPending, Hand, Current
  <2> QED BY <2>1, <2>2 DEF FilesFit
<1> QED
  BY <1>1, <1>2, <1>3, <1>4, <1>5, <1>6, <1>7, <1>8, <1>9, <1>10, <1>11, <1>12, <1>13, <1>14, <1>15, <1>16, <1>17, <1>18, <1>19, <1>20, <1>21, <1>22, <1>23, <1>24, <1>25, <1>26, <1>27, <1>28 DEF Next, Handles, Works

LEMMA ReclaimStep ==
  ASSUME AnswersAreTrue, NothingIsLate, TypeOK, FilesFit, ReclaimsFit, Next
  PROVE  ReclaimsFit'
<1>1. ASSUME NEW u \in Direct, Presign(u) PROVE ReclaimsFit'
  BY <1>1, UploadsAssumption DEF ReclaimsFit, FilesFit, TypeOK, RowFits, RequestFits, ListFits, AnswersAreTrue, NothingIsLate, Uploads, Hands, Presign, CreateScan
<1>2. ASSUME NEW u \in Direct, Post(u) PROVE ReclaimsFit'
  BY <1>2, UploadsAssumption DEF ReclaimsFit, FilesFit, TypeOK, RowFits, RequestFits, ListFits, AnswersAreTrue, NothingIsLate, Uploads, Hands, Post, InTime
<1>3. ASSUME NEW u \in Direct, Confirm(u) PROVE ReclaimsFit'
  BY <1>3, UploadsAssumption DEF ReclaimsFit, FilesFit, TypeOK, RowFits, RequestFits, ListFits, AnswersAreTrue, NothingIsLate, Uploads, Hands, Confirm, InTime
<1>4. ASSUME NEW u \in Direct, Grows(u) PROVE ReclaimsFit'
  BY <1>4, UploadsAssumption DEF ReclaimsFit, FilesFit, TypeOK, RowFits, RequestFits, ListFits, AnswersAreTrue, NothingIsLate, Uploads, Hands, Grows
<1>5. ASSUME NEW u \in Direct, TurnsStale(u) PROVE ReclaimsFit'
  BY <1>5, UploadsAssumption DEF ReclaimsFit, FilesFit, TypeOK, RowFits, RequestFits, ListFits, AnswersAreTrue, NothingIsLate, Uploads, Hands, TurnsStale
<1>6. ASSUME NEW u \in Classic, QueueUpload(u) PROVE ReclaimsFit'
  BY <1>6, UploadsAssumption DEF ReclaimsFit, FilesFit, TypeOK, RowFits, RequestFits, ListFits, AnswersAreTrue, NothingIsLate, Uploads, Hands, QueueUpload, CreateScan
<1>7. ASSUME NEW u \in Uploads, Authorise(u) PROVE ReclaimsFit'
  BY <1>7, UploadsAssumption DEF ReclaimsFit, FilesFit, TypeOK, RowFits, RequestFits, ListFits, AnswersAreTrue, NothingIsLate, Uploads, Hands, Authorise, Web
<1>8. ASSUME NEW u \in Uploads, PresignFails(u) PROVE ReclaimsFit'
  BY <1>8, UploadsAssumption DEF ReclaimsFit, FilesFit, TypeOK, RowFits, RequestFits, ListFits, AnswersAreTrue, NothingIsLate, Uploads, Hands, PresignFails, DeleteScan, Web
<1>9. ASSUME NEW u \in Uploads, ConfirmVerifies(u) PROVE ReclaimsFit'
  BY <1>9, UploadsAssumption DEF ReclaimsFit, FilesFit, TypeOK, RowFits, RequestFits, ListFits, AnswersAreTrue, NothingIsLate, Uploads, Hands, ConfirmVerifies, Web, Answers
<1>10. ASSUME NEW u \in Uploads, ConfirmReclaims(u) PROVE ReclaimsFit'
  BY <1>10, UploadsAssumption DEF ReclaimsFit, FilesFit, TypeOK, RowFits, RequestFits, ListFits, AnswersAreTrue, NothingIsLate, Uploads, Hands, ConfirmReclaims, Web, DeleteObject
<1>11. ASSUME NEW u \in Uploads, ConfirmForgets(u) PROVE ReclaimsFit'
  BY <1>11, UploadsAssumption DEF ReclaimsFit, FilesFit, TypeOK, RowFits, RequestFits, ListFits, AnswersAreTrue, NothingIsLate, Uploads, Hands, ConfirmForgets, Web, DeleteScan, DropPending
<1>12. ASSUME NEW u \in Uploads, StreamLands(u) PROVE ReclaimsFit'
  BY <1>12, UploadsAssumption DEF ReclaimsFit, FilesFit, TypeOK, RowFits, RequestFits, ListFits, AnswersAreTrue, NothingIsLate, Uploads, Hands, StreamLands, Web
<1>13. ASSUME NEW u \in Uploads, StreamFails(u) PROVE ReclaimsFit'
  BY <1>13, UploadsAssumption DEF ReclaimsFit, FilesFit, TypeOK, RowFits, RequestFits, ListFits, AnswersAreTrue, NothingIsLate, Uploads, Hands, StreamFails, Web, DeleteScan
<1>14. ASSUME NEW u \in Uploads, WebSaves(u) PROVE ReclaimsFit'
  BY <1>14, UploadsAssumption DEF ReclaimsFit, FilesFit, TypeOK, RowFits, RequestFits, ListFits, AnswersAreTrue, NothingIsLate, Uploads, Hands, WebSaves, Web, AttachFile
<1>15. ASSUME NEW u \in Uploads, ConfirmDrops(u) PROVE ReclaimsFit'
  BY <1>15, UploadsAssumption DEF ReclaimsFit, FilesFit, TypeOK, RowFits, RequestFits, ListFits, AnswersAreTrue, NothingIsLate, Uploads, Hands, ConfirmDrops, Web, DropPending
<1>16. ASSUME NEW u \in Uploads, WebApplies(u) PROVE ReclaimsFit'
  BY <1>16, UploadsAssumption DEF ReclaimsFit, FilesFit, TypeOK, RowFits, RequestFits, ListFits, AnswersAreTrue, NothingIsLate, Uploads, Hands, WebApplies, Web, QueueScan
<1>17. ASSUME NEW u \in Uploads, ClaimNext(u) PROVE ReclaimsFit'
  BY <1>17, UploadsAssumption DEF ReclaimsFit, FilesFit, TypeOK, RowFits, RequestFits, ListFits, AnswersAreTrue, NothingIsLate, Uploads, Hands, ClaimNext
<1>18. ASSUME NEW u \in Uploads, KillRequest(u) PROVE ReclaimsFit'
  BY <1>18, UploadsAssumption DEF ReclaimsFit, FilesFit, TypeOK, RowFits, RequestFits, ListFits, AnswersAreTrue, NothingIsLate, Uploads, Hands, KillRequest, WebIdle
<1>19. ASSUME NEW h \in Hands, Starts(h) PROVE ReclaimsFit'
  BY <1>19, UploadsAssumption DEF ReclaimsFit, FilesFit, TypeOK, RowFits, RequestFits, ListFits, AnswersAreTrue, NothingIsLate, Uploads, Hands, Starts, Due
<1>20. ASSUME NEW h \in Hands, Ends(h) PROVE ReclaimsFit'
  BY <1>20, UploadsAssumption DEF ReclaimsFit, FilesFit, TypeOK, RowFits, RequestFits, ListFits, AnswersAreTrue, NothingIsLate, Uploads, Hands, Ends, HandIdle
<1>21. ASSUME NEW h \in Hands, KillRecovery(h) PROVE ReclaimsFit'
  BY <1>21, UploadsAssumption DEF ReclaimsFit, FilesFit, TypeOK, RowFits, RequestFits, ListFits, AnswersAreTrue, NothingIsLate, Uploads, Hands, KillRecovery, HandIdle
<1>22. ASSUME NEW h \in Hands, NEW u \in Uploads, Takes(h, u) PROVE ReclaimsFit'
  BY <1>22, UploadsAssumption DEF ReclaimsFit, FilesFit, TypeOK, RowFits, RequestFits, ListFits, AnswersAreTrue, NothingIsLate, Uploads, Hands, Takes, Recovers, NotRecovered
<1>23. ASSUME NEW h \in Hands, NEW u \in Uploads, RecoveryVerifies(h, u) PROVE ReclaimsFit'
  <2>1. /\ UNCHANGED <<object, web>> /\ Current(h, u)
        /\ \E valid \in Answers(u) : Hand(h, IF valid THEN "save" ELSE NotRecovered(h, u))
    BY <1>23 DEF RecoveryVerifies
  <2>2. PICK valid \in Answers(u) : Hand(h, IF valid THEN "save" ELSE NotRecovered(h, u))
    BY <2>1
  <2>3. valid <=> object[u] = "pdf"
    BY <2>2 DEF Answers, AnswersAreTrue
  <2> QED
    BY <2>1, <2>2, <2>3 DEF ReclaimsFit, TypeOK, Hands, Hand, Current, NotRecovered
<1>24. ASSUME NEW h \in Hands, NEW u \in Uploads, SweepReclaims(h, u) PROVE ReclaimsFit'
  BY <1>24, UploadsAssumption DEF ReclaimsFit, FilesFit, TypeOK, RowFits, RequestFits, ListFits, AnswersAreTrue, NothingIsLate, Uploads, Hands, SweepReclaims, DeleteObject, Hand, Current
<1>25. ASSUME NEW h \in Hands, NEW u \in Uploads, SweepForgets(h, u) PROVE ReclaimsFit'
  BY <1>25, UploadsAssumption DEF ReclaimsFit, FilesFit, TypeOK, RowFits, RequestFits, ListFits, AnswersAreTrue, NothingIsLate, Uploads, Hands, SweepForgets, DeleteScan, DropPending, Hand, Current
<1>26. ASSUME NEW h \in Hands, NEW u \in Uploads, RecoverySaves(h, u) PROVE ReclaimsFit'
  BY <1>26, UploadsAssumption DEF ReclaimsFit, FilesFit, TypeOK, RowFits, RequestFits, ListFits, AnswersAreTrue, NothingIsLate, Uploads, Hands, RecoverySaves, AttachFile, HandIdle, Current
<1>27. ASSUME NEW h \in Hands, NEW u \in Uploads, RecoveryApplies(h, u) PROVE ReclaimsFit'
  BY <1>27, UploadsAssumption DEF ReclaimsFit, FilesFit, TypeOK, RowFits, RequestFits, ListFits, AnswersAreTrue, NothingIsLate, Uploads, Hands, RecoveryApplies, QueueScan, Hand, Current
<1>28. ASSUME NEW h \in Hands, NEW u \in Uploads, RecoveryDrops(h, u) PROVE ReclaimsFit'
  BY <1>28, UploadsAssumption DEF ReclaimsFit, FilesFit, TypeOK, RowFits, RequestFits, ListFits, AnswersAreTrue, NothingIsLate, Uploads, Hands, RecoveryDrops, DropPending, Hand, Current
<1> QED
  BY <1>1, <1>2, <1>3, <1>4, <1>5, <1>6, <1>7, <1>8, <1>9, <1>10, <1>11, <1>12, <1>13, <1>14, <1>15, <1>16, <1>17, <1>18, <1>19, <1>20, <1>21, <1>22, <1>23, <1>24, <1>25, <1>26, <1>27, <1>28 DEF Next, Handles, Works

LEMMA QueueStep ==
  ASSUME NothingIsLate, NoCommand, TypeOK, FilesFit, QueueFits, Next
  PROVE  QueueFits'
<1>1. ASSUME NEW u \in Direct, Presign(u) PROVE QueueFits'
  <2>1. ASSUME NEW v \in Uploads PROVE (ScanFits(v) /\ BusyFits(v))'
    BY <1>1, <2>1, UploadsAssumption DEF QueueFits, FilesFit, TypeOK, ScanFits, BusyFits, CopyFits, RowFits, RequestFits, ListFits, NoCommand, NothingIsLate, Uploads, Hands, Presign, CreateScan, NoScan
  <2>2. ASSUME NEW g \in Hands, NEW v \in Uploads PROVE CopyFits(g, v)'
    BY <1>1, <2>2, UploadsAssumption DEF QueueFits, FilesFit, TypeOK, ScanFits, BusyFits, CopyFits, RowFits, RequestFits, ListFits, OneSweep, NoCommand, NothingIsLate, Uploads, Hands, Presign, CreateScan, NoScan
  <2>3. OneSweep'
    BY <1>1 DEF QueueFits, TypeOK, OneSweep, NoCommand, Hands, LockIsFree, Presign, CreateScan, NoScan
  <2> QED BY <2>1, <2>2, <2>3 DEF QueueFits
<1>2. ASSUME NEW u \in Direct, Post(u) PROVE QueueFits'
  <2>1. ASSUME NEW v \in Uploads PROVE (ScanFits(v) /\ BusyFits(v))'
    BY <1>2, <2>1, UploadsAssumption DEF QueueFits, FilesFit, TypeOK, ScanFits, BusyFits, CopyFits, RowFits, RequestFits, ListFits, NoCommand, NothingIsLate, Uploads, Hands, Post, InTime
  <2>2. ASSUME NEW g \in Hands, NEW v \in Uploads PROVE CopyFits(g, v)'
    BY <1>2, <2>2, UploadsAssumption DEF QueueFits, FilesFit, TypeOK, ScanFits, BusyFits, CopyFits, RowFits, RequestFits, ListFits, OneSweep, NoCommand, NothingIsLate, Uploads, Hands, Post, InTime
  <2>3. OneSweep'
    BY <1>2 DEF QueueFits, TypeOK, OneSweep, NoCommand, Hands, LockIsFree, Post, InTime
  <2> QED BY <2>1, <2>2, <2>3 DEF QueueFits
<1>3. ASSUME NEW u \in Direct, Confirm(u) PROVE QueueFits'
  <2>1. ASSUME NEW v \in Uploads PROVE (ScanFits(v) /\ BusyFits(v))'
    BY <1>3, <2>1, UploadsAssumption DEF QueueFits, FilesFit, TypeOK, ScanFits, BusyFits, CopyFits, RowFits, RequestFits, ListFits, NoCommand, NothingIsLate, Uploads, Hands, Confirm, InTime
  <2>2. ASSUME NEW g \in Hands, NEW v \in Uploads PROVE CopyFits(g, v)'
    BY <1>3, <2>2, UploadsAssumption DEF QueueFits, FilesFit, TypeOK, ScanFits, BusyFits, CopyFits, RowFits, RequestFits, ListFits, OneSweep, NoCommand, NothingIsLate, Uploads, Hands, Confirm, InTime
  <2>3. OneSweep'
    BY <1>3 DEF QueueFits, TypeOK, OneSweep, NoCommand, Hands, LockIsFree, Confirm, InTime
  <2> QED BY <2>1, <2>2, <2>3 DEF QueueFits
<1>4. ASSUME NEW u \in Direct, Grows(u) PROVE QueueFits'
  <2>1. ASSUME NEW v \in Uploads PROVE (ScanFits(v) /\ BusyFits(v))'
    BY <1>4, <2>1, UploadsAssumption DEF QueueFits, FilesFit, TypeOK, ScanFits, BusyFits, CopyFits, RowFits, RequestFits, ListFits, NoCommand, NothingIsLate, Uploads, Hands, Grows
  <2>2. ASSUME NEW g \in Hands, NEW v \in Uploads PROVE CopyFits(g, v)'
    BY <1>4, <2>2, UploadsAssumption DEF QueueFits, FilesFit, TypeOK, ScanFits, BusyFits, CopyFits, RowFits, RequestFits, ListFits, OneSweep, NoCommand, NothingIsLate, Uploads, Hands, Grows
  <2>3. OneSweep'
    BY <1>4 DEF QueueFits, TypeOK, OneSweep, NoCommand, Hands, LockIsFree, Grows
  <2> QED BY <2>1, <2>2, <2>3 DEF QueueFits
<1>5. ASSUME NEW u \in Direct, TurnsStale(u) PROVE QueueFits'
  <2>1. ASSUME NEW v \in Uploads PROVE (ScanFits(v) /\ BusyFits(v))'
    BY <1>5, <2>1, UploadsAssumption DEF QueueFits, FilesFit, TypeOK, ScanFits, BusyFits, CopyFits, RowFits, RequestFits, ListFits, NoCommand, NothingIsLate, Uploads, Hands, TurnsStale
  <2>2. ASSUME NEW g \in Hands, NEW v \in Uploads PROVE CopyFits(g, v)'
    BY <1>5, <2>2, UploadsAssumption DEF QueueFits, FilesFit, TypeOK, ScanFits, BusyFits, CopyFits, RowFits, RequestFits, ListFits, OneSweep, NoCommand, NothingIsLate, Uploads, Hands, TurnsStale
  <2>3. OneSweep'
    BY <1>5 DEF QueueFits, TypeOK, OneSweep, NoCommand, Hands, LockIsFree, TurnsStale
  <2> QED BY <2>1, <2>2, <2>3 DEF QueueFits
<1>6. ASSUME NEW u \in Classic, QueueUpload(u) PROVE QueueFits'
  <2>1. ASSUME NEW v \in Uploads PROVE (ScanFits(v) /\ BusyFits(v))'
    BY <1>6, <2>1, UploadsAssumption DEF QueueFits, FilesFit, TypeOK, ScanFits, BusyFits, CopyFits, RowFits, RequestFits, ListFits, NoCommand, NothingIsLate, Uploads, Hands, QueueUpload, CreateScan, NoScan
  <2>2. ASSUME NEW g \in Hands, NEW v \in Uploads PROVE CopyFits(g, v)'
    BY <1>6, <2>2, UploadsAssumption DEF QueueFits, FilesFit, TypeOK, ScanFits, BusyFits, CopyFits, RowFits, RequestFits, ListFits, OneSweep, NoCommand, NothingIsLate, Uploads, Hands, QueueUpload, CreateScan, NoScan
  <2>3. OneSweep'
    BY <1>6 DEF QueueFits, TypeOK, OneSweep, NoCommand, Hands, LockIsFree, QueueUpload, CreateScan, NoScan
  <2> QED BY <2>1, <2>2, <2>3 DEF QueueFits
<1>7. ASSUME NEW u \in Uploads, Authorise(u) PROVE QueueFits'
  <2>1. ASSUME NEW v \in Uploads PROVE (ScanFits(v) /\ BusyFits(v))'
    BY <1>7, <2>1, UploadsAssumption DEF QueueFits, FilesFit, TypeOK, ScanFits, BusyFits, CopyFits, RowFits, RequestFits, ListFits, NoCommand, NothingIsLate, Uploads, Hands, Authorise, Web
  <2>2. ASSUME NEW g \in Hands, NEW v \in Uploads PROVE CopyFits(g, v)'
    BY <1>7, <2>2, UploadsAssumption DEF QueueFits, FilesFit, TypeOK, ScanFits, BusyFits, CopyFits, RowFits, RequestFits, ListFits, OneSweep, NoCommand, NothingIsLate, Uploads, Hands, Authorise, Web
  <2>3. OneSweep'
    BY <1>7 DEF QueueFits, TypeOK, OneSweep, NoCommand, Hands, LockIsFree, Authorise, Web
  <2> QED BY <2>1, <2>2, <2>3 DEF QueueFits
<1>8. ASSUME NEW u \in Uploads, PresignFails(u) PROVE QueueFits'
  <2>1. ASSUME NEW v \in Uploads PROVE (ScanFits(v) /\ BusyFits(v))'
    BY <1>8, <2>1, UploadsAssumption DEF QueueFits, FilesFit, TypeOK, ScanFits, BusyFits, CopyFits, RowFits, RequestFits, ListFits, NoCommand, NothingIsLate, Uploads, Hands, PresignFails, DeleteScan, Web, NoScan
  <2>2. ASSUME NEW g \in Hands, NEW v \in Uploads PROVE CopyFits(g, v)'
    BY <1>8, <2>2, UploadsAssumption DEF QueueFits, FilesFit, TypeOK, ScanFits, BusyFits, CopyFits, RowFits, RequestFits, ListFits, OneSweep, NoCommand, NothingIsLate, Uploads, Hands, PresignFails, DeleteScan, Web, NoScan
  <2>3. OneSweep'
    BY <1>8 DEF QueueFits, TypeOK, OneSweep, NoCommand, Hands, LockIsFree, PresignFails, DeleteScan, Web, NoScan
  <2> QED BY <2>1, <2>2, <2>3 DEF QueueFits
<1>9. ASSUME NEW u \in Uploads, ConfirmVerifies(u) PROVE QueueFits'
  <2>1. ASSUME NEW v \in Uploads PROVE (ScanFits(v) /\ BusyFits(v))'
    BY <1>9, <2>1, UploadsAssumption DEF QueueFits, FilesFit, TypeOK, ScanFits, BusyFits, CopyFits, RowFits, RequestFits, ListFits, NoCommand, NothingIsLate, Uploads, Hands, ConfirmVerifies, Web, Answers
  <2>2. ASSUME NEW g \in Hands, NEW v \in Uploads PROVE CopyFits(g, v)'
    BY <1>9, <2>2, UploadsAssumption DEF QueueFits, FilesFit, TypeOK, ScanFits, BusyFits, CopyFits, RowFits, RequestFits, ListFits, OneSweep, NoCommand, NothingIsLate, Uploads, Hands, ConfirmVerifies, Web, Answers
  <2>3. OneSweep'
    BY <1>9 DEF QueueFits, TypeOK, OneSweep, NoCommand, Hands, LockIsFree, ConfirmVerifies, Web, Answers
  <2> QED BY <2>1, <2>2, <2>3 DEF QueueFits
<1>10. ASSUME NEW u \in Uploads, ConfirmReclaims(u) PROVE QueueFits'
  <2>1. ASSUME NEW v \in Uploads PROVE (ScanFits(v) /\ BusyFits(v))'
    BY <1>10, <2>1, UploadsAssumption DEF QueueFits, FilesFit, TypeOK, ScanFits, BusyFits, CopyFits, RowFits, RequestFits, ListFits, NoCommand, NothingIsLate, Uploads, Hands, ConfirmReclaims, Web, DeleteObject
  <2>2. ASSUME NEW g \in Hands, NEW v \in Uploads PROVE CopyFits(g, v)'
    BY <1>10, <2>2, UploadsAssumption DEF QueueFits, FilesFit, TypeOK, ScanFits, BusyFits, CopyFits, RowFits, RequestFits, ListFits, OneSweep, NoCommand, NothingIsLate, Uploads, Hands, ConfirmReclaims, Web, DeleteObject
  <2>3. OneSweep'
    BY <1>10 DEF QueueFits, TypeOK, OneSweep, NoCommand, Hands, LockIsFree, ConfirmReclaims, Web, DeleteObject
  <2> QED BY <2>1, <2>2, <2>3 DEF QueueFits
<1>11. ASSUME NEW u \in Uploads, ConfirmForgets(u) PROVE QueueFits'
  <2>1. ASSUME NEW v \in Uploads PROVE (ScanFits(v) /\ BusyFits(v))'
    BY <1>11, <2>1, UploadsAssumption DEF QueueFits, FilesFit, TypeOK, ScanFits, BusyFits, CopyFits, RowFits, RequestFits, ListFits, NoCommand, NothingIsLate, Uploads, Hands, ConfirmForgets, Web, DeleteScan, DropPending, NoScan
  <2>2. ASSUME NEW g \in Hands, NEW v \in Uploads PROVE CopyFits(g, v)'
    BY <1>11, <2>2, UploadsAssumption DEF QueueFits, FilesFit, TypeOK, ScanFits, BusyFits, CopyFits, RowFits, RequestFits, ListFits, OneSweep, NoCommand, NothingIsLate, Uploads, Hands, ConfirmForgets, Web, DeleteScan, DropPending, NoScan
  <2>3. OneSweep'
    BY <1>11 DEF QueueFits, TypeOK, OneSweep, NoCommand, Hands, LockIsFree, ConfirmForgets, Web, DeleteScan, DropPending, NoScan
  <2> QED BY <2>1, <2>2, <2>3 DEF QueueFits
<1>12. ASSUME NEW u \in Uploads, StreamLands(u) PROVE QueueFits'
  <2>1. ASSUME NEW v \in Uploads PROVE (ScanFits(v) /\ BusyFits(v))'
    BY <1>12, <2>1, UploadsAssumption DEF QueueFits, FilesFit, TypeOK, ScanFits, BusyFits, CopyFits, RowFits, RequestFits, ListFits, NoCommand, NothingIsLate, Uploads, Hands, StreamLands, Web
  <2>2. ASSUME NEW g \in Hands, NEW v \in Uploads PROVE CopyFits(g, v)'
    BY <1>12, <2>2, UploadsAssumption DEF QueueFits, FilesFit, TypeOK, ScanFits, BusyFits, CopyFits, RowFits, RequestFits, ListFits, OneSweep, NoCommand, NothingIsLate, Uploads, Hands, StreamLands, Web
  <2>3. OneSweep'
    BY <1>12 DEF QueueFits, TypeOK, OneSweep, NoCommand, Hands, LockIsFree, StreamLands, Web
  <2> QED BY <2>1, <2>2, <2>3 DEF QueueFits
<1>13. ASSUME NEW u \in Uploads, StreamFails(u) PROVE QueueFits'
  <2>1. ASSUME NEW v \in Uploads PROVE (ScanFits(v) /\ BusyFits(v))'
    BY <1>13, <2>1, UploadsAssumption DEF QueueFits, FilesFit, TypeOK, ScanFits, BusyFits, CopyFits, RowFits, RequestFits, ListFits, NoCommand, NothingIsLate, Uploads, Hands, StreamFails, Web, DeleteScan, NoScan
  <2>2. ASSUME NEW g \in Hands, NEW v \in Uploads PROVE CopyFits(g, v)'
    BY <1>13, <2>2, UploadsAssumption DEF QueueFits, FilesFit, TypeOK, ScanFits, BusyFits, CopyFits, RowFits, RequestFits, ListFits, OneSweep, NoCommand, NothingIsLate, Uploads, Hands, StreamFails, Web, DeleteScan, NoScan
  <2>3. OneSweep'
    BY <1>13 DEF QueueFits, TypeOK, OneSweep, NoCommand, Hands, LockIsFree, StreamFails, Web, DeleteScan, NoScan
  <2> QED BY <2>1, <2>2, <2>3 DEF QueueFits
<1>14. ASSUME NEW u \in Uploads, WebSaves(u) PROVE QueueFits'
  <2>1. ASSUME NEW v \in Uploads PROVE (ScanFits(v) /\ BusyFits(v))'
    BY <1>14, <2>1, UploadsAssumption DEF QueueFits, FilesFit, TypeOK, ScanFits, BusyFits, CopyFits, RowFits, RequestFits, ListFits, NoCommand, NothingIsLate, Uploads, Hands, WebSaves, Web, AttachFile
  <2>2. ASSUME NEW g \in Hands, NEW v \in Uploads PROVE CopyFits(g, v)'
    BY <1>14, <2>2, UploadsAssumption DEF QueueFits, FilesFit, TypeOK, ScanFits, BusyFits, CopyFits, RowFits, RequestFits, ListFits, OneSweep, NoCommand, NothingIsLate, Uploads, Hands, WebSaves, Web, AttachFile
  <2>3. OneSweep'
    BY <1>14 DEF QueueFits, TypeOK, OneSweep, NoCommand, Hands, LockIsFree, WebSaves, Web, AttachFile
  <2> QED BY <2>1, <2>2, <2>3 DEF QueueFits
<1>15. ASSUME NEW u \in Uploads, ConfirmDrops(u) PROVE QueueFits'
  <2>1. ASSUME NEW v \in Uploads PROVE (ScanFits(v) /\ BusyFits(v))'
    BY <1>15, <2>1, UploadsAssumption DEF QueueFits, FilesFit, TypeOK, ScanFits, BusyFits, CopyFits, RowFits, RequestFits, ListFits, NoCommand, NothingIsLate, Uploads, Hands, ConfirmDrops, Web, DropPending
  <2>2. ASSUME NEW g \in Hands, NEW v \in Uploads PROVE CopyFits(g, v)'
    BY <1>15, <2>2, UploadsAssumption DEF QueueFits, FilesFit, TypeOK, ScanFits, BusyFits, CopyFits, RowFits, RequestFits, ListFits, OneSweep, NoCommand, NothingIsLate, Uploads, Hands, ConfirmDrops, Web, DropPending
  <2>3. OneSweep'
    BY <1>15 DEF QueueFits, TypeOK, OneSweep, NoCommand, Hands, LockIsFree, ConfirmDrops, Web, DropPending
  <2> QED BY <2>1, <2>2, <2>3 DEF QueueFits
<1>16. ASSUME NEW u \in Uploads, WebApplies(u) PROVE QueueFits'
  <2>1. ASSUME NEW v \in Uploads PROVE (ScanFits(v) /\ BusyFits(v))'
    BY <1>16, <2>1, UploadsAssumption DEF QueueFits, FilesFit, TypeOK, ScanFits, BusyFits, CopyFits, RowFits, RequestFits, ListFits, NoCommand, NothingIsLate, Uploads, Hands, WebApplies, Web, QueueScan
  <2>2. ASSUME NEW g \in Hands, NEW v \in Uploads PROVE CopyFits(g, v)'
    BY <1>16, <2>2, UploadsAssumption DEF QueueFits, FilesFit, TypeOK, ScanFits, BusyFits, CopyFits, RowFits, RequestFits, ListFits, OneSweep, NoCommand, NothingIsLate, Uploads, Hands, WebApplies, Web, QueueScan
  <2>3. OneSweep'
    BY <1>16 DEF QueueFits, TypeOK, OneSweep, NoCommand, Hands, LockIsFree, WebApplies, Web, QueueScan
  <2> QED BY <2>1, <2>2, <2>3 DEF QueueFits
<1>17. ASSUME NEW u \in Uploads, ClaimNext(u) PROVE QueueFits'
  <2>1. ASSUME NEW v \in Uploads PROVE (ScanFits(v) /\ BusyFits(v))'
    BY <1>17, <2>1, UploadsAssumption DEF QueueFits, FilesFit, TypeOK, ScanFits, BusyFits, CopyFits, RowFits, RequestFits, ListFits, NoCommand, NothingIsLate, Uploads, Hands, ClaimNext
  <2>2. ASSUME NEW g \in Hands, NEW v \in Uploads PROVE CopyFits(g, v)'
    BY <1>17, <2>2, UploadsAssumption DEF QueueFits, FilesFit, TypeOK, ScanFits, BusyFits, CopyFits, RowFits, RequestFits, ListFits, OneSweep, NoCommand, NothingIsLate, Uploads, Hands, ClaimNext
  <2>3. OneSweep'
    BY <1>17 DEF QueueFits, TypeOK, OneSweep, NoCommand, Hands, LockIsFree, ClaimNext
  <2> QED BY <2>1, <2>2, <2>3 DEF QueueFits
<1>18. ASSUME NEW u \in Uploads, KillRequest(u) PROVE QueueFits'
  <2>1. ASSUME NEW v \in Uploads PROVE (ScanFits(v) /\ BusyFits(v))'
    BY <1>18, <2>1, UploadsAssumption DEF QueueFits, FilesFit, TypeOK, ScanFits, BusyFits, CopyFits, RowFits, RequestFits, ListFits, NoCommand, NothingIsLate, Uploads, Hands, KillRequest, WebIdle
  <2>2. ASSUME NEW g \in Hands, NEW v \in Uploads PROVE CopyFits(g, v)'
    BY <1>18, <2>2, UploadsAssumption DEF QueueFits, FilesFit, TypeOK, ScanFits, BusyFits, CopyFits, RowFits, RequestFits, ListFits, OneSweep, NoCommand, NothingIsLate, Uploads, Hands, KillRequest, WebIdle
  <2>3. OneSweep'
    BY <1>18 DEF QueueFits, TypeOK, OneSweep, NoCommand, Hands, LockIsFree, KillRequest, WebIdle
  <2> QED BY <2>1, <2>2, <2>3 DEF QueueFits
<1>19. ASSUME NEW h \in Hands, Starts(h) PROVE QueueFits'
  <2>1. ASSUME NEW v \in Uploads PROVE (ScanFits(v) /\ BusyFits(v))'
    BY <1>19, <2>1, UploadsAssumption DEF QueueFits, FilesFit, TypeOK, ScanFits, BusyFits, CopyFits, RowFits, RequestFits, ListFits, NoCommand, NothingIsLate, Uploads, Hands, Starts, Due
  <2>2. ASSUME NEW g \in Hands, NEW v \in Uploads PROVE CopyFits(g, v)'
    BY <1>19, <2>2, UploadsAssumption DEF QueueFits, FilesFit, TypeOK, ScanFits, BusyFits, CopyFits, RowFits, RequestFits, ListFits, OneSweep, NoCommand, NothingIsLate, Uploads, Hands, Starts, Due
  <2>3. OneSweep'
    BY <1>19 DEF QueueFits, TypeOK, OneSweep, NoCommand, Hands, LockIsFree, Starts, Due
  <2> QED BY <2>1, <2>2, <2>3 DEF QueueFits
<1>20. ASSUME NEW h \in Hands, Ends(h) PROVE QueueFits'
  <2>1. ASSUME NEW v \in Uploads PROVE (ScanFits(v) /\ BusyFits(v))'
    BY <1>20, <2>1, UploadsAssumption DEF QueueFits, FilesFit, TypeOK, ScanFits, BusyFits, CopyFits, RowFits, RequestFits, ListFits, NoCommand, NothingIsLate, Uploads, Hands, Ends, HandIdle
  <2>2. ASSUME NEW g \in Hands, NEW v \in Uploads PROVE CopyFits(g, v)'
    BY <1>20, <2>2, UploadsAssumption DEF QueueFits, FilesFit, TypeOK, ScanFits, BusyFits, CopyFits, RowFits, RequestFits, ListFits, OneSweep, NoCommand, NothingIsLate, Uploads, Hands, Ends, HandIdle
  <2>3. OneSweep'
    BY <1>20 DEF QueueFits, TypeOK, OneSweep, NoCommand, Hands, LockIsFree, Ends, HandIdle
  <2> QED BY <2>1, <2>2, <2>3 DEF QueueFits
<1>21. ASSUME NEW h \in Hands, KillRecovery(h) PROVE QueueFits'
  <2>1. ASSUME NEW v \in Uploads PROVE (ScanFits(v) /\ BusyFits(v))'
    BY <1>21, <2>1, UploadsAssumption DEF QueueFits, FilesFit, TypeOK, ScanFits, BusyFits, CopyFits, RowFits, RequestFits, ListFits, NoCommand, NothingIsLate, Uploads, Hands, KillRecovery, HandIdle
  <2>2. ASSUME NEW g \in Hands, NEW v \in Uploads PROVE CopyFits(g, v)'
    BY <1>21, <2>2, UploadsAssumption DEF QueueFits, FilesFit, TypeOK, ScanFits, BusyFits, CopyFits, RowFits, RequestFits, ListFits, OneSweep, NoCommand, NothingIsLate, Uploads, Hands, KillRecovery, HandIdle
  <2>3. OneSweep'
    BY <1>21 DEF QueueFits, TypeOK, OneSweep, NoCommand, Hands, LockIsFree, KillRecovery, HandIdle
  <2> QED BY <2>1, <2>2, <2>3 DEF QueueFits
<1>22. ASSUME NEW h \in Hands, NEW u \in Uploads, Takes(h, u) PROVE QueueFits'
  <2>1. ASSUME NEW v \in Uploads PROVE (ScanFits(v) /\ BusyFits(v))'
    BY <1>22, <2>1, UploadsAssumption DEF QueueFits, FilesFit, TypeOK, ScanFits, BusyFits, CopyFits, RowFits, RequestFits, ListFits, NoCommand, NothingIsLate, Uploads, Hands, Takes, Recovers, NotRecovered
  <2>2. ASSUME NEW g \in Hands, NEW v \in Uploads PROVE CopyFits(g, v)'
    BY <1>22, <2>2, UploadsAssumption DEF QueueFits, FilesFit, TypeOK, ScanFits, BusyFits, CopyFits, RowFits, RequestFits, ListFits, OneSweep, NoCommand, NothingIsLate, Uploads, Hands, Takes, Recovers, NotRecovered
  <2>3. OneSweep'
    BY <1>22 DEF QueueFits, TypeOK, OneSweep, NoCommand, Hands, LockIsFree, Takes, Recovers, NotRecovered
  <2> QED BY <2>1, <2>2, <2>3 DEF QueueFits
<1>23. ASSUME NEW h \in Hands, NEW u \in Uploads, RecoveryVerifies(h, u) PROVE QueueFits'
  <2>1. ASSUME NEW v \in Uploads PROVE (ScanFits(v) /\ BusyFits(v))'
    BY <1>23, <2>1, UploadsAssumption DEF QueueFits, FilesFit, TypeOK, ScanFits, BusyFits, CopyFits, RowFits, RequestFits, ListFits, NoCommand, NothingIsLate, Uploads, Hands, RecoveryVerifies, Answers, Hand, NotRecovered, Current
  <2>2. ASSUME NEW g \in Hands, NEW v \in Uploads PROVE CopyFits(g, v)'
    BY <1>23, <2>2, UploadsAssumption DEF QueueFits, FilesFit, TypeOK, ScanFits, BusyFits, CopyFits, RowFits, RequestFits, ListFits, OneSweep, NoCommand, NothingIsLate, Uploads, Hands, RecoveryVerifies, Answers, Hand, NotRecovered, Current
  <2>3. OneSweep'
    BY <1>23 DEF QueueFits, TypeOK, OneSweep, NoCommand, Hands, LockIsFree, RecoveryVerifies, Answers, Hand, NotRecovered, Current
  <2> QED BY <2>1, <2>2, <2>3 DEF QueueFits
<1>24. ASSUME NEW h \in Hands, NEW u \in Uploads, SweepReclaims(h, u) PROVE QueueFits'
  <2>1. ASSUME NEW v \in Uploads PROVE (ScanFits(v) /\ BusyFits(v))'
    BY <1>24, <2>1, UploadsAssumption DEF QueueFits, FilesFit, TypeOK, ScanFits, BusyFits, CopyFits, RowFits, RequestFits, ListFits, NoCommand, NothingIsLate, Uploads, Hands, SweepReclaims, DeleteObject, Hand, Current
  <2>2. ASSUME NEW g \in Hands, NEW v \in Uploads PROVE CopyFits(g, v)'
    BY <1>24, <2>2, UploadsAssumption DEF QueueFits, FilesFit, TypeOK, ScanFits, BusyFits, CopyFits, RowFits, RequestFits, ListFits, OneSweep, NoCommand, NothingIsLate, Uploads, Hands, SweepReclaims, DeleteObject, Hand, Current
  <2>3. OneSweep'
    BY <1>24 DEF QueueFits, TypeOK, OneSweep, NoCommand, Hands, LockIsFree, SweepReclaims, DeleteObject, Hand, Current
  <2> QED BY <2>1, <2>2, <2>3 DEF QueueFits
<1>25. ASSUME NEW h \in Hands, NEW u \in Uploads, SweepForgets(h, u) PROVE QueueFits'
  <2>1. ASSUME NEW v \in Uploads PROVE (ScanFits(v) /\ BusyFits(v))'
    BY <1>25, <2>1, UploadsAssumption DEF QueueFits, FilesFit, TypeOK, ScanFits, BusyFits, CopyFits, RowFits, RequestFits, ListFits, NoCommand, NothingIsLate, Uploads, Hands, SweepForgets, DeleteScan, DropPending, Hand, Current, NoScan
  <2>2. ASSUME NEW g \in Hands, NEW v \in Uploads PROVE CopyFits(g, v)'
    BY <1>25, <2>2, UploadsAssumption DEF QueueFits, FilesFit, TypeOK, ScanFits, BusyFits, CopyFits, RowFits, RequestFits, ListFits, OneSweep, NoCommand, NothingIsLate, Uploads, Hands, SweepForgets, DeleteScan, DropPending, Hand, Current, NoScan
  <2>3. OneSweep'
    BY <1>25 DEF QueueFits, TypeOK, OneSweep, NoCommand, Hands, LockIsFree, SweepForgets, DeleteScan, DropPending, Hand, Current, NoScan
  <2> QED BY <2>1, <2>2, <2>3 DEF QueueFits
<1>26. ASSUME NEW h \in Hands, NEW u \in Uploads, RecoverySaves(h, u) PROVE QueueFits'
  <2>1. ASSUME NEW v \in Uploads PROVE (ScanFits(v) /\ BusyFits(v))'
    BY <1>26, <2>1, UploadsAssumption DEF QueueFits, FilesFit, TypeOK, ScanFits, BusyFits, CopyFits, RowFits, RequestFits, ListFits, NoCommand, NothingIsLate, Uploads, Hands, RecoverySaves, AttachFile, HandIdle, Current
  <2>2. ASSUME NEW g \in Hands, NEW v \in Uploads PROVE CopyFits(g, v)'
    BY <1>26, <2>2, UploadsAssumption DEF QueueFits, FilesFit, TypeOK, ScanFits, BusyFits, CopyFits, RowFits, RequestFits, ListFits, OneSweep, NoCommand, NothingIsLate, Uploads, Hands, RecoverySaves, AttachFile, HandIdle, Current
  <2>3. OneSweep'
    BY <1>26 DEF QueueFits, TypeOK, OneSweep, NoCommand, Hands, LockIsFree, RecoverySaves, AttachFile, HandIdle, Current
  <2> QED BY <2>1, <2>2, <2>3 DEF QueueFits
<1>27. ASSUME NEW h \in Hands, NEW u \in Uploads, RecoveryApplies(h, u) PROVE QueueFits'
  <2>1. ASSUME NEW v \in Uploads PROVE (ScanFits(v) /\ BusyFits(v))'
    BY <1>27, <2>1, UploadsAssumption DEF QueueFits, FilesFit, TypeOK, ScanFits, BusyFits, CopyFits, RowFits, RequestFits, ListFits, NoCommand, NothingIsLate, Uploads, Hands, RecoveryApplies, QueueScan, Hand, Current
  <2>2. ASSUME NEW g \in Hands, NEW v \in Uploads PROVE CopyFits(g, v)'
    BY <1>27, <2>2, UploadsAssumption DEF QueueFits, FilesFit, TypeOK, ScanFits, BusyFits, CopyFits, RowFits, RequestFits, ListFits, OneSweep, NoCommand, NothingIsLate, Uploads, Hands, RecoveryApplies, QueueScan, Hand, Current
  <2>3. OneSweep'
    BY <1>27 DEF QueueFits, TypeOK, OneSweep, NoCommand, Hands, LockIsFree, RecoveryApplies, QueueScan, Hand, Current
  <2> QED BY <2>1, <2>2, <2>3 DEF QueueFits
<1>28. ASSUME NEW h \in Hands, NEW u \in Uploads, RecoveryDrops(h, u) PROVE QueueFits'
  <2>1. ASSUME NEW v \in Uploads PROVE (ScanFits(v) /\ BusyFits(v))'
    BY <1>28, <2>1, UploadsAssumption DEF QueueFits, FilesFit, TypeOK, ScanFits, BusyFits, CopyFits, RowFits, RequestFits, ListFits, NoCommand, NothingIsLate, Uploads, Hands, RecoveryDrops, DropPending, Hand, Current
  <2>2. ASSUME NEW g \in Hands, NEW v \in Uploads PROVE CopyFits(g, v)'
    BY <1>28, <2>2, UploadsAssumption DEF QueueFits, FilesFit, TypeOK, ScanFits, BusyFits, CopyFits, RowFits, RequestFits, ListFits, OneSweep, NoCommand, NothingIsLate, Uploads, Hands, RecoveryDrops, DropPending, Hand, Current
  <2>3. OneSweep'
    BY <1>28 DEF QueueFits, TypeOK, OneSweep, NoCommand, Hands, LockIsFree, RecoveryDrops, DropPending, Hand, Current
  <2> QED BY <2>1, <2>2, <2>3 DEF QueueFits
<1> QED
  BY <1>1, <1>2, <1>3, <1>4, <1>5, <1>6, <1>7, <1>8, <1>9, <1>10, <1>11, <1>12, <1>13, <1>14, <1>15, <1>16, <1>17, <1>18, <1>19, <1>20, <1>21, <1>22, <1>23, <1>24, <1>25, <1>26, <1>27, <1>28 DEF Next, Handles, Works

-----------------------------------------------------------------------------
LEMMA TypeHolds == Spec => []TypeOK
<1>1. Init => TypeOK
  BY UploadsAssumption DEF Init, TypeOK, Scan, NoScan, WebSteps, WebIdle, HandSteps, HandIdle, Uploads
<1>2. TypeOK /\ UNCHANGED vars => TypeOK'
  BY DEF TypeOK, vars
<1> QED
  BY <1>1, <1>2, TypeStep, PTL DEF Spec

\* Whatever dies, errs or comes late, every row, copy and list keeps its type.
THEOREM TypeCorrect == Spec => []TypeOK
BY TypeHolds

LEMMA FilesHold ==
  ASSUME NothingIsLate PROVE Spec => [](TypeOK /\ FilesFit)
<1>1. Init => FilesFit
  BY UploadsAssumption DEF Init, FilesFit, RowFits, RequestFits, ListFits, WebIdle, HandIdle, Uploads, Hands
<1>2. FilesFit /\ UNCHANGED vars => FilesFit'
  BY DEF FilesFit, RowFits, RequestFits, ListFits, vars
<1>3. TypeOK /\ FilesFit /\ [Next]_vars => FilesFit'
  BY <1>2, FilesStep
<1> QED
  BY <1>1, <1>3, TypeHolds, PTL DEF Spec

LEMMA ReclaimsHold ==
  ASSUME AnswersAreTrue, NothingIsLate PROVE Spec => [](TypeOK /\ FilesFit /\ ReclaimsFit)
<1>1. Init => ReclaimsFit
  BY UploadsAssumption DEF Init, ReclaimsFit, WebIdle, HandIdle, Uploads, Hands
<1>2. ReclaimsFit /\ UNCHANGED vars => ReclaimsFit'
  BY DEF ReclaimsFit, vars
<1>3. TypeOK /\ FilesFit /\ ReclaimsFit /\ [Next]_vars => ReclaimsFit'
  BY <1>2, ReclaimStep
<1> QED
  BY <1>1, <1>3, FilesHold, PTL DEF Spec

\* Only a rejected confirm and a sweep delete an object, and neither deletes one
\* that is a PDF.
LEMMA FileStays ==
  ASSUME TypeOK, FilesFit, ReclaimsFit, [Next]_vars
  PROVE  \A u \in Uploads : object[u] = "pdf" => object'[u] = "pdf"
<1> SUFFICES ASSUME NEW u \in Uploads, object[u] = "pdf" PROVE object'[u] = "pdf"
  OBVIOUS
<1>1. CASE object' = object
  BY <1>1
<1>2. ASSUME NEW v \in Direct, Post(v) PROVE object'[u] = "pdf"
  BY <1>2 DEF Post, FilesFit, RowFits, TypeOK, Uploads
<1>3. ASSUME NEW v \in Uploads, ConfirmReclaims(v) PROVE object'[u] = "pdf"
  BY <1>3 DEF ConfirmReclaims, DeleteObject, ReclaimsFit, TypeOK
<1>4. ASSUME NEW v \in Uploads, StreamLands(v) PROVE object'[u] = "pdf"
  BY <1>4 DEF StreamLands, TypeOK
<1>5. ASSUME NEW h \in Hands, NEW v \in Uploads, SweepReclaims(h, v) PROVE object'[u] = "pdf"
  BY <1>5 DEF SweepReclaims, Current, DeleteObject, ReclaimsFit, FilesFit, ListFits, TypeOK, Hands
<1>6. ASSUME NEW v \in Direct, Presign(v) \/ Confirm(v) \/ Grows(v) \/ TurnsStale(v)
      PROVE  object' = object
  BY <1>6 DEF Presign, Confirm, Grows, TurnsStale
<1>7. ASSUME NEW v \in Uploads, Handles(v)
      PROVE  object' = object \/ ConfirmReclaims(v) \/ StreamLands(v)
  BY <1>7 DEF Handles, Authorise, PresignFails, ConfirmVerifies, ConfirmForgets, StreamFails,
              WebSaves, ConfirmDrops, WebApplies
<1>8. ASSUME NEW h \in Hands, Works(h)
      PROVE  object' = object \/ \E v \in Uploads : SweepReclaims(h, v)
  BY <1>8 DEF Works, Ends, Takes, RecoveryVerifies, SweepForgets, RecoverySaves,
              RecoveryApplies, RecoveryDrops
<1>9. ASSUME NEW h \in Hands, Starts(h) \/ KillRecovery(h) PROVE object' = object
  BY <1>9 DEF Starts, KillRecovery
<1>10. ASSUME NEW v \in Uploads, QueueUpload(v) \/ ClaimNext(v) \/ KillRequest(v)
       PROVE  object' = object
  BY <1>10 DEF QueueUpload, ClaimNext, KillRequest
<1> QED
  BY <1>1, <1>2, <1>3, <1>4, <1>5, <1>6, <1>7, <1>8, <1>9, <1>10 DEF Next, Uploads, vars

\* A PDF that landed is never deleted, with any number of sweeps and commands at
\* once (GoodFileKept), if no ranged GET errs and no transfer outlives the TTL.
THEOREM FilesAreKept ==
  ASSUME AnswersAreTrue, NothingIsLate PROVE Spec => GoodFileKept
<1>1. TypeOK /\ FilesFit /\ ReclaimsFit /\ [Next]_vars =>
        [\A u \in Uploads : object[u] = "pdf" => object'[u] = "pdf"]_vars
  BY FileStays
<1> QED
  BY <1>1, ReclaimsHold, PTL DEF Spec, GoodFileKept

LEMMA QueueHolds ==
  ASSUME NothingIsLate, NoCommand
  PROVE  Spec => [](TypeOK /\ FilesFit /\ QueueFits)
<1>1. Init => QueueFits
  BY UploadsAssumption DEF Init, QueueFits, ScanFits, BusyFits, CopyFits, OneSweep, NoScan, WebIdle, HandIdle
<1>2. QueueFits /\ UNCHANGED vars => QueueFits'
  BY DEF QueueFits, ScanFits, BusyFits, CopyFits, OneSweep, vars
<1>3. TypeOK /\ FilesFit /\ QueueFits /\ [Next]_vars => QueueFits'
  BY <1>2, QueueStep
<1> QED
  BY <1>1, <1>3, FilesHold, PTL DEF Spec

\* Only the end of a request and of a recovery queue a scan, and both do it to a
\* scan that is not past the queue.
LEMMA QueuedFresh ==
  ASSUME TypeOK, QueueFits, [Next]_vars
  PROVE  \A u \in Uploads : scans[u].status = "processing" => scans'[u].status # "queued"
<1> SUFFICES ASSUME NEW u \in Uploads, scans[u].status = "processing" PROVE scans'[u].status # "queued"
  OBVIOUS
<1>1. ASSUME NEW v \in Uploads, WebApplies(v) PROVE scans'[u].status # "queued"
  BY <1>1 DEF WebApplies, QueueScan, QueueFits, BusyFits, TypeOK
<1>2. ASSUME NEW h \in Hands, NEW v \in Uploads, RecoveryApplies(h, v) PROVE scans'[u].status # "queued"
  BY <1>2 DEF RecoveryApplies, Current, QueueScan, QueueFits, CopyFits, TypeOK
<1>3. ASSUME NEW v \in Uploads, CreateScan(v) \/ DeleteScan(v) \/ AttachFile(v) \/ ClaimNext(v)
      PROVE  scans'[u].status # "queued"
  BY <1>3 DEF CreateScan, DeleteScan, AttachFile, ClaimNext, NoScan, TypeOK, Scan
<1>4. CASE UNCHANGED scans
  BY <1>4
<1>5. ASSUME NEW v \in Direct, Presign(v) \/ Post(v) \/ Confirm(v) \/ Grows(v) \/ TurnsStale(v)
      PROVE  UNCHANGED scans \/ CreateScan(v)
  BY <1>5 DEF Presign, Post, Confirm, Grows, TurnsStale
<1>6. ASSUME NEW v \in Uploads, Handles(v)
      PROVE  UNCHANGED scans \/ DeleteScan(v) \/ AttachFile(v) \/ WebApplies(v)
  BY <1>6 DEF Handles, Authorise, PresignFails, ConfirmVerifies, ConfirmReclaims, ConfirmForgets,
              StreamLands, StreamFails, WebSaves, ConfirmDrops
<1>7. ASSUME NEW h \in Hands, Works(h)
      PROVE  \/ UNCHANGED scans
             \/ \E v \in Uploads : DeleteScan(v) \/ AttachFile(v) \/ RecoveryApplies(h, v)
  BY <1>7 DEF Works, Ends, Takes, RecoveryVerifies, SweepReclaims, SweepForgets, RecoverySaves,
              RecoveryDrops
<1>8. ASSUME NEW h \in Hands, Starts(h) \/ KillRecovery(h) PROVE UNCHANGED scans
  BY <1>8 DEF Starts, KillRecovery
<1>9. ASSUME NEW v \in Uploads, QueueUpload(v) \/ KillRequest(v)
       PROVE  UNCHANGED scans \/ CreateScan(v)
  BY <1>9 DEF QueueUpload, KillRequest
<1> QED
  BY <1>1, <1>2, <1>3, <1>4, <1>5, <1>6, <1>7, <1>8, <1>9 DEF Next, Uploads, vars

\* A scan the pipeline has taken is not queued again, whatever dies, by any
\* number of copies of the sweep behind their lock (QueuedOnce).
THEOREM QueuedAtMostOnce ==
  ASSUME NothingIsLate, NoCommand PROVE Spec => QueuedOnce
<1>1. TypeOK /\ QueueFits /\ [Next]_vars =>
        [\A u \in Uploads :
           scans[u].status = "processing" => scans'[u].status # "queued"]_vars
  BY QueuedFresh
<1> QED
  BY <1>1, QueueHolds, PTL DEF Spec, QueuedOnce


-----------------------------------------------------------------------------
(* Induction, on sets: the theorems of the library take an operator.       *)

LEMMA LeastNumber ==
  ASSUME NEW T \in SUBSET Nat, T # {}
  PROVE  \E n \in T : \A m \in T : n <= m
<1> DEFINE R == OpToRel(<, Nat)
<1>1. IsWellFoundedOn(R, Nat)
  BY NatLessThanWellFounded
<1>2. \A x, y \in Nat : x < y => <<x, y>> \in R
  BY DEF OpToRel
<1> HIDE DEF R
<1>3. PICK x \in T : \A y \in T : ~(<<y, x>> \in R)
  BY <1>1, WFMin
<1>4. \A y \in T : ~(y < x)
  BY <1>2, <1>3
<1> QED
  BY <1>4

LEMMA NatInductionOnSets ==
  ASSUME NEW S \in SUBSET Nat, 0 \in S, \A n \in S : n + 1 \in S
  PROVE  S = Nat
<1> SUFFICES ASSUME Nat \ S # {} PROVE FALSE
  OBVIOUS
<1>1. PICK n \in Nat \ S : \A m \in Nat \ S : n <= m
  BY LeastNumber
<1>2. n # 0 /\ n - 1 \in Nat /\ n - 1 \in S
  BY <1>1
<1>3. (n - 1) + 1 \in S
  BY <1>2
<1> QED
  BY <1>1, <1>2, <1>3

LEMMA SeqInductionOnSets ==
  ASSUME NEW T, NEW S \in SUBSET Seq(T), <<>> \in S,
         \A s \in S, e \in T : Append(s, e) \in S
  PROVE  S = Seq(T)
<1> DEFINE N == {n \in Nat : \A s \in Seq(T) : Len(s) = n => s \in S}
<1>1. 0 \in N
  BY EmptySeq
<1>2. ASSUME NEW n \in N PROVE n + 1 \in N
  <2> SUFFICES ASSUME NEW s \in Seq(T), Len(s) = n + 1 PROVE s \in S
    OBVIOUS
  <2>1. s # <<>>
    BY EmptySeq
  <2>2. PICK r \in Seq(T), e \in T : s = Append(r, e)
    BY <2>1, SequenceEmptyOrAppend
  <2>3. Len(r) = n
    BY <2>2, AppendProperties, LenProperties
  <2> QED
    BY <2>2, <2>3
<1> HIDE DEF N
<1>3. N \in SUBSET Nat
  BY DEF N
<1>4. N = Nat
  BY <1>1, <1>2, <1>3, NatInductionOnSets
<1> QED
  BY <1>4, LenProperties DEF N
-----------------------------------------------------------------------------
(* What FlattenSeq computes.                                               *)

\* The prefixes of a flattened sequence, as FlattenSeq walks it.
IsWalk(f, ss) ==
  f = [i \in 1..Len(ss) |-> IF i = 1 THEN ss[i] ELSE f[i - 1] \o ss[i]]

LEMMA WalkAppend ==
  ASSUME NEW T, NEW ss \in Seq(Seq(T)), NEW s \in Seq(T), NEW f, IsWalk(f, ss),
         NEW n \in Nat, n = Len(ss),
         NEW g, g = [i \in 1..(n + 1) |-> IF i <= n THEN f[i]
                                         ELSE IF n = 0 THEN s ELSE f[n] \o s]
  PROVE  IsWalk(g, Append(ss, s))
<1> DEFINE tt == Append(ss, s)
<1>1. Len(tt) = n + 1 /\ (\A i \in 1..n : tt[i] = ss[i]) /\ tt[n + 1] = s
  BY AppendProperties
<1>2. \A i \in 1..n : f[i] = IF i = 1 THEN ss[i] ELSE f[i - 1] \o ss[i]
  BY DEF IsWalk
<1> HIDE DEF tt
<1>3. ASSUME NEW i \in 1..(n + 1)
      PROVE  g[i] = IF i = 1 THEN tt[i] ELSE g[i - 1] \o tt[i]
  <2>1. CASE i <= n
    <3>1. i # 1 => i - 1 \in 1..(n + 1) /\ i - 1 <= n
      BY <2>1
    <3>2. i # 1 => g[i - 1] = f[i - 1]
      BY <3>1
    <3>3. g[i] = f[i] /\ i \in 1..n
      BY <2>1
    <3> QED
      BY <1>1, <1>2, <3>2, <3>3
  <2>2. CASE i = n + 1
    <3>1. CASE n = 0
      BY <1>1, <2>2, <3>1
    <3>2. CASE n # 0
      <4>1. n \in 1..(n + 1) /\ i - 1 = n /\ i # 1 /\ ~(i <= n)
        BY <2>2, <3>2
      <4>2. g[n] = f[n] /\ g[i] = f[n] \o s
        BY <4>1, <3>2
      <4> QED
        BY <1>1, <2>2, <4>1, <4>2
    <3> QED
      BY <3>1, <3>2
  <2> QED
    BY <2>1, <2>2
<1> QED
  BY <1>1, <1>3 DEF IsWalk, tt

LEMMA WalkExists ==
  ASSUME NEW T, NEW ss \in Seq(Seq(T))
  PROVE  \E f : IsWalk(f, ss)
<1> DEFINE S == {r \in Seq(Seq(T)) : \E f : IsWalk(f, r)}
<1>1. <<>> \in S
  <2> DEFINE f == [i \in 1..0 |-> i]
  <2>1. f = [i \in 1..Len(<<>>) |-> IF i = 1 THEN <<>>[i] ELSE f[i - 1] \o <<>>[i]]
    BY EmptySeq
  <2> QED
    BY <2>1, EmptySeq DEF IsWalk
<1>2. ASSUME NEW r \in S, NEW s \in Seq(T) PROVE Append(r, s) \in S
  <2>1. PICK f : IsWalk(f, r)
    OBVIOUS
  <2> DEFINE n == Len(r)
             g == [i \in 1..(n + 1) |-> IF i <= n THEN f[i]
                                        ELSE IF n = 0 THEN s ELSE f[n] \o s]
  <2>2. IsWalk(g, Append(r, s))
    BY <2>1, WalkAppend, LenProperties
  <2> QED
    BY <2>2, AppendProperties
<1> HIDE DEF S
<1>3. S \in SUBSET Seq(Seq(T))
  BY DEF S
<1>4. S = Seq(Seq(T))
  BY <1>1, <1>2, <1>3, SeqInductionOnSets
<1> QED
  BY <1>4 DEF S

LEMMA WalkUnique ==
  ASSUME NEW ss, Len(ss) \in Nat, NEW f, NEW g, IsWalk(f, ss), IsWalk(g, ss)
  PROVE  f = g
<1> DEFINE N == {n \in Nat : n \in 1..Len(ss) => f[n] = g[n]}
<1>1. 0 \in N
  OBVIOUS
<1>2. \A i \in 1..Len(ss) : /\ f[i] = IF i = 1 THEN ss[i] ELSE f[i - 1] \o ss[i]
                            /\ g[i] = IF i = 1 THEN ss[i] ELSE g[i - 1] \o ss[i]
  BY DEF IsWalk
<1>3. ASSUME NEW n \in N PROVE n + 1 \in N
  <2> SUFFICES ASSUME n + 1 \in 1..Len(ss) PROVE f[n + 1] = g[n + 1]
    OBVIOUS
  <2>1. CASE n = 0
    BY <1>2, <2>1
  <2>2. CASE n # 0
    <3>1. n \in 1..Len(ss) /\ n + 1 # 1 /\ (n + 1) - 1 = n
      BY <2>2
    <3> QED
      BY <1>2, <3>1
  <2> QED
    BY <2>1, <2>2
<1> HIDE DEF N
<1>4. N \in SUBSET Nat
  BY DEF N
<1>5. N = Nat
  BY <1>1, <1>3, <1>4, NatInductionOnSets
<1>6. \A i \in 1..Len(ss) : f[i] = g[i]
  BY <1>5 DEF N
<1>7. f = [i \in 1..Len(ss) |-> f[i]] /\ g = [i \in 1..Len(ss) |-> g[i]]
  BY DEF IsWalk
<1> QED
  BY <1>6, <1>7

LEMMA FlattenIsWalk ==
  ASSUME NEW T, NEW ss \in Seq(Seq(T)), NEW f, IsWalk(f, ss)
  PROVE  FlattenSeq(ss) = IF Len(ss) = 0 THEN ss ELSE f[Len(ss)]
<1> DEFINE g == CHOOSE h : IsWalk(h, ss)
<1>1. IsWalk(g, ss)
  BY WalkExists
<1>2. f = g
  BY <1>1, WalkUnique, LenProperties
<1>3. FlattenSeq(ss) = IF Len(ss) = 0 THEN ss ELSE g[Len(ss)]
  BY DEF FlattenSeq, IsWalk
<1> QED
  BY <1>2, <1>3

LEMMA FlattenEmpty == FlattenSeq(<<>>) = <<>>
  BY EmptySeq DEF FlattenSeq

LEMMA FlattenAppendRaw ==
  ASSUME NEW T, NEW ss \in Seq(Seq(T)), NEW s \in Seq(T)
  PROVE  FlattenSeq(Append(ss, s)) = IF Len(ss) = 0 THEN s ELSE FlattenSeq(ss) \o s
<1>1. PICK f : IsWalk(f, ss)
  BY WalkExists
<1> DEFINE n == Len(ss)
           g == [i \in 1..(n + 1) |-> IF i <= n THEN f[i]
                                      ELSE IF n = 0 THEN s ELSE f[n] \o s]
<1>2. n \in Nat
  BY LenProperties
<1>3. IsWalk(g, Append(ss, s))
  BY <1>1, <1>2, WalkAppend
<1>4. Append(ss, s) \in Seq(Seq(T)) /\ Len(Append(ss, s)) = n + 1
  BY AppendProperties
<1>5. FlattenSeq(Append(ss, s)) = g[n + 1]
  <2> HIDE DEF g
  <2> DEFINE tt == Append(ss, s)
  <2>1. tt \in Seq(Seq(T)) /\ IsWalk(g, tt)
    BY <1>3, <1>4
  <2> HIDE DEF tt
  <2>2. FlattenSeq(tt) = IF Len(tt) = 0 THEN tt ELSE g[Len(tt)]
    BY <2>1, FlattenIsWalk
  <2> QED
    BY <1>2, <1>4, <2>2 DEF tt
<1>6. FlattenSeq(ss) = IF n = 0 THEN ss ELSE f[n]
  BY <1>1, FlattenIsWalk
<1> QED
  BY <1>2, <1>5, <1>6

LEMMA FlattenType ==
  ASSUME NEW T, NEW ss \in Seq(Seq(T))
  PROVE  FlattenSeq(ss) \in Seq(T)
<1> DEFINE S == {r \in Seq(Seq(T)) : FlattenSeq(r) \in Seq(T)}
<1>1. <<>> \in S
  BY FlattenEmpty, EmptySeq
<1>2. ASSUME NEW r \in S, NEW s \in Seq(T) PROVE Append(r, s) \in S
  <2>1. FlattenSeq(Append(r, s)) \in Seq(T)
    BY FlattenAppendRaw, ConcatProperties
  <2> QED
    BY <2>1, AppendProperties
<1> HIDE DEF S
<1>3. S \in SUBSET Seq(Seq(T))
  BY DEF S
<1>4. S = Seq(Seq(T))
  BY <1>1, <1>2, <1>3, SeqInductionOnSets
<1> QED
  BY <1>4 DEF S

\* FlattenSeq of a longer sequence is the concatenation.
LEMMA FlattenAppend ==
  ASSUME NEW T, NEW ss \in Seq(Seq(T)), NEW s \in Seq(T)
  PROVE  FlattenSeq(Append(ss, s)) = FlattenSeq(ss) \o s
<1>1. CASE Len(ss) = 0
  <2>1. ss = <<>>
    BY <1>1, EmptySeq
  <2> QED
    BY <2>1, <1>1, FlattenAppendRaw, FlattenEmpty, ConcatEmptySeq
<1> QED
  BY <1>1, FlattenAppendRaw

LEMMA FlattenConcat ==
  ASSUME NEW T, NEW ss \in Seq(Seq(T)), NEW tt \in Seq(Seq(T))
  PROVE  FlattenSeq(ss \o tt) = FlattenSeq(ss) \o FlattenSeq(tt)
<1> DEFINE S == {r \in Seq(Seq(T)) : FlattenSeq(ss \o r) = FlattenSeq(ss) \o FlattenSeq(r)}
<1>1. <<>> \in S
  BY FlattenEmpty, FlattenType, ConcatEmptySeq, EmptySeq
<1>2. ASSUME NEW r \in S, NEW s \in Seq(T) PROVE Append(r, s) \in S
  <2>1. ss \o Append(r, s) = Append(ss \o r, s)
    <3>1. Append(r, s) = r \o <<s>> /\ Append(ss \o r, s) = (ss \o r) \o <<s>>
      BY AppendIsConcat, ConcatProperties
    <3>2. <<s>> \in Seq(Seq(T))
      OBVIOUS
    <3> QED
      BY <3>1, <3>2, ConcatAssociative
  <2>2. FlattenSeq(Append(ss \o r, s)) = FlattenSeq(ss \o r) \o s
    BY FlattenAppend, ConcatProperties
  <2>3. FlattenSeq(Append(r, s)) = FlattenSeq(r) \o s
    BY FlattenAppend
  <2>4. (FlattenSeq(ss) \o FlattenSeq(r)) \o s = FlattenSeq(ss) \o (FlattenSeq(r) \o s)
    BY FlattenType, ConcatAssociative
  <2> QED
    BY <2>1, <2>2, <2>3, <2>4, AppendProperties
<1> HIDE DEF S
<1>3. S \in SUBSET Seq(Seq(T))
  BY DEF S
<1>4. S = Seq(Seq(T))
  BY <1>1, <1>2, <1>3, SeqInductionOnSets
<1> QED
  BY <1>4 DEF S

LEMMA FlattenOne ==
  ASSUME NEW T, NEW s \in Seq(T)
  PROVE  FlattenSeq(<<s>>) = s
<1>1. <<>> \in Seq(Seq(T)) /\ Append(<<>>, s) = <<s>>
  BY EmptySeq
<1>2. FlattenSeq(Append(<<>>, s)) = FlattenSeq(<<>>) \o s
  BY <1>1, FlattenAppend
<1>3. <<>> \o s = s
  BY ConcatEmptySeq
<1> QED
  BY <1>1, <1>2, <1>3, FlattenEmpty
-----------------------------------------------------------------------------
(* What InOrder computes: the members of a finite set, once each, in the   *)
(* order of a key.                                                         *)

InKeyOrder(s, S, key) ==
  /\ s \in Seq(S) /\ Range(s) = S
  /\ \A i, j \in 1..Len(s) : i < j => key[s[i]] < key[s[j]]

IsKey(key, S) ==
  /\ \A x \in S : key[x] \in Nat
  /\ \A x, y \in S : key[x] = key[y] => x = y

LEMMA SortConcat ==
  ASSUME NEW S, NEW U, NEW key, NEW q, NEW r,
         InKeyOrder(q, S, key), InKeyOrder(r, U, key),
         \A x \in S, y \in U : key[x] < key[y]
  PROVE  InKeyOrder(q \o r, S \cup U, key)
<1>1. q \in Seq(S \cup U) /\ r \in Seq(S \cup U)
  BY SeqMonotonic DEF InKeyOrder
<1>2. /\ q \o r \in Seq(S \cup U)
      /\ Len(q \o r) = Len(q) + Len(r)
      /\ \A i \in 1..(Len(q) + Len(r)) :
           (q \o r)[i] = IF i <= Len(q) THEN q[i] ELSE r[i - Len(q)]
  BY <1>1, ConcatProperties
<1>3. Range(q \o r) = S \cup U
  BY <1>1, RangeConcatenation DEF InKeyOrder
<1>4. /\ Len(q) \in Nat /\ \A i \in 1..Len(q) : q[i] \in S
      /\ Len(r) \in Nat /\ \A i \in 1..Len(r) : r[i] \in U
  BY LenProperties, ElementOfSeq DEF InKeyOrder
<1>5. ASSUME NEW i \in 1..Len(q \o r), NEW j \in 1..Len(q \o r), i < j
      PROVE  key[(q \o r)[i]] < key[(q \o r)[j]]
  <2>1. CASE j <= Len(q)
    <3>1. i \in 1..Len(q) /\ j \in 1..Len(q)
      BY <1>2, <1>4, <1>5, <2>1
    <3>2. (q \o r)[i] = q[i] /\ (q \o r)[j] = q[j]
      BY <1>2, <1>4, <3>1
    <3> QED
      BY <1>5, <3>1, <3>2 DEF InKeyOrder
  <2>2. CASE i <= Len(q) /\ ~(j <= Len(q))
    <3>1. i \in 1..Len(q) /\ j - Len(q) \in 1..Len(r)
      BY <1>2, <1>4, <2>2
    <3>2. (q \o r)[i] = q[i] /\ (q \o r)[j] = r[j - Len(q)]
      BY <1>2, <1>4, <2>2, <3>1
    <3> QED
      BY <1>4, <3>1, <3>2
  <2>3. CASE ~(i <= Len(q))
    <3>1. i - Len(q) \in 1..Len(r) /\ j - Len(q) \in 1..Len(r) /\ ~(j <= Len(q))
      BY <1>2, <1>4, <1>5, <2>3
    <3>2. (q \o r)[i] = r[i - Len(q)] /\ (q \o r)[j] = r[j - Len(q)]
      BY <1>2, <1>4, <2>3, <3>1
    <3>3. i - Len(q) < j - Len(q)
      BY <1>2, <1>4, <1>5
    <3> QED
      BY <3>1, <3>2, <3>3 DEF InKeyOrder
  <2> QED
    BY <1>2, <1>4, <2>1, <2>2, <2>3
<1> QED
  BY <1>2, <1>3, <1>5 DEF InKeyOrder

LEMMA SortEmpty ==
  ASSUME NEW key
  PROVE  InKeyOrder(<<>>, {}, key)
<1>1. <<>> \in Seq({}) /\ Len(<<>>) = 0 /\ DOMAIN <<>> = {}
  BY EmptySeq
<1>2. Range(<<>>) = {}
  BY <1>1 DEF Range
<1> QED
  BY <1>1, <1>2 DEF InKeyOrder

LEMMA SortOne ==
  ASSUME NEW x, NEW key
  PROVE  InKeyOrder(<<x>>, {x}, key)
<1>1. <<x>> \in Seq({x}) /\ Len(<<x>>) = 1 /\ <<x>>[1] = x /\ DOMAIN <<x>> = 1..1
  OBVIOUS
<1>2. Range(<<x>>) = {x}
  BY <1>1 DEF Range
<1> QED
  BY <1>1, <1>2 DEF InKeyOrder

LEMMA SortExists ==
  ASSUME NEW S, IsFiniteSet(S), NEW key, IsKey(key, S)
  PROVE  \E s : InKeyOrder(s, S, key)
<1> DEFINE N == {n \in Nat : \A U \in SUBSET S :
                   Cardinality(U) = n => \E s : InKeyOrder(s, U, key)}
<1>1. 0 \in N
  <2> SUFFICES ASSUME NEW U \in SUBSET S, Cardinality(U) = 0
               PROVE  \E s : InKeyOrder(s, U, key)
    OBVIOUS
  <2>1. U = {}
    BY FS_Subset, FS_EmptySet
  <2> QED
    BY <2>1, SortEmpty
<1>2. ASSUME NEW n \in N PROVE n + 1 \in N
  <2> SUFFICES ASSUME NEW U \in SUBSET S, Cardinality(U) = n + 1
               PROVE  \E s : InKeyOrder(s, U, key)
    OBVIOUS
  <2>1. IsFiniteSet(U) /\ U # {}
    BY FS_Subset, FS_EmptySet
  <2> DEFINE K == {key[x] : x \in U}
  <2>2. K \in SUBSET Nat /\ K # {}
    BY <2>1 DEF IsKey
  <2>3. PICK k \in K : \A m \in K : k <= m
    BY <2>2, LeastNumber
  <2>4. PICK x \in U : key[x] = k
    OBVIOUS
  <2>5. \A y \in U \ {x} : key[x] < key[y]
    <3> TAKE y \in U \ {x}
    <3>1. k <= key[y] /\ key[y] # k /\ key[y] \in Nat /\ k \in Nat
      BY <2>2, <2>3, <2>4 DEF IsKey
    <3> QED
      BY <2>4, <3>1
  <2>6. Cardinality(U \ {x}) = n
    <3>1. Cardinality(U \ {x}) = Cardinality(U) - 1
      BY <2>1, FS_RemoveElement
    <3> QED
      BY <3>1
  <2>7. PICK r : InKeyOrder(r, U \ {x}, key)
    BY <2>6
  <2>8. InKeyOrder(<<x>>, {x}, key)
    BY SortOne
  <2>9. InKeyOrder(<<x>> \o r, {x} \cup (U \ {x}), key)
    BY <2>5, <2>7, <2>8, SortConcat
  <2>10. {x} \cup (U \ {x}) = U
    OBVIOUS
  <2> QED
    BY <2>9, <2>10
<1> HIDE DEF N
<1>3. N \in SUBSET Nat
  BY DEF N
<1>4. N = Nat
  BY <1>1, <1>2, <1>3, NatInductionOnSets
<1>5. Cardinality(S) \in Nat
  BY FS_CardinalityType
<1> QED
  BY <1>4, <1>5 DEF N

LEMMA SortInjective ==
  ASSUME NEW S, NEW key, IsKey(key, S), NEW s, InKeyOrder(s, S, key)
  PROVE  /\ Len(s) \in Nat /\ s \in [1..Len(s) -> S]
         /\ \A x \in S : \E i \in 1..Len(s) : s[i] = x
         /\ \A i, j \in 1..Len(s) : s[i] = s[j] => i = j
         /\ \A i, j \in 1..Len(s) : i < j <=> key[s[i]] < key[s[j]]
<1>1. Len(s) \in Nat /\ s \in [1..Len(s) -> S] /\ DOMAIN s = 1..Len(s)
  BY LenProperties DEF InKeyOrder
<1>2. \A x \in S : \E i \in 1..Len(s) : s[i] = x
  BY <1>1 DEF InKeyOrder, Range
<1>3. \A i, j \in 1..Len(s) : i < j => key[s[i]] < key[s[j]]
  BY DEF InKeyOrder
<1>4. \A i \in 1..Len(s) : key[s[i]] \in Nat
  BY <1>1 DEF IsKey
<1>5. ASSUME NEW i \in 1..Len(s), NEW j \in 1..Len(s)
      PROVE  (s[i] = s[j] => i = j) /\ (key[s[i]] < key[s[j]] => i < j)
  <2>1. CASE i < j
    BY <1>3, <1>4, <2>1
  <2>2. CASE j < i
    BY <1>3, <1>4, <2>2
  <2>3. CASE i = j
    BY <1>4, <2>3
  <2> QED
    BY <1>1, <2>1, <2>2, <2>3
<1> QED
  BY <1>1, <1>2, <1>3, <1>5

LEMMA SortLen ==
  ASSUME NEW S, NEW key, IsKey(key, S), NEW s, InKeyOrder(s, S, key)
  PROVE  IsFiniteSet(S) /\ Len(s) = Cardinality(S)
<1>1. /\ Len(s) \in Nat /\ s \in [1..Len(s) -> S]
      /\ \A x \in S : \E i \in 1..Len(s) : s[i] = x
      /\ \A i, j \in 1..Len(s) : s[i] = s[j] => i = j
  BY SortInjective
<1>2. s \in Bijection(1..Len(s), S)
  BY <1>1 DEF Bijection, Injection, Surjection, IsInjective
<1>3. ExistsBijection(1..Len(s), S)
  BY <1>2 DEF ExistsBijection
<1> QED
  BY <1>1, <1>3, FS_CountingElements, FS_NatBijection

LEMMA SortUnique ==
  ASSUME NEW S, NEW key, IsKey(key, S),
         NEW s, InKeyOrder(s, S, key), NEW r, InKeyOrder(r, S, key)
  PROVE  s = r
<1>1. Len(s) = Len(r)
  BY SortLen
<1> DEFINE n == Len(s)
<1>2. /\ n \in Nat /\ s \in [1..n -> S] /\ r \in [1..n -> S]
      /\ \A x \in S : (\E i \in 1..n : s[i] = x) /\ (\E i \in 1..n : r[i] = x)
      /\ \A i, j \in 1..n : i < j <=> key[s[i]] < key[s[j]]
      /\ \A i, j \in 1..n : i < j <=> key[r[i]] < key[r[j]]
      /\ \A i, j \in 1..n : (s[i] = s[j] => i = j) /\ (r[i] = r[j] => i = j)
  <2>1. /\ n \in Nat /\ s \in [1..n -> S]
        /\ \A x \in S : \E i \in 1..n : s[i] = x
        /\ \A i, j \in 1..n : s[i] = s[j] => i = j
        /\ \A i, j \in 1..n : i < j <=> key[s[i]] < key[s[j]]
    BY SortInjective
  <2> DEFINE m == Len(r)
  <2>2. /\ m \in Nat /\ r \in [1..m -> S]
        /\ \A x \in S : \E i \in 1..m : r[i] = x
        /\ \A i, j \in 1..m : r[i] = r[j] => i = j
        /\ \A i, j \in 1..m : i < j <=> key[r[i]] < key[r[j]]
    BY SortInjective
  <2>3. m = n
    BY <1>1
  <2> HIDE DEF m, n
  <2> QED
    BY <2>1, <2>2, <2>3
<1>3. \A i \in 1..n : key[s[i]] \in Nat /\ key[r[i]] \in Nat
  BY <1>2 DEF IsKey
<1> HIDE DEF n
<1> DEFINE D == {i \in 1..n : s[i] # r[i]}
<1>4. D = {}
  <2> SUFFICES ASSUME D # {} PROVE FALSE
    OBVIOUS
  <2>1. D \in SUBSET Nat
    BY <1>2
  <2>2. PICK i \in D : \A j \in D : i <= j
    BY <2>1, LeastNumber
  <2>3. i \in 1..n /\ s[i] \in S /\ r[i] \in S /\ s[i] # r[i]
    BY <1>2, <2>2
  <2>4. PICK j \in 1..n : r[j] = s[i]
    BY <1>2, <2>3
  <2>5. PICK k \in 1..n : s[k] = r[i]
    BY <1>2, <2>3
  <2>6. j # i /\ k # i
    BY <2>3, <2>4, <2>5
  <2>7. ~(j < i)
    <3> SUFFICES ASSUME j < i PROVE FALSE
      OBVIOUS
    <3>1. j \notin D
      BY <1>2, <2>2, <2>3
    <3>2. s[j] = s[i]
      BY <2>4, <3>1
    <3> QED
      BY <1>2, <2>3, <2>6, <3>2
  <2>8. ~(k < i)
    <3> SUFFICES ASSUME k < i PROVE FALSE
      OBVIOUS
    <3>1. k \notin D
      BY <1>2, <2>2, <2>3
    <3>2. r[k] = r[i]
      BY <2>5, <3>1
    <3> QED
      BY <1>2, <2>3, <2>6, <3>2
  <2>9. i < j /\ i < k
    BY <1>2, <2>3, <2>6, <2>7, <2>8
  <2>10. key[r[i]] < key[r[j]] /\ key[s[i]] < key[s[k]]
    BY <1>2, <2>3, <2>9
  <2> QED
    BY <1>3, <2>3, <2>4, <2>5, <2>10
<1>5. \A i \in 1..n : s[i] = r[i]
  BY <1>4
<1> QED
  BY <1>2, <1>5

\* The function InOrder chooses exists, and any function like it is the order.
LEMMA OrderExists ==
  ASSUME NEW S, IsFiniteSet(S), NEW key, IsKey(key, S)
  PROVE  \E s \in [1..Cardinality(S) -> S] :
           \A i, j \in 1..Cardinality(S) : i < j => key[s[i]] < key[s[j]]
<1>1. PICK s : InKeyOrder(s, S, key)
  BY SortExists
<1>2. Len(s) = Cardinality(S) /\ s \in [1..Len(s) -> S]
  BY <1>1, SortLen, SortInjective
<1> QED
  BY <1>1, <1>2 DEF InKeyOrder

LEMMA OrderIsSorted ==
  ASSUME NEW S, IsFiniteSet(S), NEW key, IsKey(key, S),
         NEW s \in [1..Cardinality(S) -> S],
         \A i, j \in 1..Cardinality(S) : i < j => key[s[i]] < key[s[j]]
  PROVE  InKeyOrder(s, S, key)
<1> DEFINE n == Cardinality(S)
<1>1. n \in Nat
  BY FS_CardinalityType
<1>2. Len(s) = n /\ s \in Seq(S) /\ DOMAIN s = 1..n
  BY <1>1
<1> HIDE DEF n
<1>3. \A i, j \in 1..n : s[i] = s[j] => i = j
  <2> TAKE i, j \in 1..n
  <2>1. key[s[i]] \in Nat /\ key[s[j]] \in Nat
    BY DEF IsKey, n
  <2>2. (i < j => key[s[i]] < key[s[j]]) /\ (j < i => key[s[j]] < key[s[i]])
    BY DEF n
  <2>3. i < j \/ j < i \/ i = j
    BY <1>1
  <2> QED
    BY <2>1, <2>2, <2>3
<1>4. s \in Injection(1..n, S)
  BY <1>3 DEF Injection, IsInjective, n
<1>5. IsFiniteSet(1..n) /\ Cardinality(1..n) = n
  BY <1>1, FS_Interval
<1>6. s \in Surjection(1..n, S)
  BY <1>4, <1>5, FS_Injection DEF n
<1>7. Range(s) = S
  BY <1>2, <1>6 DEF Surjection, Range
<1> QED
  BY <1>2, <1>7 DEF InKeyOrder, n
-----------------------------------------------------------------------------
(* What the decisions of a volume are, and what is planned from them.      *)

\* What is written into a row, by kind.
RowShape(row, pk) ==
  /\ row.ordinal < pk
  /\ row.kind # "insert" => row.page \in Pages /\ row.pages = 1 /\ row.ordinal = 0
  /\ row.kind = "delete" => row.anchor = 0 /\ row.turn = 0

\* Images of a gap that stand keep the order they were uploaded in.
OrdinalsRise ==
  \A i, j \in Standing("insert") :
    i < j /\ rows[i].anchor = rows[j].anchor => rows[i].ordinal < rows[j].ordinal

\* A page has one standing row of a kind.
OneRowPerPage ==
  \A i, j \in CurrentEdits :
    /\ rows[i].kind = rows[j].kind /\ rows[i].kind # "insert"
    /\ rows[i].page = rows[j].page
    => i = j

RowsInv ==
  /\ rows \in Seq(Row) /\ Len(rows) <= MaxRows
  /\ \A pk \in DOMAIN rows : RowShape(rows[pk], pk)
  /\ OrdinalsRise
  /\ OneRowPerPage

Count == [n \in Nat |-> n]

LEMMA CountIsKey ==
  ASSUME NEW S \in SUBSET Nat
  PROVE  IsKey(Count, S)
BY DEF IsKey, Count

LEMMA AscendingSorts ==
  ASSUME NEW S \in SUBSET Nat, IsFiniteSet(S)
  PROVE  InKeyOrder(Ascending(S), S, Count)
<1> DEFINE s == Ascending(S)
           n == Cardinality(S)
           key == [m \in S |-> m]
<1>1. IsKey(Count, S)
  BY CountIsKey
<1>2. IsKey(key, S)
  BY DEF IsKey
<1>3. s \in [1..n -> S] /\ \A i, j \in 1..n : i < j => key[s[i]] < key[s[j]]
  BY <1>2, OrderExists DEF Ascending, InOrder
<1>4. \A i \in 1..n : Count[s[i]] = key[s[i]]
  BY <1>3 DEF Count
<1> HIDE DEF s, key
<1> QED
  BY <1>1, <1>3, <1>4, OrderIsSorted DEF s

LEMMA SubsetOfInterval ==
  ASSUME NEW N \in Nat, NEW S \in SUBSET (0..N)
  PROVE  IsFiniteSet(S) /\ S \in SUBSET Nat
<1>1. IsFiniteSet(0..N) /\ 0..N \subseteq Nat
  BY FS_Interval
<1>2. IsFiniteSet(S)
  BY <1>1, FS_Subset
<1> QED
  BY <1>1, <1>2

InsertsAt(a) == {pk \in Standing("insert") : rows[pk].anchor = a}

LEMMA RowFacts ==
  ASSUME RowsInv
  PROVE  /\ DOMAIN rows = 1..Len(rows) /\ Len(rows) \in Nat /\ DOMAIN rows \subseteq Pks
         /\ \A pk \in DOMAIN rows : rows[pk] \in Row
         /\ \A kind : Standing(kind) \subseteq DOMAIN rows
         /\ CurrentEdits \subseteq DOMAIN rows
<1>1. DOMAIN rows = 1..Len(rows) /\ Len(rows) \in Nat
  BY LenProperties DEF RowsInv
<1>2. \A pk \in DOMAIN rows : rows[pk] \in Row
  BY <1>1, ElementOfSeq DEF RowsInv
<1>3. DOMAIN rows \subseteq Pks
  BY <1>1, PageEditsAssumption DEF RowsInv, Pks
<1> QED
  BY <1>1, <1>2, <1>3 DEF Standing, CurrentEdits

LEMMA InsertsSorted ==
  ASSUME RowsInv, NEW a
  PROVE  InKeyOrder(Inserts(a), InsertsAt(a), Count)
<1> DEFINE S == InsertsAt(a)
           s == Inserts(a)
           n == Cardinality(S)
           ordinals == [pk \in S |-> rows[pk].ordinal]
<1>1. /\ S \in SUBSET Nat /\ IsFiniteSet(S)
      /\ \A pk \in S : rows[pk].ordinal \in Nat
  <2>1. S \in SUBSET (0..MaxRows) /\ MaxRows \in Nat
    BY RowFacts, PageEditsAssumption DEF InsertsAt, Pks
  <2>2. \A pk \in S : rows[pk] \in Row
    BY RowFacts DEF InsertsAt
  <2> HIDE DEF S
  <2> QED
    BY <2>1, <2>2, SubsetOfInterval DEF Row
<1>2. \A i, j \in S : i < j => rows[i].ordinal < rows[j].ordinal
  BY DEF RowsInv, OrdinalsRise, InsertsAt
<1>3. \A i, j \in S : rows[i].ordinal < rows[j].ordinal => i < j
  <2> TAKE i, j \in S
  <2>1. i < j \/ i = j \/ j < i
    BY <1>1
  <2> HIDE DEF S
  <2> QED
    BY <1>1, <1>2, <2>1
<1>4. \A i, j \in S : rows[i].ordinal = rows[j].ordinal => i = j
  <2> TAKE i, j \in S
  <2>1. i < j \/ i = j \/ j < i
    BY <1>1
  <2> HIDE DEF S
  <2> QED
    BY <1>1, <1>2, <2>1
<1>5. IsKey(ordinals, S)
  <2> HIDE DEF S
  <2> QED
    BY <1>1, <1>4 DEF IsKey
<1>6. s = InOrder(S, ordinals)
  BY DEF Inserts, InsertsAt
<1> HIDE DEF S, s, n
<1>7. s \in [1..n -> S] /\ \A i, j \in 1..n : i < j => rows[s[i]].ordinal < rows[s[j]].ordinal
  <2>1. s \in [1..n -> S] /\ \A i, j \in 1..n : i < j => ordinals[s[i]] < ordinals[s[j]]
    BY <1>1, <1>5, <1>6, OrderExists DEF InOrder, n
  <2>2. \A i \in 1..n : ordinals[s[i]] = rows[s[i]].ordinal
    BY <2>1
  <2> QED
    BY <2>1, <2>2
<1> HIDE DEF S, s, n, ordinals
<1>8. \A i, j \in 1..n : i < j => Count[s[i]] < Count[s[j]]
  <2> TAKE i, j \in 1..n
  <2> HAVE i < j
  <2>1. s[i] \in S /\ s[j] \in S /\ rows[s[i]].ordinal < rows[s[j]].ordinal
    BY <1>7
  <2>2. s[i] < s[j] /\ s[i] \in Nat /\ s[j] \in Nat
    BY <1>1, <1>3, <2>1
  <2> QED
    BY <2>2 DEF Count
<1>9. IsKey(Count, S)
  BY <1>1, CountIsKey
<1>10. InKeyOrder(s, S, Count)
  BY <1>1, <1>7, <1>8, <1>9, OrderIsSorted DEF n
<1> QED
  BY <1>10 DEF S, s

-----------------------------------------------------------------------------
(* The plan is made of pages of the original and pages of standing edits.  *)

Slot == [is : {"page"}, n : Pages] \cup [is : {"gap"}, n : Anchors]

\* A page a plan may hold.
Planned ==
  {s \in Source :
     \/ s.edit = 0 /\ s.turn = 0
     \/ /\ s.edit \in CurrentEdits
        /\ rows[s.edit].kind = "rotate" => s.turn = rows[s.edit].turn}

LEMMA MarkedFacts ==
  ASSUME RowsInv, NEW kind \in AllKinds \ {"insert"}
  PROVE  /\ Marked(kind) \subseteq Pages
         /\ \A p \in Marked(kind) :
              /\ At(kind, p) \in Standing(kind) /\ rows[At(kind, p)].page = p
              /\ At(kind, p) \in CurrentEdits
              /\ rows[At(kind, p)].kind = kind
<1>1. \A pk \in Standing(kind) : pk \in CurrentEdits /\ rows[pk].kind = kind /\ rows[pk].page \in Pages
  BY DEF RowsInv, RowShape, Standing, CurrentEdits
<1>2. \A p \in Marked(kind) : At(kind, p) \in Standing(kind) /\ rows[At(kind, p)].page = p
  BY DEF Marked, At
<1> QED
  BY <1>1, <1>2 DEF Marked

LEMMA MovesType ==
  ASSUME RowsInv
  PROVE  Moves \in [Marked("move") -> Anchors] /\ Marked("move") \subseteq Pages
<1>1. \A p \in Marked("move") : At("move", p) \in DOMAIN rows
  BY MarkedFacts, RowFacts DEF AllKinds
<1>2. \A p \in Marked("move") : rows[At("move", p)].anchor \in Anchors
  BY <1>1, RowFacts DEF Row
<1> QED
  BY <1>2, MarkedFacts DEF Moves, AllKinds

LandingOn(a) == {p \in DOMAIN Moves : Moves[p] = a}
Landing(a)   == Ascending(LandingOn(a))

LEMMA LandingSorted ==
  ASSUME RowsInv, NEW a
  PROVE  InKeyOrder(Landing(a), LandingOn(a), Count) /\ LandingOn(a) \subseteq Pages
<1>1. LandingOn(a) \in SUBSET (0..PageCount) /\ LandingOn(a) \subseteq Pages /\ PageCount \in Nat
  BY MovesType, PageEditsAssumption DEF LandingOn, Pages
<1>2. IsFiniteSet(LandingOn(a)) /\ LandingOn(a) \in SUBSET Nat
  BY <1>1, SubsetOfInterval
<1> QED
  BY <1>1, <1>2, AscendingSorts DEF Landing

LEMMA GapIs ==
  ASSUME NEW a
  PROVE  Gap(a) = [i \in DOMAIN Landing(a) |-> PageSlot(Landing(a)[i])] \o <<GapSlot(a)>>
BY DEF Gap, Landing, LandingOn

LEMMA LandingSlotsType ==
  ASSUME RowsInv, NEW a
  PROVE  [i \in DOMAIN Landing(a) |-> PageSlot(Landing(a)[i])] \in Seq(Slot)
<1> DEFINE s == Landing(a)
<1>1. s \in Seq(Pages)
  BY LandingSorted, SeqMonotonic DEF InKeyOrder
<1> HIDE DEF s
<1>2. DOMAIN s = 1..Len(s) /\ Len(s) \in Nat /\ \A i \in 1..Len(s) : s[i] \in Pages
  BY <1>1, LenProperties, ElementOfSeq
<1>3. \A i \in 1..Len(s) : PageSlot(s[i]) \in Slot
  BY <1>2 DEF PageSlot, Slot
<1> QED
  BY <1>2, <1>3 DEF s

LEMMA GapType ==
  ASSUME RowsInv, NEW a \in Anchors
  PROVE  Gap(a) \in Seq(Slot)
<1>1. <<GapSlot(a)>> \in Seq(Slot)
  <2>1. GapSlot(a) \in Slot
    BY DEF GapSlot, Slot
  <2> QED
    BY <2>1
<1> QED
  BY <1>1, GapIs, LandingSlotsType, ConcatProperties

\* The slots of page p.
Block(p) == (IF p \in DOMAIN Moves THEN <<>> ELSE <<PageSlot(p)>>) \o Gap(p)

LEMMA BlockType ==
  ASSUME RowsInv, NEW p \in Pages
  PROVE  Block(p) \in Seq(Slot)
<1>1. p \in Anchors
  BY PageEditsAssumption DEF Pages, Anchors
<1>2. (IF p \in DOMAIN Moves THEN <<>> ELSE <<PageSlot(p)>>) \in Seq(Slot)
  <2>1. PageSlot(p) \in Slot
    BY DEF PageSlot, Slot
  <2> QED
    BY <2>1, EmptySeq
<1> QED
  BY <1>1, <1>2, GapType, ConcatProperties DEF Block

\* The slots up to page n: the whole volume has no anchor past its end.
Upto(n) == Gap(0) \o FlattenSeq([p \in 1..n |-> Block(p)])

LEMMA UptoType ==
  ASSUME RowsInv, NEW n \in 0..PageCount
  PROVE  /\ [p \in 1..n |-> Block(p)] \in Seq(Seq(Slot))
         /\ Upto(n) \in Seq(Slot)
<1>1. n \in Nat /\ 1..n \subseteq Pages /\ 0 \in Anchors
  BY PageEditsAssumption DEF Pages, Anchors
<1>2. \A p \in 1..n : Block(p) \in Seq(Slot)
  BY <1>1, BlockType
<1>3. [p \in 1..n |-> Block(p)] \in Seq(Seq(Slot))
  BY <1>1, <1>2
<1>4. FlattenSeq([p \in 1..n |-> Block(p)]) \in Seq(Slot)
  BY <1>3, FlattenType
<1> QED
  BY <1>1, <1>3, <1>4, GapType, ConcatProperties DEF Upto

LEMMA SlotOrderIsUpto ==
  ASSUME RowsInv, NEW anchors \in SUBSET Anchors
  PROVE  SlotOrder(PageCount, anchors) = Upto(PageCount)
<1> DEFINE beyond == {a \in Range(Moves) \cup anchors : a > PageCount}
           past == Ascending(beyond)
<1>1. PageCount \in Nat /\ PageCount \in 0..PageCount
  BY PageEditsAssumption
<1>2. beyond = {}
  <2>1. Range(Moves) \subseteq Anchors
    BY MovesType DEF Range
  <2>2. \A a \in Anchors : ~(a > PageCount)
    BY <1>1 DEF Anchors
  <2> QED
    BY <2>1, <2>2
<1>3. past = <<>>
  <2>1. InKeyOrder(past, {}, Count)
    BY <1>2, AscendingSorts, FS_EmptySet
  <2>2. InKeyOrder(<<>>, {}, Count) /\ IsKey(Count, {})
    BY SortEmpty, CountIsKey
  <2> QED
    BY <2>1, <2>2, SortUnique
<1>4. [i \in DOMAIN past |-> Gap(past[i])] = <<>>
  <2> DEFINE g == [i \in DOMAIN past |-> Gap(past[i])]
  <2>1. DOMAIN past = 1..0
    BY <1>3
  <2>2. g \in Seq({}) /\ Len(g) = 0
    BY <2>1
  <2> HIDE DEF g
  <2>3. g = <<>>
    BY <2>2, EmptySeq
  <2> QED
    BY <2>3 DEF g
<1>5. FlattenSeq([i \in DOMAIN past |-> Gap(past[i])]) = <<>>
  BY <1>4, FlattenEmpty
<1>6. SlotOrder(PageCount, anchors)
        = Gap(0) \o FlattenSeq([p \in 1..PageCount |-> Block(p)])
          \o FlattenSeq([i \in DOMAIN past |-> Gap(past[i])])
  BY DEF SlotOrder, Block
<1> QED
  BY <1>1, <1>5, <1>6, UptoType, ConcatEmptySeq DEF Upto

LEMMA UploadType ==
  ASSUME RowsInv, NEW pk \in CurrentEdits, rows[pk].kind # "rotate"
  PROVE  Upload(pk) \in Seq(Planned)
<1>1. pk \in DOMAIN rows /\ pk \in 0..MaxRows /\ rows[pk].pages \in Nat
  <2>1. pk \in DOMAIN rows /\ pk \in Pks /\ rows[pk] \in Row
    BY RowFacts
  <2>2. rows[pk].pages \in UploadPages \cup {1}
    BY <2>1 DEF Row
  <2>3. UploadPages \cup {1} \subseteq Nat /\ Pks \subseteq 0..MaxRows
    BY PageEditsAssumption DEF Pks
  <2> QED
    BY <2>1, <2>2, <2>3
<1>2. \A k \in 1..rows[pk].pages : [edit |-> pk, page |-> k - 1, turn |-> 0] \in Planned
  BY <1>1 DEF Planned, Source
<1> QED
  BY <1>1, <1>2 DEF Upload

LEMMA EmitSlotType ==
  ASSUME RowsInv, NEW p \in Pages
  PROVE  EmitSlot(p) \in Seq(Planned)
<1>1. CASE p \in Marked("delete")
  BY <1>1, EmptySeq DEF EmitSlot
<1>2. CASE p \notin Marked("delete") /\ p \in Marked("replace")
  <2>1. At("replace", p) \in CurrentEdits /\ rows[At("replace", p)].kind # "rotate"
    BY <1>2, MarkedFacts DEF AllKinds
  <2> QED
    BY <1>2, <2>1, UploadType DEF EmitSlot
<1>3. CASE p \notin Marked("delete") /\ p \notin Marked("replace") /\ p \in Marked("rotate")
  <2> DEFINE pk == At("rotate", p)
  <2>1. pk \in CurrentEdits /\ rows[pk].kind = "rotate"
    BY <1>3, MarkedFacts DEF AllKinds
  <2>2. pk \in 0..MaxRows /\ rows[pk].turn \in Turns \cup {0}
    BY <2>1, RowFacts, PageEditsAssumption DEF Row, Pks
  <2>3. Turned(p) = [edit |-> pk, page |-> 0, turn |-> rows[pk].turn]
    BY DEF Turned
  <2>4. Turned(p) \in Planned
    <3> HIDE DEF pk
    <3> QED
      BY <2>1, <2>2, <2>3 DEF Planned, Source
  <2> QED
    BY <1>3, <2>4 DEF EmitSlot
<1>4. CASE p \notin Marked("delete") /\ p \notin Marked("replace") /\ p \notin Marked("rotate")
  <2>1. Original(p) \in Planned
    BY PageEditsAssumption DEF Original, Planned, Source, Pages
  <2> QED
    BY <1>4, <2>1 DEF EmitSlot
<1> QED
  BY <1>1, <1>2, <1>3, <1>4

\* The uploads of a gap, one after the other.
GapUploads(a) == [i \in DOMAIN Inserts(a) |-> Upload(Inserts(a)[i])]

LEMMA InsertFacts ==
  ASSUME RowsInv, NEW a
  PROVE  /\ Inserts(a) \in Seq(InsertsAt(a)) /\ Len(Inserts(a)) \in Nat
         /\ DOMAIN Inserts(a) = 1..Len(Inserts(a))
         /\ \A i \in DOMAIN Inserts(a) :
              /\ Inserts(a)[i] \in Standing("insert") /\ Inserts(a)[i] \in CurrentEdits
              /\ rows[Inserts(a)[i]].kind = "insert" /\ rows[Inserts(a)[i]].anchor = a
<1> DEFINE s == Inserts(a)
<1>1. s \in Seq(InsertsAt(a))
  BY InsertsSorted DEF InKeyOrder
<1> HIDE DEF s
<1>2. DOMAIN s = 1..Len(s) /\ Len(s) \in Nat /\ \A i \in 1..Len(s) : s[i] \in InsertsAt(a)
  BY <1>1, LenProperties, ElementOfSeq
<1>3. \A pk \in InsertsAt(a) : /\ pk \in Standing("insert") /\ pk \in CurrentEdits
                               /\ rows[pk].kind = "insert" /\ rows[pk].anchor = a
  BY DEF InsertsAt, Standing, CurrentEdits
<1> QED
  BY <1>1, <1>2, <1>3 DEF s

LEMMA GapUploadsType ==
  ASSUME RowsInv, NEW a
  PROVE  GapUploads(a) \in Seq(Seq(Planned))
<1>1. \A i \in DOMAIN Inserts(a) : Upload(Inserts(a)[i]) \in Seq(Planned)
  BY InsertFacts, UploadType
<1> QED
  BY <1>1, InsertFacts DEF GapUploads

LEMMA EmitType ==
  ASSUME RowsInv, NEW slot \in Slot
  PROVE  Emit(slot) \in Seq(Planned)
<1>1. CASE slot.is = "page"
  <2>1. slot.n \in Pages
    BY <1>1 DEF Slot
  <2> QED
    BY <1>1, <2>1, EmitSlotType DEF Emit
<1>2. CASE slot.is # "page"
  <2>1. Emit(slot) = FlattenSeq(GapUploads(slot.n))
    BY <1>2 DEF Emit, GapUploads
  <2> QED
    BY <2>1, GapUploadsType, FlattenType
<1> QED
  BY <1>1, <1>2

\* What the slots of a volume hold, slot by slot.
Emitted(slots) == [i \in DOMAIN slots |-> Emit(slots[i])]

LEMMA EmittedType ==
  ASSUME RowsInv, NEW slots \in Seq(Slot)
  PROVE  Emitted(slots) \in Seq(Seq(Planned)) /\ FlattenSeq(Emitted(slots)) \in Seq(Planned)
<1>1. /\ DOMAIN slots = 1..Len(slots) /\ Len(slots) \in Nat
      /\ \A i \in 1..Len(slots) : slots[i] \in Slot
  BY LenProperties, ElementOfSeq
<1>2. \A i \in 1..Len(slots) : Emit(slots[i]) \in Seq(Planned)
  BY <1>1, EmitType
<1>3. Emitted(slots) \in Seq(Seq(Planned))
  BY <1>1, <1>2 DEF Emitted
<1> QED
  BY <1>3, FlattenType

InsertAnchors == {rows[pk].anchor : pk \in Standing("insert")}

LEMMA PlanIsEmitted ==
  ASSUME RowsInv
  PROVE  /\ Plan = FlattenSeq(Emitted(Upto(PageCount)))
         /\ Plan \in Seq(Planned)
<1>1. InsertAnchors \in SUBSET Anchors
  BY RowFacts DEF InsertAnchors, Row
<1>2. SlotOrder(PageCount, InsertAnchors) = Upto(PageCount)
  BY <1>1, SlotOrderIsUpto
<1>3. Plan = FlattenSeq(Emitted(SlotOrder(PageCount, InsertAnchors)))
  BY DEF Plan, Emitted, InsertAnchors
<1>4. Upto(PageCount) \in Seq(Slot)
  BY UptoType, PageEditsAssumption
<1> QED
  BY <1>2, <1>3, <1>4, EmittedType
-----------------------------------------------------------------------------
(* What a write does to the rows.                                          *)

\* A row no request rewrites: it was built, or it was withdrawn.
Settled(pk) == rows[pk].run # NoRun \/ ~rows[pk].stands

RowsKept ==
  /\ DOMAIN rows \subseteq DOMAIN rows'
  /\ \A pk \in DOMAIN rows :
       /\ rows'[pk].kind = rows[pk].kind /\ rows'[pk].page = rows[pk].page
       /\ Settled(pk) => Settled(pk)' /\ rows'[pk].turn = rows[pk].turn

TurnsKept ==
  \A pk \in DOMAIN rows : rows[pk].kind = "rotate" => rows'[pk].turn = rows[pk].turn

\* What the rows of next are, one by one, when next withdraws some of them, and
\* stamps some of them.
SameBut(next, pk) ==
  /\ next[pk].kind = rows[pk].kind /\ next[pk].page = rows[pk].page
  /\ next[pk].anchor = rows[pk].anchor /\ next[pk].ordinal = rows[pk].ordinal
  /\ next[pk].turn = rows[pk].turn /\ next[pk].pages = rows[pk].pages
  /\ next[pk].stands => rows[pk].stands
  /\ rows[pk].run # NoRun => next[pk].run # NoRun

LEMMA WithdrawnIs ==
  ASSUME RowsInv, NEW S
  PROVE  /\ Withdrawn(S) \in Seq(Row) /\ Len(Withdrawn(S)) = Len(rows)
         /\ \A pk \in DOMAIN rows :
              /\ Withdrawn(S)[pk] = IF pk \in S THEN [rows[pk] EXCEPT !.stands = FALSE]
                                    ELSE rows[pk]
              /\ SameBut(Withdrawn(S), pk)
<1> DEFINE next == Withdrawn(S)
<1>1. DOMAIN rows = 1..Len(rows) /\ Len(rows) \in Nat /\ \A pk \in DOMAIN rows : rows[pk] \in Row
  BY RowFacts
<1>2. next = [pk \in 1..Len(rows) |->
                IF pk \in S THEN [rows[pk] EXCEPT !.stands = FALSE] ELSE rows[pk]]
  BY <1>1 DEF Withdrawn
<1>3. \A pk \in 1..Len(rows) : next[pk] \in Row /\ SameBut(next, pk)
  <2> TAKE pk \in 1..Len(rows)
  <2>1. rows[pk] \in Row
    BY <1>1
  <2>2. next[pk] = IF pk \in S THEN [rows[pk] EXCEPT !.stands = FALSE] ELSE rows[pk]
    BY <1>2
  <2> HIDE DEF next
  <2> QED
    BY <2>1, <2>2 DEF Row, SameBut
<1>4. next \in [1..Len(rows) -> Row]
  BY <1>2, <1>3
<1>5. next \in Seq(Row) /\ Len(next) = Len(rows)
  BY <1>1, <1>4
<1> QED
  BY <1>1, <1>2, <1>3, <1>5

LEMMA ThinnedKeeps ==
  ASSUME RowsInv, rows' \in Seq(Row), Len(rows') = Len(rows),
         \A pk \in DOMAIN rows : SameBut(rows', pk)
  PROVE  RowsInv' /\ RowsKept /\ TurnsKept
<1>1. DOMAIN rows = 1..Len(rows) /\ DOMAIN rows' = DOMAIN rows
  BY RowFacts, LenProperties
<1>2. \A pk \in DOMAIN rows' : RowShape(rows'[pk], pk)
  BY <1>1 DEF RowsInv, RowShape, SameBut
<1>3. \A kind : Standing(kind)' \subseteq Standing(kind)
  BY <1>1 DEF Standing, SameBut
<1>4. CurrentEdits' \subseteq CurrentEdits
  BY <1>1 DEF CurrentEdits, SameBut
<1>5. OrdinalsRise'
  <2> SUFFICES ASSUME NEW i \in Standing("insert")', NEW j \in Standing("insert")',
                      i < j, rows'[i].anchor = rows'[j].anchor
               PROVE  rows'[i].ordinal < rows'[j].ordinal
    BY DEF OrdinalsRise
  <2>1. i \in Standing("insert") /\ j \in Standing("insert")
    BY <1>3
  <2>2. i \in DOMAIN rows /\ j \in DOMAIN rows
    BY <2>1 DEF Standing
  <2> QED
    BY <2>1, <2>2 DEF RowsInv, OrdinalsRise, SameBut
<1>6. OneRowPerPage'
  <2> SUFFICES ASSUME NEW i \in CurrentEdits', NEW j \in CurrentEdits',
                      rows'[i].kind = rows'[j].kind, rows'[i].kind # "insert",
                      rows'[i].page = rows'[j].page
               PROVE  i = j
    BY DEF OneRowPerPage
  <2>1. i \in CurrentEdits /\ j \in CurrentEdits
    BY <1>4
  <2>2. i \in DOMAIN rows /\ j \in DOMAIN rows
    BY <2>1 DEF CurrentEdits
  <2> QED
    BY <2>1, <2>2 DEF RowsInv, OneRowPerPage, SameBut
<1>7. RowsInv'
  BY <1>2, <1>5, <1>6 DEF RowsInv
<1>8. RowsKept /\ TurnsKept
  <2>1. \A pk \in DOMAIN rows : Settled(pk) => Settled(pk)'
    BY DEF Settled, SameBut
  <2> QED
    BY <1>1, <2>1 DEF RowsKept, TurnsKept, SameBut
<1> QED
  BY <1>7, <1>8

LEMMA WithdrawKeeps ==
  ASSUME RowsInv, NEW S, rows' = Withdrawn(S)
  PROVE  RowsInv' /\ RowsKept /\ TurnsKept
BY WithdrawnIs, ThinnedKeeps

LEMMA NextIndex ==
  ASSUME NEW n \in Nat
  PROVE  \A i \in 1..(n + 1) : i \in 1..n \/ i = n + 1
OBVIOUS

LEMMA AppendKeeps ==
  ASSUME RowsInv, NEW S, NEW row \in Row, row.stands, RowShape(row, Len(rows) + 1),
         rows' = Append(Withdrawn(S), row), Len(rows') <= MaxRows,
         row.kind # "insert" => StandingAt(row.kind, row.page) \subseteq S,
         row.kind = "insert" => \A i \in InsertsAt(row.anchor) : rows[i].ordinal < row.ordinal
  PROVE  RowsInv' /\ RowsKept /\ TurnsKept
<1> DEFINE n == Len(rows)
<1>1. DOMAIN rows = 1..n /\ n \in Nat
  BY RowFacts
<1>2. /\ rows' \in Seq(Row) /\ Len(rows') = n + 1 /\ rows'[n + 1] = row
      /\ \A pk \in 1..n : rows'[pk] = Withdrawn(S)[pk]
  BY <1>1, WithdrawnIs, AppendProperties
<1>3. DOMAIN rows' = 1..(n + 1)
  BY <1>2, LenProperties
<1>4. \A pk \in 1..n : /\ SameBut(rows', pk)
                       /\ rows'[pk].stands <=> rows[pk].stands /\ pk \notin S
  <2> TAKE pk \in 1..n
  <2>1. pk \in DOMAIN rows /\ rows[pk] \in Row
    BY <1>1, RowFacts
  <2>2. /\ rows'[pk] = IF pk \in S THEN [rows[pk] EXCEPT !.stands = FALSE] ELSE rows[pk]
        /\ SameBut(Withdrawn(S), pk)
    BY <1>2, <2>1, WithdrawnIs
  <2>3. SameBut(rows', pk)
    BY <1>2, <2>2 DEF SameBut
  <2> QED
    BY <2>1, <2>2, <2>3 DEF Row
<1>a. \A i \in 1..(n + 1) : i \in 1..n \/ i = n + 1
  BY <1>1, NextIndex
<1> HIDE DEF n
<1>5. \A pk \in DOMAIN rows' : RowShape(rows'[pk], pk)
  <2> SUFFICES ASSUME NEW pk \in 1..(n + 1) PROVE RowShape(rows'[pk], pk)
    BY <1>3
  <2>1. CASE pk = n + 1
    BY <1>2, <2>1 DEF n
  <2>2. CASE pk \in 1..n
    <3>1. RowShape(rows[pk], pk) /\ SameBut(rows', pk)
      BY <1>1, <1>4, <2>2 DEF RowsInv
    <3> QED
      BY <3>1 DEF RowShape, SameBut
  <2> QED
    BY <1>a, <2>1, <2>2
<1>6. OrdinalsRise'
  <2> SUFFICES ASSUME NEW i \in Standing("insert")', NEW j \in Standing("insert")',
                      i < j, rows'[i].anchor = rows'[j].anchor
               PROVE  rows'[i].ordinal < rows'[j].ordinal
    BY DEF OrdinalsRise
  <2>1. /\ i \in 1..(n + 1) /\ j \in 1..(n + 1)
        /\ rows'[i].kind = "insert" /\ rows'[j].kind = "insert"
        /\ rows'[i].stands /\ rows'[j].stands
    BY <1>3 DEF Standing
  <2>2. i \in 1..n
    BY <1>1, <2>1
  <2>3. i \in Standing("insert") /\ rows'[i].anchor = rows[i].anchor
        /\ rows'[i].ordinal = rows[i].ordinal
    BY <1>1, <1>4, <2>1, <2>2 DEF Standing, SameBut
  <2>4. CASE j = n + 1
    <3>1. row.kind = "insert" /\ i \in InsertsAt(row.anchor)
      BY <1>2, <2>1, <2>3, <2>4 DEF InsertsAt
    <3> QED
      BY <1>2, <2>3, <2>4, <3>1
  <2>5. CASE j \in 1..n
    <3>1. j \in Standing("insert") /\ rows'[j].anchor = rows[j].anchor
          /\ rows'[j].ordinal = rows[j].ordinal
      BY <1>1, <1>4, <2>1, <2>5 DEF Standing, SameBut
    <3> QED
      BY <2>3, <3>1 DEF RowsInv, OrdinalsRise
  <2> QED
    BY <1>a, <2>1, <2>4, <2>5
<1>7. OneRowPerPage'
  <2> SUFFICES ASSUME NEW i \in CurrentEdits', NEW j \in CurrentEdits', i < j,
                      rows'[i].kind = rows'[j].kind, rows'[i].kind # "insert",
                      rows'[i].page = rows'[j].page
               PROVE  FALSE
    <3>1. \A i, j \in CurrentEdits' : i < j \/ j < i \/ i = j
      BY <1>1, <1>3 DEF CurrentEdits
    <3> QED
      BY <3>1 DEF OneRowPerPage
  <2>1. i \in 1..(n + 1) /\ j \in 1..(n + 1) /\ rows'[i].stands /\ rows'[j].stands
    BY <1>3 DEF CurrentEdits
  <2>2. i \in 1..n
    BY <1>1, <2>1
  <2>3. /\ i \in CurrentEdits /\ rows[i].kind = rows'[i].kind /\ rows[i].page = rows'[i].page
        /\ i \notin S /\ rows[i].stands
    BY <1>1, <1>4, <2>1, <2>2 DEF CurrentEdits, SameBut
  <2>4. CASE j = n + 1
    <3>1. i \in StandingAt(row.kind, row.page)
      BY <1>1, <1>2, <2>2, <2>3, <2>4 DEF StandingAt, Standing
    <3> QED
      BY <1>2, <2>3, <2>4, <3>1
  <2>5. CASE j \in 1..n
    <3>1. j \in CurrentEdits /\ rows[j].kind = rows'[j].kind /\ rows[j].page = rows'[j].page
      BY <1>1, <1>4, <2>1, <2>5 DEF CurrentEdits, SameBut
    <3>2. FALSE
      <4>1. i = j
        BY <2>3, <3>1 DEF RowsInv, OneRowPerPage
      <4> QED
        BY <1>1, <2>2, <4>1
    <3> QED
      BY <3>2
  <2> QED
    BY <1>a, <2>1, <2>4, <2>5
<1>8. RowsKept /\ TurnsKept
  <2>1. \A pk \in DOMAIN rows : Settled(pk) => Settled(pk)'
    BY <1>1, <1>4 DEF Settled, SameBut
  <2> QED
    BY <1>1, <1>3, <1>4, <2>1 DEF RowsKept, TurnsKept, SameBut
<1> QED
  BY <1>2, <1>5, <1>6, <1>7, <1>8 DEF RowsInv

LEMMA InPlaceKeeps ==
  ASSUME RowsInv, NEW kind \in AllKinds \ {"insert"}, NEW p, NEW pk \in StandingAt(kind, p),
         rows[pk].run = NoRun,
         NEW row \in Row, row.kind = kind, row.page = p, row.stands, RowShape(row, pk),
         rows' = [rows EXCEPT ![pk] = row]
  PROVE  RowsInv' /\ RowsKept /\ (kind # "rotate" => TurnsKept)
<1> DEFINE n == Len(rows)
<1>1. DOMAIN rows = 1..n /\ n \in Nat
  BY RowFacts
<1>2. pk \in 1..n /\ rows[pk].kind = kind /\ rows[pk].page = p /\ rows[pk].stands
  BY <1>1 DEF StandingAt, Standing
<1>3. /\ rows' \in Seq(Row) /\ Len(rows') = n
      /\ \A i \in 1..n : rows'[i] = IF i = pk THEN row ELSE rows[i]
  BY <1>2, ExceptSeq DEF RowsInv
<1>4. DOMAIN rows' = 1..n
  BY <1>3, LenProperties
<1> HIDE DEF n
<1>5. \A i \in DOMAIN rows' : RowShape(rows'[i], i)
  BY <1>1, <1>3, <1>4 DEF RowsInv
<1>6. \A i \in 1..n : /\ rows'[i].kind = rows[i].kind /\ rows'[i].page = rows[i].page
                      /\ rows'[i].stands <=> rows[i].stands
  BY <1>2, <1>3
<1>7. OrdinalsRise'
  <2>1. Standing("insert")' = Standing("insert")
    BY <1>1, <1>4, <1>6 DEF Standing
  <2>2. \A i \in Standing("insert") : rows'[i] = rows[i]
    BY <1>1, <1>2, <1>3 DEF Standing
  <2> QED
    BY <2>1, <2>2 DEF RowsInv, OrdinalsRise
<1>8. OneRowPerPage'
  <2>1. CurrentEdits' = CurrentEdits /\ CurrentEdits \subseteq 1..n
    BY <1>1, <1>4, <1>6 DEF CurrentEdits
  <2> QED
    BY <1>6, <2>1 DEF RowsInv, OneRowPerPage
<1>9. RowsKept
  <2>1. \A i \in 1..n : Settled(i) => Settled(i)' /\ rows'[i] = rows[i]
    <3>1. ~Settled(pk)
      BY <1>2 DEF Settled
    <3> QED
      BY <1>3, <3>1 DEF Settled
  <2> QED
    BY <1>1, <1>4, <1>6, <2>1 DEF RowsKept
<1>10. kind # "rotate" => TurnsKept
  BY <1>1, <1>2, <1>3 DEF TurnsKept
<1> QED
  BY <1>3, <1>5, <1>7, <1>8, <1>9, <1>10 DEF RowsInv, n

LEMMA SupersedeKeeps ==
  ASSUME RowsInv, NEW kind \in AllKinds \ {"insert"}, NEW p \in Pages,
         NEW row \in Row, row.kind = kind, row.page = p, row.stands,
         \A n \in Nat \ {0} : RowShape(row, n),
         Written(Supersede(kind, p, row))
  PROVE  RowsInv' /\ RowsKept /\ (kind # "rotate" => TurnsKept)
<1> DEFINE at   == StandingAt(kind, p)
           open == {pk \in at : rows[pk].run = NoRun}
           pk   == CHOOSE x \in open : TRUE
<1>1. rows' = Supersede(kind, p, row) /\ Len(rows') <= MaxRows
  BY DEF Written
<1>2. CASE open # {}
  <2>1. pk \in at /\ rows[pk].run = NoRun
    BY <1>2
  <2>2. rows' = [rows EXCEPT ![pk] = row]
    BY <1>1, <1>2 DEF Supersede
  <2>3. RowShape(row, pk)
    <3>1. pk \in DOMAIN rows
      BY <2>1 DEF StandingAt, Standing
    <3>2. DOMAIN rows \subseteq Nat \ {0}
      BY RowFacts
    <3>3. pk \in Nat \ {0}
      BY <3>1, <3>2
    <3> QED
      BY <3>3
  <2> HIDE DEF pk
  <2> QED
    BY <2>1, <2>2, <2>3, InPlaceKeeps
<1>3. CASE open = {}
  <2>1. rows' = Append(Withdrawn(at), row)
    BY <1>1, <1>3 DEF Supersede
  <2>2. RowShape(row, Len(rows) + 1)
    <3>1. Len(rows) + 1 \in Nat \ {0}
      BY RowFacts
    <3> QED
      BY <3>1
  <2>3. StandingAt(row.kind, row.page) \subseteq at
    OBVIOUS
  <2> HIDE DEF at
  <2> QED
    BY <1>1, <2>1, <2>2, <2>3, AppendKeeps
<1> QED
  BY <1>2, <1>3

LEMMA DecisionType ==
  ASSUME NEW kind \in AllKinds \ {"insert"}, NEW p \in Pages, NEW a \in Anchors,
         NEW turn \in Turns \cup {0}, kind = "delete" => a = 0 /\ turn = 0
  PROVE  /\ Decision(kind, p, a, turn) \in Row
         /\ Decision(kind, p, a, turn).kind = kind /\ Decision(kind, p, a, turn).page = p
         /\ Decision(kind, p, a, turn).stands
         /\ \A n \in Nat \ {0} : RowShape(Decision(kind, p, a, turn), n)
<1>1. p \in Anchors /\ 0 \in 0..MaxRows /\ 0 \in 0..MaxRuns
  BY PageEditsAssumption DEF Pages, Anchors
<1>2. Decision(kind, p, a, turn) \in Row
  BY <1>1 DEF Decision, Row, NoRun
<1> QED
  BY <1>2 DEF Decision, RowShape

LEMMA DeletePageRows ==
  ASSUME RowsInv, DeletePage
  PROVE  RowsInv' /\ RowsKept /\ TurnsKept
<1>1. PICK p \in Pages : Written(Supersede("delete", p, Decision("delete", p, 0, 0)))
  BY DEF DeletePage
<1>2. 0 \in Anchors /\ 0 \in Turns \cup {0} /\ "delete" \in AllKinds \ {"insert"}
  BY PageEditsAssumption DEF Anchors, AllKinds
<1> QED
  BY <1>1, <1>2, DecisionType, SupersedeKeeps

LEMMA RotatePageRows ==
  ASSUME RowsInv, RotatePage
  PROVE  RowsInv' /\ RowsKept
<1>1. PICK p \in Pages, turn \in Turns :
        Written(Supersede("rotate", p, Decision("rotate", p, 0, turn)))
  BY DEF RotatePage
<1>2. 0 \in Anchors /\ turn \in Turns \cup {0} /\ "rotate" \in AllKinds \ {"insert"}
  BY PageEditsAssumption DEF Anchors, AllKinds
<1> QED
  BY <1>1, <1>2, DecisionType, SupersedeKeeps

LEMMA MovePageRows ==
  ASSUME RowsInv, MovePage
  PROVE  RowsInv' /\ RowsKept /\ TurnsKept
<1>1. PICK p \in Pages, a \in Anchors : Written(Supersede("move", p, Decision("move", p, a, 0)))
  BY DEF MovePage
<1>2. 0 \in Turns \cup {0} /\ "move" \in AllKinds \ {"insert"}
  BY DEF AllKinds
<1> QED
  BY <1>1, <1>2, DecisionType, SupersedeKeeps

LEMMA ReplacePageRows ==
  ASSUME RowsInv, ReplacePage
  PROVE  RowsInv' /\ RowsKept /\ TurnsKept
<1>1. PICK p \in Pages : Written(Append(Withdrawn(StandingAt("replace", p)),
                                        Decision("replace", p, 0, 0)))
  BY DEF ReplacePage
<1> DEFINE row == Decision("replace", p, 0, 0)
<1>2. 0 \in Anchors /\ 0 \in Turns \cup {0} /\ "replace" \in AllKinds \ {"insert"}
  BY PageEditsAssumption DEF Anchors, AllKinds
<1>3. row \in Row /\ row.kind = "replace" /\ row.page = p /\ row.stands
      /\ \A n \in Nat \ {0} : RowShape(row, n)
  BY <1>2, DecisionType
<1>4. Len(rows) + 1 \in Nat \ {0}
  BY RowFacts
<1>5. rows' = Append(Withdrawn(StandingAt("replace", p)), row) /\ Len(rows') <= MaxRows
  BY <1>1 DEF Written
<1> HIDE DEF row
<1> QED
  BY <1>3, <1>4, <1>5, AppendKeeps

LEMMA GreatestNumber ==
  ASSUME NEW N \in Nat, NEW T \in SUBSET (0..N), T # {}
  PROVE  Max(T) \in T /\ \A x \in T : x <= Max(T)
<1> DEFINE U == {n \in Nat : \A x \in T : x <= n}
<1>1. PICK u \in U : \A v \in U : u <= v
  <2>1. N \in U
    OBVIOUS
  <2> QED
    BY <2>1, LeastNumber
<1>2. u \in T
  <2> SUFFICES ASSUME u \notin T PROVE FALSE
    OBVIOUS
  <2>1. u \in Nat /\ \A x \in T : x \in Nat /\ x < u
    BY <1>1
  <2>2. u - 1 \in Nat
    <3>1. PICK x \in T : x \in Nat /\ x < u
      BY <2>1
    <3> QED
      BY <2>1, <3>1
  <2>3. \A x \in T : x <= u - 1
    BY <2>1
  <2>4. u - 1 \in U
    BY <2>2, <2>3
  <2> QED
    BY <1>1, <2>1, <2>4
<1>3. \E x \in T : \A y \in T : x >= y
  BY <1>1, <1>2
<1>4. Max(T) \in T /\ \A y \in T : Max(T) >= y
  BY <1>3 DEF Max
<1> QED
  BY <1>4

LEMMA NextOrdinalAbove ==
  ASSUME RowsInv, NEW a
  PROVE  /\ NextOrdinal(a) \in Nat /\ NextOrdinal(a) <= Len(rows)
         /\ \A i \in InsertsAt(a) : rows[i].ordinal < NextOrdinal(a)
<1> DEFINE taken == {rows[pk].ordinal : pk \in InsertsAt(a)}
<1>1. Range(Inserts(a)) = InsertsAt(a)
  BY InsertsSorted DEF InKeyOrder
<1>2. NextOrdinal(a) = IF taken = {} THEN 0 ELSE Max(taken) + 1
  BY <1>1 DEF NextOrdinal
<1>3. Len(rows) \in Nat
  BY RowFacts
<1>4. \A x \in taken : x \in 0..Len(rows) /\ x + 1 <= Len(rows)
  <2> SUFFICES ASSUME NEW pk \in InsertsAt(a)
               PROVE  rows[pk].ordinal \in 0..Len(rows) /\ rows[pk].ordinal + 1 <= Len(rows)
    OBVIOUS
  <2>1. pk \in DOMAIN rows
    BY DEF InsertsAt, Standing
  <2>2. rows[pk].ordinal \in Nat /\ rows[pk].ordinal < pk /\ pk \in 1..Len(rows)
    BY <2>1, RowFacts DEF RowsInv, RowShape, Row
  <2> QED
    BY <1>3, <2>2
<1> HIDE DEF taken
<1>5. CASE taken = {}
  <2>1. InsertsAt(a) = {}
    BY <1>5 DEF taken
  <2>2. NextOrdinal(a) = 0
    BY <1>2, <1>5
  <2> QED
    BY <1>3, <2>1, <2>2
<1>6. CASE taken # {}
  <2>1. Max(taken) \in taken /\ \A x \in taken : x <= Max(taken)
    BY <1>3, <1>4, <1>6, GreatestNumber
  <2>2. Max(taken) \in Nat /\ Max(taken) + 1 <= Len(rows)
    BY <1>4, <2>1
  <2>3. \A i \in InsertsAt(a) : rows[i].ordinal \in taken
    BY DEF taken
  <2>4. \A x \in taken : x < Max(taken) + 1
    BY <1>4, <2>1, <2>2
  <2> QED
    BY <1>2, <1>6, <2>2, <2>3, <2>4
<1> QED
  BY <1>5, <1>6

LEMMA AddPageInsertRows ==
  ASSUME RowsInv, AddPageInsert
  PROVE  RowsInv' /\ RowsKept /\ TurnsKept
<1>1. PICK a \in Anchors, n \in UploadPages :
        Written(Append(rows, [Decision("insert", 0, a, 0) EXCEPT
                                !.ordinal = NextOrdinal(a), !.pages = n]))
  BY DEF AddPageInsert
<1> DEFINE row == [Decision("insert", 0, a, 0) EXCEPT !.ordinal = NextOrdinal(a), !.pages = n]
<1>2. rows' = Append(rows, row) /\ Len(rows') <= MaxRows
  BY <1>1 DEF Written
<1>3. /\ NextOrdinal(a) \in Nat /\ NextOrdinal(a) <= Len(rows) /\ Len(rows) \in Nat
      /\ \A i \in InsertsAt(a) : rows[i].ordinal < NextOrdinal(a)
  BY NextOrdinalAbove, RowFacts
<1>4. NextOrdinal(a) \in 0..MaxRows /\ 0 \in 0..MaxRuns /\ 0 \in Anchors
  BY <1>3, PageEditsAssumption DEF RowsInv, Anchors
<1> DEFINE d == Decision("insert", 0, a, 0)
<1>5. d \in Row /\ d.stands /\ d.kind = "insert" /\ d.anchor = a
  BY <1>4, PageEditsAssumption DEF Decision, NoRun, Row, AllKinds
<1> HIDE DEF d
<1>6. /\ row \in Row /\ row.stands /\ row.kind = "insert" /\ row.anchor = a
      /\ row.ordinal = NextOrdinal(a)
  <2>1. row = [d EXCEPT !.ordinal = NextOrdinal(a), !.pages = n]
    BY DEF d
  <2> HIDE DEF row
  <2> QED
    BY <1>4, <1>5, <2>1 DEF Row
<1> HIDE DEF row
<1>7. NextOrdinal(a) < Len(rows) + 1
  BY <1>3
<1>8. RowShape(row, Len(rows) + 1)
  BY <1>6, <1>7 DEF RowShape
<1>9. rows = Withdrawn({})
  <2>1. \A pk \in DOMAIN rows : Withdrawn({})[pk] = rows[pk]
    BY WithdrawnIs
  <2> QED
    BY <2>1, RowFacts DEF RowsInv, Withdrawn
<1> QED
  BY <1>2, <1>3, <1>6, <1>8, <1>9, AppendKeeps

LEMMA UndoPageRows ==
  ASSUME RowsInv, UndoPage
  PROVE  RowsInv' /\ RowsKept /\ TurnsKept
BY WithdrawKeeps DEF UndoPage

LEMMA RemovePageInsertRows ==
  ASSUME RowsInv, RemovePageInsert
  PROVE  RowsInv' /\ RowsKept /\ TurnsKept
BY WithdrawKeeps DEF RemovePageInsert

\* Every request leaves the rows in shape, and what was built as it was.
LEMMA EditRows ==
  ASSUME RowsInv, Edit
  PROVE  /\ RowsInv' /\ RowsKept
         /\ TurnsKept \/ RotatePage
         /\ UNCHANGED <<phase, runs, shards, build, boxes>>
         /\ \E kind \in Kinds : PassesLock(kind)
         /\ RotatePage => PassesLock("rotate")
<1>1. UNCHANGED <<phase, runs, shards, build, boxes>> /\ \E kind \in Kinds : PassesLock(kind)
  BY DEF Edit, Decide, DeletePage, RotatePage, MovePage, ReplacePage, AddPageInsert,
         UndoPage, RemovePageInsert
<1>2. RotatePage => PassesLock("rotate")
  BY DEF RotatePage, Decide
<1> QED
  BY <1>1, <1>2, DeletePageRows, RotatePageRows, MovePageRows, ReplacePageRows,
     AddPageInsertRows, UndoPageRows, RemovePageInsertRows DEF Edit
-----------------------------------------------------------------------------
(* The runs, the build and the maps: what every state of the volume has.   *)

RunsInv ==
  /\ Standings \subseteq {Len(runs)}
  /\ \A n \in DOMAIN runs : ~runs[n].built => runs[n].map = <<>>
  /\ phase = "review" => build = Idle /\ Standings = {} /\ ~late
  /\ build # Idle =>
       /\ phase = "approved" /\ build.run = Len(runs) /\ build.run # NoRun
       /\ ~runs[build.run].built /\ runs[build.run].attempts < MaxAttempts
       /\ build.edits \subseteq DOMAIN rows

\* What a map names was settled when it was built; what a build names, it will settle.
NamesInv ==
  /\ \A n \in DOMAIN runs : \A i \in DOMAIN runs[n].map :
       LET e == runs[n].map[i].edit IN
       e = 0 \/ (e \in DOMAIN rows /\ (rows[e].run # NoRun \/ ~rows[e].stands))
  /\ \A i \in DOMAIN build.map : build.map[i].edit \in build.edits \cup {0}

TypeInv == EditsTypeOK /\ RowsInv /\ RunsInv /\ NamesInv

LEMMA RunFacts ==
  ASSUME EditsTypeOK
  PROVE  /\ DOMAIN runs = 1..Len(runs) /\ Len(runs) \in Nat /\ Len(runs) <= MaxRuns
         /\ \A n \in DOMAIN runs : runs[n] \in Run
         /\ \A n \in DOMAIN runs : runs[n].map \in Seq(Source)
<1>1. runs \in Seq(Run) /\ Len(runs) <= MaxRuns
  BY DEF EditsTypeOK
<1>2. DOMAIN runs = 1..Len(runs) /\ Len(runs) \in Nat /\ \A n \in 1..Len(runs) : runs[n] \in Run
  BY <1>1, LenProperties, ElementOfSeq
<1>3. \A run \in Run : run.map \in Seq(Source)
  BY DEF Run
<1> QED
  BY <1>1, <1>2, <1>3

LEMMA CurrentRunIs ==
  ASSUME EditsTypeOK, RunsInv
  PROVE  /\ CurrentRun = NoRun \/ CurrentRun = Len(runs)
         /\ CurrentRun # NoRun => /\ CurrentRun \in DOMAIN runs /\ CurrentRun = Len(runs)
                                  /\ runs[CurrentRun].stands
         /\ CurrentRun = NoRun => Standings = {}
<1>1. CASE Standings = {}
  BY <1>1 DEF CurrentRun
<1>2. CASE Standings # {}
  <2>1. Len(runs) \in Standings /\ Standings = {Len(runs)}
    BY <1>2 DEF RunsInv
  <2>2. Len(runs) \in Nat \ {0} /\ Len(runs) \in DOMAIN runs /\ runs[Len(runs)].stands
    BY <2>1, RunFacts DEF Standings
  <2>3. Standings \in SUBSET (0..Len(runs))
    BY <2>1, <2>2
  <2>4. Max(Standings) \in Standings
    BY <1>2, <2>2, <2>3, GreatestNumber
  <2>5. CurrentRun = Len(runs)
    BY <1>2, <2>1, <2>4 DEF CurrentRun
  <2> QED
    BY <2>2, <2>5 DEF NoRun
<1> QED
  BY <1>1, <1>2

LEMMA PictureType ==
  ASSUME RowsInv, NEW s \in Source, s.edit # 0 => s.edit \in DOMAIN rows
  PROVE  Picture(s) \in {"scan", "file"} \X Nat \X Nat
<1>1. s.page \in Nat /\ s.turn \in Nat /\ s.edit \in Nat
  <2>1. s.page \in Nat /\ s.turn \in Turns \cup {0} /\ s.edit \in 0..MaxRows
    BY DEF Source
  <2>2. Turns \cup {0} \subseteq Nat
    BY PageEditsAssumption
  <2> QED
    BY <2>1, <2>2
<1>2. s.edit # 0 => rows[s.edit].page \in Nat
  BY RowFacts, PageEditsAssumption DEF Row, Anchors
<1> QED
  BY <1>1, <1>2 DEF Picture

LEMMA TypeInvInit ==
  ASSUME EditsInit
  PROVE  TypeInv
<1>1. /\ rows = <<>> /\ runs = <<>> /\ DOMAIN rows = {} /\ DOMAIN runs = {}
      /\ Len(rows) = 0 /\ Len(runs) = 0 /\ DOMAIN shards = {}
      /\ rows \in Seq(Row) /\ runs \in Seq(Run)
  BY EmptySeq DEF EditsInit
<1>2. build = Idle /\ Idle \in [run : 0..MaxRuns, edits : SUBSET Pks, map : Seq(Source)]
  BY PageEditsAssumption, EmptySeq DEF EditsInit, Idle, NoRun
<1>3. EditsTypeOK
  <2>1. 0 <= MaxRows /\ 0 <= MaxRuns
    BY PageEditsAssumption
  <2>2. phase = "review" /\ late = FALSE /\ boxes = {}
    BY DEF EditsInit
  <2> QED
    BY <1>1, <1>2, <2>1, <2>2 DEF EditsTypeOK
<1>4. RowsInv
  BY <1>1, PageEditsAssumption DEF RowsInv, OrdinalsRise, OneRowPerPage, Standing, CurrentEdits
<1>5. RunsInv
  BY <1>1 DEF EditsInit, RunsInv, Standings
<1>6. NamesInv
  BY <1>1, <1>2, EmptySeq DEF NamesInv, Idle
<1> QED
  BY <1>3, <1>4, <1>5, <1>6 DEF TypeInv

LEMMA NamesKept ==
  ASSUME EditsTypeOK, NamesInv, RowsKept, UNCHANGED <<runs, build>>
  PROVE  NamesInv'
<1>1. ASSUME NEW n \in DOMAIN runs', NEW i \in DOMAIN runs'[n].map,
             runs'[n].map[i].edit # 0
      PROVE  LET e == runs'[n].map[i].edit IN
             e \in DOMAIN rows' /\ (rows'[e].run # NoRun \/ ~rows'[e].stands)
  <2> DEFINE e == runs[n].map[i].edit
  <2>1. e \in DOMAIN rows /\ (rows[e].run # NoRun \/ ~rows[e].stands)
    BY <1>1 DEF NamesInv
  <2> HIDE DEF e
  <2>2. e \in DOMAIN rows' /\ (rows'[e].run # NoRun \/ ~rows'[e].stands)
    BY <2>1 DEF RowsKept, Settled
  <2> QED
    BY <2>2 DEF e
<1>2. \A i \in DOMAIN build'.map : build'.map[i].edit \in build'.edits \cup {0}
  BY DEF NamesInv
<1> QED
  BY <1>1, <1>2 DEF NamesInv

LEMMA TypeInvEdit ==
  ASSUME TypeInv, Edit
  PROVE  TypeInv'
<1> USE DEF TypeInv
<1>1. /\ RowsInv' /\ RowsKept /\ UNCHANGED <<phase, runs, shards, build, boxes>>
      /\ \E kind \in Kinds : PassesLock(kind)
  BY EditRows
<1>2. late' \in BOOLEAN /\ (phase = "review" => late' = late)
  BY <1>1 DEF PassesLock, EditsTypeOK
<1>3. EditsTypeOK'
  BY <1>1, <1>2 DEF EditsTypeOK, RowsInv, RowsKept
<1>4. RunsInv'
  BY <1>1, <1>2 DEF RunsInv, RowsKept, Standings
<1>5. NamesInv'
  BY <1>1, NamesKept
<1> QED
  BY <1>1, <1>3, <1>4, <1>5

LEMMA RowsInvUnchanged ==
  ASSUME RowsInv, UNCHANGED rows
  PROVE  RowsInv' /\ RowsKept /\ TurnsKept
BY DEF RowsInv, RowsKept, TurnsKept, OrdinalsRise, OneRowPerPage, CurrentEdits, Standing, Settled

LEMMA TypeInvApprove ==
  ASSUME TypeInv, ApprovePages
  PROVE  TypeInv'
<1> USE DEF TypeInv, ApprovePages
<1>1. RowsInv' /\ RowsKept
  BY RowsInvUnchanged
<1>2. EditsTypeOK'
  BY DEF EditsTypeOK
<1>3. RunsInv'
  BY DEF RunsInv, Standings
<1>4. NamesInv'
  BY <1>1, NamesKept
<1> QED
  BY <1>1, <1>2, <1>3, <1>4

LEMMA SupersededIs ==
  ASSUME EditsTypeOK
  PROVE  /\ Superseded \in Seq(Run) /\ Len(Superseded) = Len(runs)
         /\ \A n \in DOMAIN runs :
              /\ ~Superseded[n].stands /\ Superseded[n].built = runs[n].built
              /\ Superseded[n].map = runs[n].map /\ Superseded[n].edits = runs[n].edits
              /\ Superseded[n].attempts = runs[n].attempts
<1> DEFINE next == Superseded
<1>1. DOMAIN runs = 1..Len(runs) /\ Len(runs) \in Nat /\ \A n \in DOMAIN runs : runs[n] \in Run
  BY RunFacts
<1>2. next = [n \in 1..Len(runs) |-> [runs[n] EXCEPT !.stands = FALSE]]
  BY <1>1 DEF Superseded
<1>3. \A n \in 1..Len(runs) :
        /\ next[n] \in Run /\ ~next[n].stands /\ next[n].built = runs[n].built
        /\ next[n].map = runs[n].map /\ next[n].edits = runs[n].edits
        /\ next[n].attempts = runs[n].attempts
  <2> TAKE n \in 1..Len(runs)
  <2>1. runs[n] \in Run /\ next[n] = [runs[n] EXCEPT !.stands = FALSE]
    BY <1>1, <1>2
  <2> HIDE DEF next
  <2> QED
    BY <2>1 DEF Run
<1>4. next \in [1..Len(runs) -> Run]
  BY <1>2, <1>3
<1>5. next \in Seq(Run) /\ Len(next) = Len(runs)
  BY <1>1, <1>4
<1> QED
  BY <1>1, <1>3, <1>5

LEMMA BeginRuns ==
  ASSUME TypeInv, BeginBuild
  PROVE  /\ runs' \in Seq(Run) /\ Len(runs') = build'.run /\ build'.run \in 1..MaxRuns
         /\ ~runs'[build'.run].built /\ runs'[build'.run].attempts < MaxAttempts
         /\ Standings' \subseteq {build'.run}
         /\ \A i \in DOMAIN runs' : /\ ~runs'[i].built => runs'[i].map = <<>>
                                    /\ i \in DOMAIN runs => runs'[i].map = runs[i].map
                                    /\ i \notin DOMAIN runs => runs'[i].map = <<>>
         /\ DOMAIN runs \subseteq DOMAIN runs'
         /\ build'.edits = CurrentEdits /\ build'.map = Plan
<1> USE DEF TypeInv
<1> DEFINE n      == CurrentRun
           reuse  == n # NoRun /\ ~runs[n].built
           target == IF reuse THEN n ELSE Len(runs) + 1
<1>1. /\ BuildDue /\ target <= MaxRuns
      /\ runs' = IF reuse THEN runs ELSE Append(Superseded, NewRun)
      /\ build' = [run |-> target, edits |-> CurrentEdits, map |-> Plan]
  BY DEF BeginBuild
<1>3. /\ n = NoRun \/ n = Len(runs)
      /\ n # NoRun => n \in DOMAIN runs /\ n = Len(runs) /\ runs[n].stands
      /\ n = NoRun => Standings = {}
  BY CurrentRunIs
<1>4. /\ DOMAIN runs = 1..Len(runs) /\ Len(runs) \in Nat /\ Len(runs) <= MaxRuns
      /\ \A i \in DOMAIN runs : runs[i] \in Run
  BY RunFacts
<1>8. NewRun \in Run /\ ~NewRun.built /\ NewRun.map = <<>> /\ NewRun.attempts = 0 /\ NewRun.stands
  BY PageEditsAssumption, EmptySeq DEF NewRun, Run
<1> HIDE DEF n
<1>9. /\ runs' \in Seq(Run) /\ Len(runs') = target /\ target \in 1..MaxRuns
      /\ ~runs'[target].built /\ runs'[target].attempts < MaxAttempts
      /\ Standings' \subseteq {target}
      /\ \A i \in DOMAIN runs' : /\ ~runs'[i].built => runs'[i].map = <<>>
                                 /\ i \in DOMAIN runs => runs'[i].map = runs[i].map
                                 /\ i \notin DOMAIN runs => runs'[i].map = <<>>
      /\ DOMAIN runs \subseteq DOMAIN runs'
  <2>1. CASE reuse
    <3>1. runs' = runs /\ target = n /\ n # NoRun /\ n = Len(runs)
      BY <1>1, <1>3, <2>1
    <3>2. runs[n].attempts < MaxAttempts
      BY <1>1, <2>1 DEF BuildDue, n
    <3>3. Standings' = Standings
      BY <3>1 DEF Standings
    <3>4. n \in 1..MaxRuns
      <4>1. MaxRuns \in Nat
        BY PageEditsAssumption
      <4>2. n \in DOMAIN runs
        BY <1>3, <3>1
      <4>3. n \in 1..Len(runs) /\ Len(runs) \in Nat /\ Len(runs) <= MaxRuns
        BY <1>4, <4>2
      <4> HIDE DEF reuse, target
      <4> QED
        BY <4>1, <4>3
    <3>5. runs \in Seq(Run)
      BY DEF EditsTypeOK
    <3> QED
      BY <1>4, <2>1, <3>1, <3>2, <3>3, <3>4, <3>5 DEF RunsInv
  <2>2. CASE ~reuse
    <3>1. runs' = Append(Superseded, NewRun) /\ target = Len(runs) + 1
      BY <1>1, <2>2
    <3>2. /\ Superseded \in Seq(Run) /\ Len(Superseded) = Len(runs)
          /\ \A i \in DOMAIN runs : /\ ~Superseded[i].stands
                                    /\ Superseded[i].built = runs[i].built
                                    /\ Superseded[i].map = runs[i].map
      BY SupersededIs
    <3>3. /\ runs' \in Seq(Run) /\ Len(runs') = target /\ runs'[target] = NewRun
          /\ \A i \in 1..Len(runs) : runs'[i] = Superseded[i]
      BY <1>8, <3>1, <3>2, AppendProperties
    <3>4. DOMAIN runs' = 1..target
      BY <3>3, LenProperties
    <3>5. target \in 1..MaxRuns /\ \A i \in 1..target : i \in 1..Len(runs) \/ i = target
      BY <1>1, <1>4, <3>1, PageEditsAssumption, NextIndex
    <3>6. Standings' \subseteq {target}
      BY <1>4, <3>2, <3>3, <3>4, <3>5 DEF Standings
    <3>7. \A i \in DOMAIN runs' : /\ ~runs'[i].built => runs'[i].map = <<>>
                                  /\ i \in DOMAIN runs => runs'[i].map = runs[i].map
                                  /\ i \notin DOMAIN runs => runs'[i].map = <<>>
      <4> TAKE i \in DOMAIN runs'
      <4>1. CASE i \in 1..Len(runs)
        BY <1>4, <3>2, <3>3, <4>1 DEF RunsInv
      <4>2. CASE i = target
        <5>1. i \notin DOMAIN runs
          BY <1>4, <3>1, <4>2
        <5> QED
          BY <1>8, <3>3, <4>2, <5>1
      <4> QED
        BY <3>4, <3>5, <4>1, <4>2
    <3>8. 0 < MaxAttempts
      BY PageEditsAssumption
    <3>9. DOMAIN runs \subseteq DOMAIN runs'
      BY <1>4, <3>1, <3>4
    <3> QED
      BY <1>8, <3>3, <3>5, <3>6, <3>7, <3>8, <3>9
  <2> QED
    BY <2>1, <2>2
<1> HIDE DEF target, reuse
<1> QED
  BY <1>1, <1>9

LEMMA TypeInvBegin ==
  ASSUME TypeInv, BeginBuild
  PROVE  TypeInv'
<1> USE DEF TypeInv
<1>1. /\ phase = "approved" /\ build = Idle
      /\ build' = [run |-> build'.run, edits |-> CurrentEdits, map |-> Plan]
      /\ UNCHANGED <<phase, late, rows, shards, boxes>>
  BY DEF BeginBuild
<1>2. RowsInv' /\ RowsKept
  BY <1>1, RowsInvUnchanged
<1>5. Plan \in Seq(Planned) /\ Plan \in Seq(Source)
  <2>1. Planned \subseteq Source
    BY DEF Planned
  <2> QED
    BY <2>1, PlanIsEmitted, SeqMonotonic
<1>6. CurrentEdits \subseteq DOMAIN rows /\ CurrentEdits \subseteq Pks
  BY RowFacts
<1>7. \A i \in DOMAIN Plan : Plan[i].edit \in CurrentEdits \cup {0}
  <2>1. DOMAIN Plan = 1..Len(Plan) /\ \A i \in 1..Len(Plan) : Plan[i] \in Planned
    BY <1>5, LenProperties, ElementOfSeq
  <2> QED
    BY <2>1 DEF Planned
<1> DEFINE target == build'.run
<1>9. /\ runs' \in Seq(Run) /\ Len(runs') = target /\ target \in 1..MaxRuns
      /\ ~runs'[target].built /\ runs'[target].attempts < MaxAttempts
      /\ Standings' \subseteq {target}
      /\ \A i \in DOMAIN runs' : /\ ~runs'[i].built => runs'[i].map = <<>>
                                 /\ i \in DOMAIN runs => runs'[i].map = runs[i].map
                                 /\ i \notin DOMAIN runs => runs'[i].map = <<>>
  BY BeginRuns
<1> HIDE DEF target
<1>10. build' \in [run : 0..MaxRuns, edits : SUBSET Pks, map : Seq(Source)]
       /\ build'.run = target /\ build'.edits = CurrentEdits /\ build'.map = Plan
  <2>1. target \in 0..MaxRuns
    BY <1>9, PageEditsAssumption
  <2> QED
    BY <1>1, <1>5, <1>6, <2>1 DEF target
<1>11. target # NoRun
  BY <1>9 DEF NoRun
<1>12. EditsTypeOK'
  <2>1. Len(runs') <= MaxRuns
    BY <1>9
  <2> QED
    BY <1>1, <1>9, <1>10, <2>1 DEF EditsTypeOK
<1>13. RunsInv'
  BY <1>1, <1>6, <1>9, <1>10, <1>11 DEF RunsInv
<1>14. NamesInv'
  <2>1. ASSUME NEW i \in DOMAIN runs', NEW j \in DOMAIN runs'[i].map,
               runs'[i].map[j].edit # 0
        PROVE  LET e == runs'[i].map[j].edit IN
               e \in DOMAIN rows' /\ (rows'[e].run # NoRun \/ ~rows'[e].stands)
    <3>1. i \in DOMAIN runs /\ runs'[i].map = runs[i].map
      <4>1. i \notin DOMAIN runs => DOMAIN runs'[i].map = {}
        BY <1>9, EmptySeq
      <4> QED
        BY <1>9, <2>1, <4>1
    <3> DEFINE e == runs[i].map[j].edit
    <3>2. e \in DOMAIN rows /\ (rows[e].run # NoRun \/ ~rows[e].stands)
      BY <2>1, <3>1 DEF NamesInv
    <3> HIDE DEF e
    <3>3. e \in DOMAIN rows' /\ (rows'[e].run # NoRun \/ ~rows'[e].stands)
      BY <1>1, <3>2
    <3> QED
      BY <3>1, <3>3 DEF e
  <2>2. \A i \in DOMAIN build'.map : build'.map[i].edit \in build'.edits \cup {0}
    BY <1>7, <1>10
  <2> QED
    BY <2>1, <2>2 DEF NamesInv
<1> QED
  BY <1>2, <1>12, <1>13, <1>14

LEMMA TypeInvCut ==
  ASSUME TypeInv, CutShard
  PROVE  TypeInv'
<1> USE DEF TypeInv
<1>1. UNCHANGED <<phase, late, rows, runs, build, boxes>>
  BY DEF CutShard
<1>2. RowsInv' /\ RowsKept
  BY <1>1, RowsInvUnchanged
<1>3. PICK pk \in Uncut, i \in DOMAIN build.map :
        /\ build.map[i].edit = pk
        /\ shards' = [e \in DOMAIN shards \cup {pk} |->
                        IF e = pk THEN build.map[i].turn ELSE shards[e]]
  BY DEF CutShard
<1>4. build.map \in Seq(Source) /\ build.map[i] \in Source
  <2>1. build.map \in Seq(Source)
    BY DEF EditsTypeOK
  <2> QED
    BY <2>1, LenProperties, ElementOfSeq
<1>5. pk \in DOMAIN rows /\ build # Idle
  <2>1. pk # 0
    BY DEF Uncut, ShardEdits
  <2>2. pk \in build.edits
    BY <1>3, <2>1 DEF NamesInv
  <2>3. build # Idle
    BY <2>2 DEF Idle
  <2> QED
    BY <2>2, <2>3 DEF RunsInv
<1>6. EditsTypeOK'
  BY <1>1, <1>3, <1>4, <1>5 DEF EditsTypeOK, Source
<1>7. RunsInv'
  BY <1>1 DEF RunsInv, Standings
<1>8. NamesInv'
  BY <1>1, <1>2, NamesKept
<1> QED
  BY <1>2, <1>6, <1>7, <1>8

LEMMA CommitRows ==
  ASSUME TypeInv, CommitBuild
  PROVE  /\ RowsInv' /\ RowsKept /\ TurnsKept
         /\ DOMAIN rows' = DOMAIN rows
         /\ \A pk \in DOMAIN rows :
              /\ rows'[pk] = IF pk \in build.edits /\ rows[pk].stands
                             THEN [rows[pk] EXCEPT !.run = build.run] ELSE rows[pk]
              /\ rows'[pk].stands = rows[pk].stands /\ SameBut(rows', pk)
         /\ \A pk \in build.edits : pk \in DOMAIN rows /\ Settled(pk)'
<1> USE DEF TypeInv
<1>1. /\ build # Idle
      /\ rows' = [pk \in DOMAIN rows |->
                    IF pk \in build.edits /\ rows[pk].stands
                    THEN [rows[pk] EXCEPT !.run = build.run] ELSE rows[pk]]
  BY DEF CommitBuild
<1>2. /\ DOMAIN rows = 1..Len(rows) /\ Len(rows) \in Nat
      /\ \A pk \in DOMAIN rows : rows[pk] \in Row
  BY RowFacts
<1>3. build.run \in 0..MaxRuns /\ build.run # NoRun /\ build.edits \subseteq DOMAIN rows
  BY <1>1 DEF EditsTypeOK, RunsInv
<1>4. \A pk \in DOMAIN rows :
        /\ rows'[pk] = IF pk \in build.edits /\ rows[pk].stands
                       THEN [rows[pk] EXCEPT !.run = build.run] ELSE rows[pk]
        /\ rows'[pk] \in Row /\ SameBut(rows', pk) /\ rows'[pk].stands = rows[pk].stands
        /\ pk \in build.edits => rows'[pk].run # NoRun \/ ~rows'[pk].stands
  <2> TAKE pk \in DOMAIN rows
  <2>1. rows[pk] \in Row
    BY <1>2
  <2>2. rows'[pk] = IF pk \in build.edits /\ rows[pk].stands
                    THEN [rows[pk] EXCEPT !.run = build.run] ELSE rows[pk]
    BY <1>1
  <2> QED
    BY <1>3, <2>1, <2>2 DEF Row, SameBut
<1>5. rows' \in [1..Len(rows) -> Row]
  BY <1>1, <1>2, <1>4
<1>6. rows' \in Seq(Row) /\ Len(rows') = Len(rows) /\ DOMAIN rows' = DOMAIN rows
  BY <1>2, <1>5
<1>7. RowsInv' /\ RowsKept /\ TurnsKept
  BY <1>4, <1>6, ThinnedKeeps
<1> QED
  BY <1>3, <1>4, <1>6, <1>7 DEF Settled

LEMMA CommitRuns ==
  ASSUME TypeInv, CommitBuild
  PROVE  /\ build.run \in DOMAIN runs /\ build.run = Len(runs)
         /\ runs' \in Seq(Run) /\ Len(runs') = Len(runs) /\ DOMAIN runs' = DOMAIN runs
         /\ \A n \in DOMAIN runs \ {build.run} : runs'[n] = runs[n]
         /\ \A n \in DOMAIN runs : runs'[n].stands = runs[n].stands
         /\ runs'[build.run].built /\ runs'[build.run].edits = build.edits
         /\ runs'[build.run].map = build.map
<1> USE DEF TypeInv
<1> DEFINE n == build.run
<1>1. /\ build # Idle
      /\ runs' = [runs EXCEPT ![n] = [runs[n] EXCEPT
                    !.built = TRUE, !.edits = build.edits, !.map = build.map, !.attempts = 0]]
  BY DEF CommitBuild
<1>2. /\ DOMAIN runs = 1..Len(runs) /\ Len(runs) \in Nat
      /\ \A i \in DOMAIN runs : runs[i] \in Run /\ runs \in Seq(Run)
  BY RunFacts DEF EditsTypeOK
<1>3. n = Len(runs) /\ n # NoRun
  BY <1>1 DEF RunsInv
<1>4. n \in DOMAIN runs
  BY <1>2, <1>3 DEF NoRun
<1>5. build.edits \in SUBSET Pks /\ build.map \in Seq(Source) /\ 0 \in 0..MaxAttempts
  BY PageEditsAssumption DEF EditsTypeOK
<1> DEFINE r == [runs[n] EXCEPT !.built = TRUE, !.edits = build.edits, !.map = build.map,
                                !.attempts = 0]
<1>6. /\ r \in Run /\ r.built /\ r.edits = build.edits /\ r.map = build.map
      /\ r.stands = runs[n].stands
  <2>1. runs[n] \in Run
    BY <1>2, <1>4
  <2> HIDE DEF n
  <2> QED
    BY <1>5, <2>1 DEF Run
<1> HIDE DEF r
<1>7. runs' = [runs EXCEPT ![n] = r]
  BY <1>1 DEF r
<1>8. /\ runs' \in Seq(Run) /\ Len(runs') = Len(runs)
      /\ \A i \in 1..Len(runs) : runs'[i] = IF i = n THEN r ELSE runs[i]
  <2>1. n \in 1..Len(runs)
    BY <1>2, <1>4
  <2> HIDE DEF n
  <2> QED
    BY <1>2, <1>4, <1>6, <1>7, <2>1, ExceptSeq
<1>9. DOMAIN runs' = DOMAIN runs
  BY <1>2, <1>8, LenProperties
<1> QED
  BY <1>2, <1>3, <1>4, <1>6, <1>8, <1>9

LEMMA IdleType ==
  /\ Idle \in [run : 0..MaxRuns, edits : SUBSET Pks, map : Seq(Source)]
  /\ DOMAIN Idle.map = {}
BY PageEditsAssumption, EmptySeq DEF Idle, NoRun

LEMMA TypeInvCommit ==
  ASSUME TypeInv, CommitBuild
  PROVE  TypeInv'
<1> USE DEF TypeInv
<1>1. UNCHANGED <<phase, late, shards, boxes>> /\ build' = Idle /\ build # Idle
  BY DEF CommitBuild
<1>2. /\ RowsInv' /\ RowsKept /\ DOMAIN rows' = DOMAIN rows
      /\ \A pk \in build.edits : pk \in DOMAIN rows' /\ (rows'[pk].run # NoRun \/ ~rows'[pk].stands)
  BY CommitRows DEF Settled
<1>3. /\ build.run \in DOMAIN runs /\ build.run = Len(runs)
      /\ runs' \in Seq(Run) /\ Len(runs') = Len(runs) /\ DOMAIN runs' = DOMAIN runs
      /\ \A n \in DOMAIN runs \ {build.run} : runs'[n] = runs[n]
      /\ \A n \in DOMAIN runs : runs'[n].stands = runs[n].stands
      /\ runs'[build.run].built
      /\ runs'[build.run].map = build.map
  BY CommitRuns
<1>4. EditsTypeOK'
  BY <1>1, <1>2, <1>3, IdleType DEF EditsTypeOK, RowsInv
<1>5. RunsInv'
  <2>1. Standings' = Standings
    BY <1>3 DEF Standings
  <2>2. \A n \in DOMAIN runs' : ~runs'[n].built => runs'[n].map = <<>>
    BY <1>3 DEF RunsInv
  <2>3. phase # "review"
    BY <1>1 DEF RunsInv
  <2> QED
    BY <1>1, <1>3, <2>1, <2>2, <2>3 DEF RunsInv
<1>6. NamesInv'
  <2>1. ASSUME NEW n \in DOMAIN runs', NEW i \in DOMAIN runs'[n].map,
               runs'[n].map[i].edit # 0
        PROVE  LET e == runs'[n].map[i].edit IN
               e \in DOMAIN rows' /\ (rows'[e].run # NoRun \/ ~rows'[e].stands)
    <3> DEFINE e == runs'[n].map[i].edit
    <3>1. CASE n = build.run
      <4>1. e \in build.edits
        BY <1>3, <2>1, <3>1 DEF NamesInv
      <4> QED
        BY <1>2, <4>1
    <3>2. CASE n # build.run
      <4>1. runs'[n] = runs[n] /\ n \in DOMAIN runs
        BY <1>3, <3>2
      <4>2. e \in DOMAIN rows /\ (rows[e].run # NoRun \/ ~rows[e].stands)
        BY <2>1, <4>1 DEF NamesInv
      <4> HIDE DEF e
      <4>3. e \in DOMAIN rows' /\ (rows'[e].run # NoRun \/ ~rows'[e].stands)
        BY <1>2, <4>2 DEF RowsKept, Settled
      <4> QED
        BY <4>3 DEF e
    <3> QED
      BY <3>1, <3>2
  <2>2. \A i \in DOMAIN build'.map : build'.map[i].edit \in build'.edits \cup {0}
    BY <1>1, IdleType
  <2> QED
    BY <2>1, <2>2 DEF NamesInv
<1> QED
  BY <1>2, <1>4, <1>5, <1>6

\* What a step that leaves the rows and the maps alone keeps of the names.
LEMMA NamesKeptByRuns ==
  ASSUME NamesInv, UNCHANGED rows, DOMAIN runs' = DOMAIN runs,
         \A n \in DOMAIN runs : runs'[n].map = runs[n].map,
         build' = build \/ build' = Idle
  PROVE  NamesInv'
<1>1. ASSUME NEW n \in DOMAIN runs', NEW i \in DOMAIN runs'[n].map,
             runs'[n].map[i].edit # 0
      PROVE  LET e == runs'[n].map[i].edit IN
             e \in DOMAIN rows' /\ (rows'[e].run # NoRun \/ ~rows'[e].stands)
  BY <1>1 DEF NamesInv
<1>2. \A i \in DOMAIN build'.map : build'.map[i].edit \in build'.edits \cup {0}
  BY IdleType DEF NamesInv
<1> QED
  BY <1>1, <1>2 DEF NamesInv

LEMMA TypeInvFail ==
  ASSUME TypeInv, FailBuild
  PROVE  TypeInv'
<1> USE DEF TypeInv
<1> DEFINE n == build.run
           r == [runs[n] EXCEPT !.attempts = runs[n].attempts + 1]
<1>1. /\ build # Idle /\ build' = Idle
      /\ runs' = [runs EXCEPT ![n] = r]
      /\ UNCHANGED <<phase, late, rows, shards, boxes>>
  BY DEF FailBuild
<1>2. RowsInv'
  BY <1>1, RowsInvUnchanged
<1>3. /\ DOMAIN runs = 1..Len(runs) /\ Len(runs) \in Nat /\ runs \in Seq(Run)
      /\ \A i \in DOMAIN runs : runs[i] \in Run
  BY RunFacts DEF EditsTypeOK
<1>4. n = Len(runs) /\ n # NoRun /\ runs[n].attempts < MaxAttempts
  BY <1>1 DEF RunsInv
<1>5. n \in DOMAIN runs
  BY <1>3, <1>4 DEF NoRun
<1>6. /\ r \in Run /\ r.built = runs[n].built /\ r.map = runs[n].map
      /\ r.stands = runs[n].stands
  <2>1. runs[n] \in Run
    BY <1>3, <1>5
  <2>2. runs[n].attempts + 1 \in 0..MaxAttempts
    BY <1>4, <2>1, PageEditsAssumption DEF Run
  <2> HIDE DEF n
  <2> QED
    BY <2>1, <2>2 DEF Run
<1> HIDE DEF r
<1>7. /\ runs' \in Seq(Run) /\ Len(runs') = Len(runs)
      /\ \A i \in 1..Len(runs) : runs'[i] = IF i = n THEN r ELSE runs[i]
  <2>1. n \in 1..Len(runs)
    BY <1>3, <1>5
  <2> HIDE DEF n
  <2> QED
    BY <1>1, <1>3, <1>6, <2>1, ExceptSeq
<1>8. DOMAIN runs' = DOMAIN runs
  BY <1>3, <1>7, LenProperties
<1>9. \A i \in DOMAIN runs : /\ runs'[i].built = runs[i].built /\ runs'[i].map = runs[i].map
                             /\ runs'[i].stands = runs[i].stands
  BY <1>3, <1>6, <1>7
<1>10. EditsTypeOK'
  BY <1>1, <1>7, IdleType DEF EditsTypeOK
<1>11. RunsInv'
  <2>1. Standings' = Standings
    BY <1>8, <1>9 DEF Standings
  <2> QED
    BY <1>1, <1>7, <1>8, <1>9, <2>1 DEF RunsInv
<1>12. NamesInv'
  BY <1>1, <1>8, <1>9, NamesKeptByRuns
<1> QED
  BY <1>2, <1>10, <1>11, <1>12

LEMMA TypeInvKill ==
  ASSUME TypeInv, KillBuild
  PROVE  TypeInv'
<1> USE DEF TypeInv, KillBuild
<1>1. RowsInv'
  BY RowsInvUnchanged
<1>2. EditsTypeOK'
  BY IdleType DEF EditsTypeOK
<1>3. RunsInv'
  BY DEF RunsInv, Standings
<1>4. NamesInv'
  BY NamesKeptByRuns
<1> QED
  BY <1>1, <1>2, <1>3, <1>4

LEMMA TypeInvSupersede ==
  ASSUME TypeInv, runs' = Superseded, UNCHANGED <<rows, shards, build, boxes>>,
         \/ UNCHANGED <<phase, late>>
         \/ phase' = "review" /\ late' = FALSE /\ build = Idle
  PROVE  TypeInv'
<1> USE DEF TypeInv
<1>1. RowsInv'
  BY RowsInvUnchanged
<1>2. /\ Superseded \in Seq(Run) /\ Len(Superseded) = Len(runs)
      /\ \A n \in DOMAIN runs :
           /\ ~Superseded[n].stands /\ Superseded[n].built = runs[n].built
           /\ Superseded[n].map = runs[n].map /\ Superseded[n].attempts = runs[n].attempts
  BY SupersededIs
<1>3. DOMAIN runs' = DOMAIN runs /\ DOMAIN runs = 1..Len(runs) /\ Len(runs) \in Nat
  BY <1>2, RunFacts, LenProperties
<1>4. Standings' = {}
  BY <1>2, <1>3 DEF Standings
<1>5. EditsTypeOK'
  BY <1>2 DEF EditsTypeOK
<1>6. RunsInv'
  <2>1. build # Idle => build.run \in DOMAIN runs
    BY <1>3 DEF RunsInv, NoRun
  <2> QED
    BY <1>2, <1>3, <1>4, <2>1 DEF RunsInv
<1>7. NamesInv'
  BY <1>2, <1>3, NamesKeptByRuns
<1> QED
  BY <1>1, <1>5, <1>6, <1>7

LEMMA PlaceIs ==
  ASSUME NEW map \in Seq(Source), NEW edit, NEW page
  PROVE  \/ Place(map, edit, page) = 0
         \/ /\ Place(map, edit, page) \in DOMAIN map /\ Place(map, edit, page) \in Nat
            /\ map[Place(map, edit, page)].edit = edit
            /\ map[Place(map, edit, page)].page = page
<1> DEFINE at == {i \in DOMAIN map : map[i].edit = edit /\ map[i].page = page}
<1>1. CASE at = {}
  BY <1>1 DEF Place
<1>2. CASE at # {}
  <2>1. at \in SUBSET Nat
    BY LenProperties
  <2>2. PICK i \in at : \A j \in at : i <= j
    BY <1>2, <2>1, LeastNumber
  <2>3. Min(at) \in at
    BY <2>2 DEF Min
  <2>4. Place(map, edit, page) = Min(at)
    BY <1>2 DEF Place
  <2> QED
    BY <2>1, <2>3, <2>4
<1> QED
  BY <1>1, <1>2

Box == [edit : 0..MaxRows, page : Nat, run : 0..MaxRuns, index : Nat,
        shows : {"scan", "file"} \X Nat \X Nat]

LEMMA RelocatedType ==
  ASSUME TypeInv, NEW n \in DOMAIN runs, NEW box \in Box
  PROVE  Relocated(box, n) \in Box
<1> DEFINE index == Place(runs[n].map, box.edit, box.page)
<1>1. runs[n].map \in Seq(Source) /\ n \in 0..MaxRuns
  BY RunFacts, PageEditsAssumption DEF TypeInv
<1>2. index = 0 \/ index \in Nat
  BY <1>1, PlaceIs
<1>3. Relocated(box, n) = IF index = 0 THEN box ELSE [box EXCEPT !.run = n, !.index = index]
  BY DEF Relocated
<1> HIDE DEF index
<1> QED
  BY <1>1, <1>2, <1>3 DEF Box

LEMMA TypeInvOpen ==
  ASSUME TypeInv, OpenRedactionReview
  PROVE  TypeInv'
<1> USE DEF TypeInv
<1> DEFINE n == CurrentRun
<1>1. /\ phase = "approved" /\ build = Idle /\ n # NoRun
      /\ boxes' = {Relocated(box, n) : box \in boxes}
      /\ phase' = "redaction" /\ UNCHANGED <<late, rows, runs, shards, build>>
  BY DEF OpenRedactionReview
<1>2. n \in DOMAIN runs
  BY <1>1, CurrentRunIs
<1>3. boxes \subseteq Box
  BY DEF EditsTypeOK, Box
<1> HIDE DEF n
<1>4. boxes' \subseteq Box
  BY <1>1, <1>2, <1>3, RelocatedType
<1>5. EditsTypeOK'
  BY <1>1, <1>4 DEF EditsTypeOK, Box
<1>6. RowsInv'
  BY <1>1, RowsInvUnchanged
<1>7. RunsInv'
  BY <1>1 DEF RunsInv, Standings
<1>8. NamesInv'
  BY <1>1, NamesKeptByRuns
<1> QED
  BY <1>5, <1>6, <1>7, <1>8

\* The volume a box is drawn on.
Drawn == IF CurrentRun = NoRun THEN [p \in Pages |-> Original(p)] ELSE runs[CurrentRun].map

LEMMA DrawnType ==
  ASSUME TypeInv, NEW i \in DOMAIN Drawn
  PROVE  /\ Drawn[i] \in Source /\ i \in Nat
         /\ Drawn[i].edit # 0 => Drawn[i].edit \in DOMAIN rows
<1> USE DEF TypeInv
<1>1. CASE CurrentRun = NoRun
  <2>1. Drawn = [p \in Pages |-> Original(p)]
    BY <1>1 DEF Drawn
  <2>2. i \in Pages /\ Drawn[i] = Original(i)
    BY <2>1
  <2> QED
    BY <2>2, PageEditsAssumption DEF Original, Source, Pages
<1>2. CASE CurrentRun # NoRun
  <2>1. CurrentRun \in DOMAIN runs
    BY <1>2, CurrentRunIs
  <2>2. Drawn = runs[CurrentRun].map
    BY <1>2 DEF Drawn
  <2>3. Drawn \in Seq(Source)
    BY <2>1, <2>2, RunFacts
  <2>4. Drawn[i] \in Source /\ i \in Nat
    BY <2>3, LenProperties, ElementOfSeq
  <2>5. Drawn[i].edit # 0 => Drawn[i].edit \in DOMAIN rows
    BY <2>1, <2>2 DEF NamesInv
  <2> QED
    BY <2>4, <2>5
<1> QED
  BY <1>1, <1>2

LEMMA TypeInvDraw ==
  ASSUME TypeInv, DrawBox
  PROVE  TypeInv'
<1> USE DEF TypeInv
<1>1. UNCHANGED <<phase, late, rows, runs, shards, build>>
  BY DEF DrawBox
<1>2. PICK i \in DOMAIN Drawn :
        boxes' = boxes \cup {[edit |-> Drawn[i].edit, page |-> Drawn[i].page, run |-> CurrentRun,
                              index |-> i, shows |-> Picture(Drawn[i])]}
  BY DEF DrawBox, Drawn
<1>3. Drawn[i] \in Source /\ i \in Nat /\ Picture(Drawn[i]) \in {"scan", "file"} \X Nat \X Nat
  BY DrawnType, PictureType
<1>4. CurrentRun \in 0..MaxRuns
  BY CurrentRunIs, RunFacts, PageEditsAssumption DEF NoRun
<1>5. boxes' \subseteq Box
  <2>1. boxes \subseteq Box
    BY DEF EditsTypeOK, Box
  <2>2. [edit |-> Drawn[i].edit, page |-> Drawn[i].page, run |-> CurrentRun,
         index |-> i, shows |-> Picture(Drawn[i])] \in Box
    BY <1>3, <1>4 DEF Box, Source
  <2> QED
    BY <1>2, <2>1, <2>2
<1>6. EditsTypeOK'
  BY <1>1, <1>5 DEF EditsTypeOK, Box
<1>7. RowsInv'
  BY <1>1, RowsInvUnchanged
<1>8. RunsInv'
  BY <1>1 DEF RunsInv, Standings
<1>9. NamesInv'
  BY <1>1, NamesKeptByRuns
<1> QED
  BY <1>6, <1>7, <1>8, <1>9

LEMMA TypeInvLost ==
  ASSUME TypeInv, ComputeFails
  PROVE  TypeInv'
<1> USE DEF TypeInv, ComputeFails
<1>1. RowsInv'
  BY RowsInvUnchanged
<1>2. EditsTypeOK'
  BY DEF EditsTypeOK
<1>3. RunsInv'
  BY DEF RunsInv, Standings
<1>4. NamesInv'
  BY NamesKeptByRuns
<1> QED
  BY <1>1, <1>2, <1>3, <1>4

LEMMA TypeInvStep ==
  ASSUME TypeInv, [EditsNext]_editVars
  PROVE  TypeInv'
<1>1. CASE UNCHANGED editVars
  <2> USE DEF TypeInv, editVars
  <2>1. RowsInv'
    BY <1>1, RowsInvUnchanged
  <2>2. EditsTypeOK'
    BY <1>1 DEF EditsTypeOK
  <2>3. RunsInv'
    BY <1>1 DEF RunsInv, Standings
  <2>4. NamesInv'
    BY <1>1, NamesKeptByRuns
  <2> QED
    BY <2>1, <2>2, <2>3, <2>4
<1>2. CASE ReopenPageReview
  BY <1>2, TypeInvSupersede DEF ReopenPageReview
<1>3. CASE AdminSupersedes
  BY <1>3, TypeInvSupersede DEF AdminSupersedes
<1> QED
  BY <1>1, <1>2, <1>3, TypeInvEdit, TypeInvApprove, TypeInvBegin, TypeInvCut, TypeInvCommit,
     TypeInvFail, TypeInvKill, TypeInvOpen, TypeInvDraw, TypeInvLost DEF EditsNext

LEMMA TypeInvHolds == EditsSpec => []TypeInv
<1>1. EditsInit => TypeInv
  BY TypeInvInit
<1>2. TypeInv /\ [EditsNext]_editVars => TypeInv'
  BY TypeInvStep
<1> QED
  BY <1>1, <1>2, PTL DEF EditsSpec

\* The rows, the runs, the shards, the build and the boxes keep their types.
THEOREM EditsTypeCorrect == EditsSpec => []EditsTypeOK
<1>1. TypeInv => EditsTypeOK
  BY DEF TypeInv
<1> QED
  BY <1>1, TypeInvHolds, PTL
-----------------------------------------------------------------------------
(* The boxes.  A turn of a page that is written after the approval would   *)
(* change the row a build has planned: no request for one may be late.     *)

NoLateTurn == "rotate" \notin LateKinds

\* A page of a map is turned as its row says.
Faithful(s) == s.edit # 0 /\ rows[s.edit].kind = "rotate" => s.turn = rows[s.edit].turn

TurnsInv ==
  /\ \A n \in DOMAIN runs : \A i \in DOMAIN runs[n].map : Faithful(runs[n].map[i])
  /\ \A i \in DOMAIN build.map : Faithful(build.map[i])

\* What the page at an address shows, whichever build it is in.
Shows(edit, page) ==
  IF edit = 0 THEN <<"scan", page, 0>>
  ELSE IF rows[edit].kind = "rotate" THEN <<"scan", rows[edit].page, rows[edit].turn>>
  ELSE <<"file", edit, page>>

BoxesInv ==
  \A box \in boxes :
    /\ box.edit # 0 => box.edit \in DOMAIN rows /\ Settled(box.edit)
    /\ box.shows = Shows(box.edit, box.page)
    /\ box.run # NoRun =>
         /\ box.run \in DOMAIN runs /\ box.index \in DOMAIN runs[box.run].map
         /\ runs[box.run].map[box.index].edit = box.edit
         /\ runs[box.run].map[box.index].page = box.page

PagesInv == TypeInv /\ TurnsInv /\ BoxesInv

LEMMA PictureIsShows ==
  ASSUME NEW s, Faithful(s)
  PROVE  Picture(s) = Shows(s.edit, s.page)
BY DEF Faithful, Picture, Shows

LEMMA BoxesOnTheirPages ==
  ASSUME PagesInv
  PROVE  BoxesKeepTheirPage
<1> SUFFICES ASSUME NEW box \in boxes, box.run # NoRun
             PROVE  Picture(runs[box.run].map[box.index]) = box.shows
  BY DEF BoxesKeepTheirPage
<1> DEFINE s == runs[box.run].map[box.index]
<1>1. s.edit = box.edit /\ s.page = box.page /\ box.shows = Shows(box.edit, box.page)
  BY DEF PagesInv, BoxesInv
<1>2. Faithful(s)
  BY DEF PagesInv, BoxesInv, TurnsInv
<1> HIDE DEF s
<1>3. Picture(s) = Shows(s.edit, s.page)
  BY <1>2, PictureIsShows
<1> QED
  BY <1>1, <1>3 DEF s

\* A row that is settled shows what it showed.
LEMMA ShowsKept ==
  ASSUME RowsKept, NEW edit, NEW page,
         edit # 0 => edit \in DOMAIN rows /\ Settled(edit)
  PROVE  /\ edit # 0 => edit \in DOMAIN rows' /\ Settled(edit)'
         /\ Shows(edit, page)' = Shows(edit, page)
BY DEF RowsKept, Shows

\* A step that rewrites no map leaves every box on its page.
LEMMA BoxesKept ==
  ASSUME BoxesInv, RowsKept, boxes' = boxes,
         \A n \in DOMAIN runs : /\ n \in DOMAIN runs'
                                /\ runs[n].map = <<>> \/ runs'[n].map = runs[n].map
  PROVE  BoxesInv'
<1> SUFFICES ASSUME NEW box \in boxes
             PROVE  /\ box.edit # 0 => box.edit \in DOMAIN rows' /\ Settled(box.edit)'
                    /\ box.shows = Shows(box.edit, box.page)'
                    /\ box.run # NoRun =>
                         /\ box.run \in DOMAIN runs' /\ box.index \in DOMAIN runs'[box.run].map
                         /\ runs'[box.run].map[box.index].edit = box.edit
                         /\ runs'[box.run].map[box.index].page = box.page
  BY DEF BoxesInv
<1>1. /\ box.edit # 0 => box.edit \in DOMAIN rows /\ Settled(box.edit)
      /\ box.shows = Shows(box.edit, box.page)
  BY DEF BoxesInv
<1>2. /\ box.edit # 0 => box.edit \in DOMAIN rows' /\ Settled(box.edit)'
      /\ Shows(box.edit, box.page)' = Shows(box.edit, box.page)
  <2> DEFINE e == box.edit
             p == box.page
  <2>1. e # 0 => e \in DOMAIN rows /\ Settled(e)
    BY <1>1
  <2> HIDE DEF e, p
  <2>2. (e # 0 => e \in DOMAIN rows' /\ Settled(e)') /\ Shows(e, p)' = Shows(e, p)
    BY <2>1, ShowsKept
  <2> QED
    BY <2>2 DEF e, p
<1>3. box.run # NoRun => runs'[box.run].map = runs[box.run].map /\ box.run \in DOMAIN runs'
  <2>1. DOMAIN <<>> = {}
    BY EmptySeq
  <2> QED
    BY <2>1 DEF BoxesInv
<1> QED
  BY <1>1, <1>2, <1>3 DEF BoxesInv

\* The turns of the maps, where the rows that carry them keep theirs.
LEMMA FaithfulKept ==
  ASSUME NEW s, Faithful(s),
         s.edit = 0 \/ (/\ s.edit \in DOMAIN rows /\ rows'[s.edit].kind = rows[s.edit].kind
                        /\ rows[s.edit].kind = "rotate" => rows'[s.edit].turn = rows[s.edit].turn)
  PROVE  Faithful(s)'
BY DEF Faithful

LEMMA RunTurnsKept ==
  ASSUME TypeInv, TurnsInv, RowsKept, NEW n \in DOMAIN runs
  PROVE  \A i \in DOMAIN runs[n].map :
           LET s == runs[n].map[i] IN
           s.edit # 0 /\ rows'[s.edit].kind = "rotate" => s.turn = rows'[s.edit].turn
<1> TAKE i \in DOMAIN runs[n].map
<1> DEFINE s == runs[n].map[i]
<1>1. s.edit = 0 \/ (s.edit \in DOMAIN rows /\ Settled(s.edit))
  BY DEF TypeInv, NamesInv, Settled
<1>2. Faithful(s)
  BY DEF TurnsInv
<1> HIDE DEF s
<1>3. s.edit # 0 /\ rows'[s.edit].kind = "rotate" => s.turn = rows'[s.edit].turn
  BY <1>1, <1>2 DEF Faithful, RowsKept
<1> QED
  BY <1>3 DEF s

LEMMA BuildTurnsKept ==
  ASSUME TypeInv, TurnsInv, RowsKept, TurnsKept \/ build = Idle
  PROVE  \A i \in DOMAIN build.map :
           LET s == build.map[i] IN
           s.edit # 0 /\ rows'[s.edit].kind = "rotate" => s.turn = rows'[s.edit].turn
<1> TAKE i \in DOMAIN build.map
<1> DEFINE s == build.map[i]
<1>1. build # Idle
  BY IdleType
<1>2. s.edit = 0 \/ s.edit \in DOMAIN rows
  BY <1>1 DEF TypeInv, NamesInv, RunsInv
<1>3. Faithful(s)
  BY DEF TurnsInv
<1> HIDE DEF s
<1>4. s.edit # 0 /\ rows'[s.edit].kind = "rotate" => s.turn = rows'[s.edit].turn
  BY <1>1, <1>2, <1>3 DEF Faithful, RowsKept, TurnsKept
<1> QED
  BY <1>4 DEF s

\* A step that plans nothing keeps the turns of every map.
LEMMA TurnsInvKept ==
  ASSUME TypeInv, TurnsInv, RowsKept, TurnsKept \/ build = Idle,
         build' = build \/ build' = Idle, DOMAIN runs' = DOMAIN runs,
         \A n \in DOMAIN runs : runs'[n].map = runs[n].map
  PROVE  TurnsInv'
<1>1. ASSUME NEW n \in DOMAIN runs', NEW i \in DOMAIN runs'[n].map
      PROVE  Faithful(runs[n].map[i])'
  <2>1. n \in DOMAIN runs /\ runs'[n].map = runs[n].map
    BY <1>1
  <2> QED
    BY <1>1, <2>1, RunTurnsKept DEF Faithful
<1>2. ASSUME NEW i \in DOMAIN build'.map PROVE Faithful(build.map[i])'
  <2>1. build' = build
    BY <1>2, IdleType
  <2> QED
    BY <1>2, <2>1, BuildTurnsKept DEF Faithful
<1> QED
  BY <1>1, <1>2 DEF TurnsInv, Faithful

LEMMA PagesInvEdit ==
  ASSUME NoLateTurn, PagesInv, Edit
  PROVE  TurnsInv' /\ BoxesInv'
<1> USE DEF PagesInv
<1>1. /\ RowsKept /\ UNCHANGED <<phase, runs, shards, build, boxes>>
      /\ TurnsKept \/ RotatePage
      /\ RotatePage => PassesLock("rotate")
  BY EditRows DEF TypeInv
<1>2. TurnsKept \/ build = Idle
  BY <1>1 DEF PassesLock, NoLateTurn, TypeInv, RunsInv
<1>3. TurnsInv'
  BY <1>1, <1>2, TurnsInvKept
<1>4. BoxesInv'
  BY <1>1, BoxesKept
<1> QED
  BY <1>3, <1>4

LEMMA PagesInvBegin ==
  ASSUME PagesInv, BeginBuild
  PROVE  TurnsInv' /\ BoxesInv'
<1> USE DEF PagesInv
<1>1. UNCHANGED <<phase, late, rows, shards, boxes>>
  BY DEF BeginBuild
<1>2. /\ \A i \in DOMAIN runs' : /\ i \in DOMAIN runs => runs'[i].map = runs[i].map
                                 /\ i \notin DOMAIN runs => runs'[i].map = <<>>
      /\ DOMAIN runs \subseteq DOMAIN runs' /\ build'.map = Plan
  BY BeginRuns
<1>3. RowsKept
  BY <1>1, RowsInvUnchanged DEF TypeInv
<1>4. \A i \in DOMAIN Plan : Faithful(Plan[i])
  <2>1. Plan \in Seq(Planned)
    BY PlanIsEmitted DEF TypeInv
  <2>2. \A i \in DOMAIN Plan : Plan[i] \in Planned
    BY <2>1, LenProperties, ElementOfSeq
  <2>3. \A s \in Planned : Faithful(s)
    BY DEF Planned, Faithful
  <2> QED
    BY <2>2, <2>3
<1>5. TurnsInv'
  <2>1. \A n \in DOMAIN runs' : n \notin DOMAIN runs => DOMAIN runs'[n].map = {}
    BY <1>2, EmptySeq
  <2>2. \A n \in DOMAIN runs' : \A i \in DOMAIN runs'[n].map : Faithful(runs[n].map[i])'
    BY <1>1, <1>2, <2>1 DEF TurnsInv, Faithful
  <2>3. \A i \in DOMAIN build'.map : Faithful(build.map[i])'
    BY <1>1, <1>2, <1>4 DEF Faithful
  <2> QED
    BY <2>2, <2>3 DEF TurnsInv, Faithful
<1>6. BoxesInv'
  BY <1>1, <1>2, <1>3, BoxesKept
<1> QED
  BY <1>5, <1>6

LEMMA PagesInvCommit ==
  ASSUME PagesInv, CommitBuild
  PROVE  TurnsInv' /\ BoxesInv'
<1> USE DEF PagesInv
<1>1. build # Idle /\ build' = Idle /\ boxes' = boxes
  BY DEF CommitBuild
<1>2. RowsKept /\ TurnsKept
  BY CommitRows
<1>3. /\ build.run \in DOMAIN runs /\ DOMAIN runs' = DOMAIN runs
      /\ \A n \in DOMAIN runs \ {build.run} : runs'[n] = runs[n]
      /\ runs'[build.run].map = build.map
  BY CommitRuns
<1>4. runs[build.run].map = <<>>
  BY <1>1, <1>3 DEF TypeInv, RunsInv
<1>5. TurnsInv'
  <2>1. ASSUME NEW n \in DOMAIN runs', NEW i \in DOMAIN runs'[n].map
        PROVE  Faithful(runs[n].map[i])'
    <3>1. CASE n = build.run
      BY <1>2, <1>3, <2>1, <3>1, BuildTurnsKept DEF Faithful
    <3>2. CASE n # build.run
      <4>1. n \in DOMAIN runs /\ runs'[n] = runs[n]
        BY <1>3, <3>2
      <4> QED
        BY <1>2, <2>1, <4>1, RunTurnsKept DEF Faithful
    <3> QED
      BY <3>1, <3>2
  <2>2. DOMAIN build'.map = {}
    BY <1>1, IdleType
  <2> QED
    BY <2>1, <2>2 DEF TurnsInv, Faithful
<1>6. BoxesInv'
  BY <1>1, <1>2, <1>3, <1>4, BoxesKept
<1> QED
  BY <1>5, <1>6

\* The steps that touch neither the rows nor what the runs and the build hold.
LEMMA PagesInvQuiet ==
  ASSUME PagesInv, UNCHANGED rows, boxes' = boxes,
         build' = build \/ build' = Idle, DOMAIN runs' = DOMAIN runs,
         \A n \in DOMAIN runs : runs'[n].map = runs[n].map
  PROVE  TurnsInv' /\ BoxesInv'
<1> USE DEF PagesInv
<1>1. RowsKept /\ TurnsKept
  BY RowsInvUnchanged DEF TypeInv
<1>2. TurnsInv'
  BY <1>1, TurnsInvKept
<1>3. BoxesInv'
  BY <1>1, BoxesKept
<1> QED
  BY <1>2, <1>3

LEMMA PagesInvFail ==
  ASSUME PagesInv, FailBuild
  PROVE  TurnsInv' /\ BoxesInv'
<1> DEFINE n == build.run
           r == [runs[n] EXCEPT !.attempts = runs[n].attempts + 1]
<1>1. /\ build # Idle /\ build' = Idle /\ UNCHANGED rows /\ boxes' = boxes
      /\ runs' = [runs EXCEPT ![n] = r]
  BY DEF FailBuild
<1>2. \A i \in DOMAIN runs : runs[i] \in Run
  BY RunFacts DEF PagesInv, TypeInv
<1>3. n \in DOMAIN runs => r.map = runs[n].map
  BY <1>2 DEF Run
<1> HIDE DEF r, n
<1>4. DOMAIN runs' = DOMAIN runs /\ \A i \in DOMAIN runs : runs'[i].map = runs[i].map
  BY <1>1, <1>3
<1> QED
  BY <1>1, <1>4, PagesInvQuiet

LEMMA PagesInvSuperseded ==
  ASSUME PagesInv, runs' = Superseded, UNCHANGED <<rows, build, boxes>>
  PROVE  TurnsInv' /\ BoxesInv'
<1>1. DOMAIN runs' = DOMAIN runs /\ \A i \in DOMAIN runs : runs'[i].map = runs[i].map
  BY SupersededIs DEF PagesInv, TypeInv, Superseded
<1> QED
  BY <1>1, PagesInvQuiet

LEMMA PagesInvOpen ==
  ASSUME PagesInv, OpenRedactionReview
  PROVE  TurnsInv' /\ BoxesInv'
<1> USE DEF PagesInv
<1> DEFINE n == CurrentRun
<1>1. /\ n # NoRun /\ boxes' = {Relocated(box, n) : box \in boxes}
      /\ UNCHANGED <<late, rows, runs, shards, build>>
  BY DEF OpenRedactionReview
<1>2. n \in DOMAIN runs /\ runs[n].map \in Seq(Source)
  BY <1>1, CurrentRunIs, RunFacts DEF TypeInv
<1>3. TurnsInv'
  BY <1>1 DEF TurnsInv, Faithful
<1> HIDE DEF n
<1>4. ASSUME NEW box \in boxes
      PROVE  LET next == Relocated(box, n) IN
             /\ next.edit = box.edit /\ next.page = box.page /\ next.shows = box.shows
             /\ \/ next.run = box.run /\ next.index = box.index
                \/ /\ next.run = n /\ next.index \in DOMAIN runs[n].map
                   /\ runs[n].map[next.index].edit = box.edit
                   /\ runs[n].map[next.index].page = box.page
  <2> DEFINE index == Place(runs[n].map, box.edit, box.page)
             next  == Relocated(box, n)
  <2>1. next = IF index = 0 THEN box ELSE [box EXCEPT !.run = n, !.index = index]
    BY DEF Relocated
  <2>2. index = 0 \/ (/\ index \in DOMAIN runs[n].map
                      /\ runs[n].map[index].edit = box.edit
                      /\ runs[n].map[index].page = box.page)
    BY <1>2, PlaceIs
  <2>3. box \in Box
    BY DEF TypeInv, EditsTypeOK, Box
  <2> HIDE DEF next, index
  <2>4. /\ next.edit = box.edit /\ next.page = box.page /\ next.shows = box.shows
        /\ \/ next.run = box.run /\ next.index = box.index
           \/ next.run = n /\ next.index = index /\ index # 0
    BY <2>1, <2>3 DEF Box
  <2>5. \/ next.run = box.run /\ next.index = box.index
        \/ /\ next.run = n /\ next.index \in DOMAIN runs[n].map
           /\ runs[n].map[next.index].edit = box.edit
           /\ runs[n].map[next.index].page = box.page
    BY <2>2, <2>4
  <2> QED
    BY <2>4, <2>5 DEF next
<1>5. BoxesInv'
  <2> SUFFICES ASSUME NEW box \in boxes
               PROVE  LET next == Relocated(box, n) IN
                      /\ next.edit # 0 => next.edit \in DOMAIN rows /\ Settled(next.edit)
                      /\ next.shows = Shows(next.edit, next.page)
                      /\ next.run # NoRun =>
                           /\ next.run \in DOMAIN runs /\ next.index \in DOMAIN runs[next.run].map
                           /\ runs[next.run].map[next.index].edit = next.edit
                           /\ runs[next.run].map[next.index].page = next.page
    <3>1. \A next \in boxes' :
            /\ next.edit # 0 => next.edit \in DOMAIN rows /\ Settled(next.edit)
            /\ next.shows = Shows(next.edit, next.page)
            /\ next.run # NoRun =>
                 /\ next.run \in DOMAIN runs /\ next.index \in DOMAIN runs[next.run].map
                 /\ runs[next.run].map[next.index].edit = next.edit
                 /\ runs[next.run].map[next.index].page = next.page
      BY <1>1
    <3> QED
      BY <1>1, <3>1 DEF BoxesInv, Settled, Shows
  <2> DEFINE next == Relocated(box, n)
  <2>1. /\ next.edit = box.edit /\ next.page = box.page /\ next.shows = box.shows
        /\ \/ next.run = box.run /\ next.index = box.index
           \/ /\ next.run = n /\ next.index \in DOMAIN runs[n].map
              /\ runs[n].map[next.index].edit = box.edit
              /\ runs[n].map[next.index].page = box.page
    BY <1>4
  <2> HIDE DEF next
  <2>2. /\ next.edit # 0 => next.edit \in DOMAIN rows /\ Settled(next.edit)
        /\ next.shows = Shows(next.edit, next.page)
        /\ next.run # NoRun =>
             /\ next.run \in DOMAIN runs /\ next.index \in DOMAIN runs[next.run].map
             /\ runs[next.run].map[next.index].edit = next.edit
             /\ runs[next.run].map[next.index].page = next.page
    BY <1>2, <2>1 DEF BoxesInv
  <2> QED
    BY <2>2 DEF next
<1> QED
  BY <1>3, <1>5

LEMMA PagesInvDraw ==
  ASSUME PagesInv, DrawBox
  PROVE  TurnsInv' /\ BoxesInv'
<1> USE DEF PagesInv
<1>1. UNCHANGED <<phase, late, rows, runs, shards, build>>
  BY DEF DrawBox
<1>2. PICK i \in DOMAIN Drawn :
        boxes' = boxes \cup {[edit |-> Drawn[i].edit, page |-> Drawn[i].page, run |-> CurrentRun,
                              index |-> i, shows |-> Picture(Drawn[i])]}
  BY DEF DrawBox, Drawn
<1> DEFINE s == Drawn[i]
           n == CurrentRun
<1>3. /\ s.edit # 0 => s.edit \in DOMAIN rows /\ Settled(s.edit)
      /\ Faithful(s)
      /\ n # NoRun => /\ n \in DOMAIN runs /\ i \in DOMAIN runs[n].map /\ runs[n].map[i] = s
  <2>1. CASE n = NoRun
    <3>1. Drawn = [p \in Pages |-> Original(p)]
      BY <2>1 DEF Drawn
    <3>2. s = Original(i)
      BY <3>1
    <3>3. s.edit = 0
      BY <3>2 DEF Original
    <3> QED
      BY <2>1, <3>3 DEF Faithful
  <2>2. CASE n # NoRun
    <3>1. n \in DOMAIN runs /\ Drawn = runs[n].map
      BY <2>2, CurrentRunIs DEF Drawn, TypeInv
    <3> QED
      BY <2>2, <3>1 DEF TypeInv, NamesInv, Settled, TurnsInv
  <2> QED
    BY <2>1, <2>2
<1> DEFINE drawn == [edit |-> s.edit, page |-> s.page, run |-> n, index |-> i,
                     shows |-> Picture(s)]
<1>4. boxes' = boxes \cup {drawn}
  BY <1>2
<1> HIDE DEF s, n
<1>5. Picture(s) = Shows(s.edit, s.page)
  BY <1>3, PictureIsShows
<1>6. /\ drawn.edit # 0 => drawn.edit \in DOMAIN rows /\ Settled(drawn.edit)
      /\ drawn.shows = Shows(drawn.edit, drawn.page)
      /\ drawn.run # NoRun =>
           /\ drawn.run \in DOMAIN runs /\ drawn.index \in DOMAIN runs[drawn.run].map
           /\ runs[drawn.run].map[drawn.index].edit = drawn.edit
           /\ runs[drawn.run].map[drawn.index].page = drawn.page
  BY <1>3, <1>5
<1> HIDE DEF drawn
<1>7. BoxesInv'
  BY <1>1, <1>4, <1>6 DEF BoxesInv, Settled, Shows
<1>8. TurnsInv'
  BY <1>1 DEF TurnsInv, Faithful
<1> QED
  BY <1>7, <1>8

LEMMA PagesInvStep ==
  ASSUME NoLateTurn, PagesInv, [EditsNext]_editVars
  PROVE  PagesInv'
<1>1. TypeInv'
  BY TypeInvStep DEF PagesInv
<1>2. CASE UNCHANGED editVars
  BY <1>1, <1>2, PagesInvQuiet DEF editVars, PagesInv
<1>3. CASE ApprovePages \/ CutShard \/ KillBuild \/ ComputeFails
  BY <1>1, <1>3, PagesInvQuiet DEF ApprovePages, CutShard, KillBuild, ComputeFails, PagesInv
<1>4. CASE ReopenPageReview \/ AdminSupersedes
  BY <1>1, <1>4, PagesInvSuperseded DEF ReopenPageReview, AdminSupersedes, PagesInv
<1>5. CASE Edit \/ BeginBuild \/ CommitBuild \/ FailBuild \/ OpenRedactionReview \/ DrawBox
  BY <1>1, <1>5, PagesInvEdit, PagesInvBegin, PagesInvCommit, PagesInvFail, PagesInvOpen,
     PagesInvDraw DEF PagesInv
<1> QED
  BY <1>2, <1>3, <1>4, <1>5 DEF EditsNext

LEMMA PagesInvHolds ==
  ASSUME NoLateTurn
  PROVE  EditsSpec => []PagesInv
<1>1. EditsInit => PagesInv
  <2> SUFFICES ASSUME EditsInit PROVE PagesInv
    OBVIOUS
  <2>1. TypeInv
    BY TypeInvInit
  <2>2. DOMAIN runs = {} /\ build = Idle /\ boxes = {}
    BY EmptySeq DEF EditsInit
  <2>3. TurnsInv /\ BoxesInv
    BY <2>2, IdleType DEF TurnsInv, BoxesInv
  <2> QED
    BY <2>1, <2>3 DEF PagesInv
<1>2. PagesInv /\ [EditsNext]_editVars => PagesInv'
  BY PagesInvStep
<1> QED
  BY <1>1, <1>2, PTL DEF EditsSpec

\* Where no turn of a page is written after the approval, a box stays on the picture
\* it was drawn on, whatever was decided and built since.
THEOREM BoxesStayOnTheirPage ==
  ASSUME NoLateTurn
  PROVE  EditsSpec => []BoxesKeepTheirPage
<1>1. PagesInv => BoxesKeepTheirPage
  BY BoxesOnTheirPages
<1> QED
  BY <1>1, PagesInvHolds, PTL
-----------------------------------------------------------------------------
(* What a write that changes no decision leaves of the plan.               *)

\* The rows say what they said: only what a run stamped on them may differ.
SameDecisions ==
  /\ DOMAIN rows' = DOMAIN rows
  /\ \A pk \in DOMAIN rows :
       /\ rows'[pk].kind = rows[pk].kind /\ rows'[pk].page = rows[pk].page
       /\ rows'[pk].anchor = rows[pk].anchor /\ rows'[pk].ordinal = rows[pk].ordinal
       /\ rows'[pk].turn = rows[pk].turn /\ rows'[pk].pages = rows[pk].pages
       /\ rows'[pk].stands = rows[pk].stands

EveryGapSorted == \A a : InKeyOrder(Inserts(a), InsertsAt(a), Count)

LEMMA EveryGapIsSorted == RowsInv => EveryGapSorted
BY InsertsSorted DEF EveryGapSorted

LEMMA EveryGapIsSortedNext == RowsInv' => EveryGapSorted'
BY EveryGapIsSorted, PTL

LEMMA StandingSame ==
  ASSUME SameDecisions, NEW kind
  PROVE  /\ Standing(kind)' = Standing(kind) /\ CurrentEdits' = CurrentEdits
         /\ Marked(kind)' = Marked(kind)
<1>1. Standing(kind)' = Standing(kind)
  BY DEF SameDecisions, Standing
<1>2. CurrentEdits' = CurrentEdits
  BY DEF SameDecisions, CurrentEdits
<1>3. \A pk \in Standing(kind) : rows'[pk].page = rows[pk].page
  BY DEF SameDecisions, Standing
<1>4. Marked(kind)' = {rows'[pk].page : pk \in Standing(kind)'}
  BY DEF Marked
<1>5. Marked(kind)' = Marked(kind)
  BY <1>1, <1>3, <1>4 DEF Marked
<1> QED
  BY <1>1, <1>2, <1>5

LEMMA AtSame ==
  ASSUME RowsInv, SameDecisions, NEW kind \in AllKinds \ {"insert"}, NEW p \in Marked(kind)
  PROVE  /\ At(kind, p)' = At(kind, p) /\ At(kind, p) \in DOMAIN rows
         /\ At(kind, p) \in CurrentEdits /\ rows[At(kind, p)].kind = kind
<1> DEFINE x == At(kind, p)
<1>1. x \in Standing(kind) /\ rows[x].page = p /\ x \in CurrentEdits /\ rows[x].kind = kind
  BY MarkedFacts
<1>2. Standing(kind)' = Standing(kind)
  BY StandingSame
<1>3. \A pk \in Standing(kind) : /\ pk \in DOMAIN rows /\ pk \in CurrentEdits
                                 /\ rows[pk].kind = kind
                                 /\ rows'[pk].page = rows[pk].page
  BY DEF SameDecisions, Standing, CurrentEdits
<1>4. \A pk \in Standing(kind) : rows[pk].page = p => pk = x
  BY <1>1, <1>3 DEF RowsInv, OneRowPerPage
<1>5. At(kind, p)' = CHOOSE pk \in Standing(kind)' : rows'[pk].page = p
  BY DEF At
<1> HIDE DEF x
<1>6. \E pk \in Standing(kind) : rows'[pk].page = p
  BY <1>1, <1>3
<1>7. At(kind, p)' \in Standing(kind) /\ rows'[At(kind, p)'].page = p
  BY <1>2, <1>5, <1>6
<1>8. At(kind, p)' = x
  BY <1>3, <1>4, <1>7
<1> QED
  BY <1>1, <1>3, <1>8 DEF x

LEMMA InsertsSame ==
  ASSUME RowsInv, RowsInv', SameDecisions, NEW a
  PROVE  Inserts(a)' = Inserts(a)
<1>1. InKeyOrder(Inserts(a), InsertsAt(a), Count)
  BY InsertsSorted
<1>2. InKeyOrder(Inserts(a)', InsertsAt(a)', Count)
  BY EveryGapIsSortedNext DEF EveryGapSorted
<1>3. InsertsAt(a)' = InsertsAt(a)
  <2>1. Standing("insert")' = Standing("insert")
    BY StandingSame
  <2>2. \A pk \in Standing("insert") : rows'[pk].anchor = rows[pk].anchor
    BY DEF SameDecisions, Standing
  <2> QED
    BY <2>1, <2>2 DEF InsertsAt
<1>4. IsKey(Count, InsertsAt(a))
  <2>1. InsertsAt(a) \in SUBSET Nat
    BY RowFacts DEF InsertsAt, Pks
  <2> QED
    BY <2>1, CountIsKey
<1> QED
  BY <1>1, <1>2, <1>3, <1>4, SortUnique

LEMMA MovesSame ==
  ASSUME RowsInv, SameDecisions
  PROVE  Moves' = Moves /\ InsertAnchors' = InsertAnchors
<1>1. Marked("move")' = Marked("move") /\ "move" \in AllKinds \ {"insert"}
  BY StandingSame DEF AllKinds
<1>2. \A p \in Marked("move") : rows'[At("move", p)'].anchor = rows[At("move", p)].anchor
  BY <1>1, AtSame DEF SameDecisions
<1>3. Moves' = Moves
  <2>1. Moves' = [p \in Marked("move")' |-> rows'[At("move", p)'].anchor]
    BY DEF Moves
  <2> QED
    BY <1>1, <1>2, <2>1 DEF Moves
<1>4. InsertAnchors' = InsertAnchors
  <2>1. Standing("insert")' = Standing("insert")
    BY StandingSame
  <2>2. \A pk \in Standing("insert") : rows'[pk].anchor = rows[pk].anchor
    BY DEF SameDecisions, Standing
  <2>3. InsertAnchors' = {rows'[pk].anchor : pk \in Standing("insert")'}
    BY DEF InsertAnchors
  <2> QED
    BY <2>1, <2>2, <2>3 DEF InsertAnchors
<1> QED
  BY <1>3, <1>4

LEMMA UploadSame ==
  ASSUME SameDecisions, NEW pk \in DOMAIN rows
  PROVE  Upload(pk)' = Upload(pk)
BY DEF SameDecisions, Upload

LEMMA EmitSlotSame ==
  ASSUME RowsInv, SameDecisions, NEW p
  PROVE  EmitSlot(p)' = EmitSlot(p)
<1>1. /\ Marked("delete")' = Marked("delete") /\ Marked("replace")' = Marked("replace")
      /\ Marked("rotate")' = Marked("rotate")
  BY StandingSame
<1>2. {"replace", "rotate"} \subseteq AllKinds \ {"insert"}
  BY DEF AllKinds
<1>3. CASE p \in Marked("delete")
  BY <1>1, <1>3 DEF EmitSlot
<1>4. CASE p \notin Marked("delete") /\ p \in Marked("replace")
  <2>1. At("replace", p)' = At("replace", p) /\ At("replace", p) \in DOMAIN rows
    BY <1>2, <1>4, AtSame
  <2> DEFINE x == At("replace", p)
  <2>2. EmitSlot(p) = [k \in 1..rows[x].pages |-> [edit |-> x, page |-> k - 1, turn |-> 0]]
    BY <1>4 DEF EmitSlot, Upload
  <2>3. EmitSlot(p)' = [k \in 1..rows'[x'].pages |-> [edit |-> x', page |-> k - 1, turn |-> 0]]
    BY <1>1, <1>4 DEF EmitSlot, Upload
  <2> QED
    BY <2>1, <2>2, <2>3 DEF SameDecisions
<1>5. CASE p \notin Marked("delete") /\ p \notin Marked("replace") /\ p \in Marked("rotate")
  <2>1. At("rotate", p)' = At("rotate", p) /\ At("rotate", p) \in DOMAIN rows
    BY <1>2, <1>5, AtSame
  <2> DEFINE x == At("rotate", p)
  <2>2. EmitSlot(p) = <<[edit |-> x, page |-> 0, turn |-> rows[x].turn]>>
    BY <1>5 DEF EmitSlot, Turned
  <2>3. EmitSlot(p)' = <<[edit |-> x', page |-> 0, turn |-> rows'[x'].turn]>>
    BY <1>1, <1>5 DEF EmitSlot, Turned
  <2> QED
    BY <2>1, <2>2, <2>3 DEF SameDecisions
<1>6. CASE p \notin Marked("delete") /\ p \notin Marked("replace") /\ p \notin Marked("rotate")
  BY <1>1, <1>6 DEF EmitSlot
<1> QED
  BY <1>3, <1>4, <1>5, <1>6

LEMMA EmitSame ==
  ASSUME RowsInv, RowsInv', SameDecisions, NEW slot
  PROVE  Emit(slot)' = Emit(slot)
<1> DEFINE n == slot.n
<1>1. EmitSlot(n)' = EmitSlot(n)
  BY EmitSlotSame
<1>2. Inserts(n)' = Inserts(n)
  BY InsertsSame
<1>3. [i \in DOMAIN Inserts(n) |-> Upload(Inserts(n)[i])]'
        = [i \in DOMAIN Inserts(n) |-> Upload(Inserts(n)[i])]
  <2> DEFINE s == Inserts(n)
  <2>1. \A i \in DOMAIN s : s[i] \in DOMAIN rows
    BY InsertFacts, RowFacts
  <2>2. \A i \in DOMAIN s : rows'[s[i]].pages = rows[s[i]].pages
    BY <2>1 DEF SameDecisions
  <2>3. [i \in DOMAIN s |-> Upload(s[i])]'
          = [i \in DOMAIN s' |-> [k \in 1..rows'[s'[i]].pages |->
                                    [edit |-> s'[i], page |-> k - 1, turn |-> 0]]]
    BY DEF Upload
  <2>4. [i \in DOMAIN s |-> Upload(s[i])]
          = [i \in DOMAIN s |-> [k \in 1..rows[s[i]].pages |->
                                   [edit |-> s[i], page |-> k - 1, turn |-> 0]]]
    BY DEF Upload
  <2>5. s' = s
    BY <1>2
  <2>6. \A i \in DOMAIN s :
          [k \in 1..rows'[s[i]].pages |-> [edit |-> s[i], page |-> k - 1, turn |-> 0]]
            = [k \in 1..rows[s[i]].pages |-> [edit |-> s[i], page |-> k - 1, turn |-> 0]]
    BY <2>2
  <2>7. [i \in DOMAIN s |-> Upload(s[i])]'
          = [i \in DOMAIN s |-> [k \in 1..rows'[s[i]].pages |->
                                    [edit |-> s[i], page |-> k - 1, turn |-> 0]]]
    BY <2>3, <2>5
  <2> HIDE DEF s
  <2>8. [i \in DOMAIN s |-> [k \in 1..rows'[s[i]].pages |->
                                    [edit |-> s[i], page |-> k - 1, turn |-> 0]]]
          = [i \in DOMAIN s |-> [k \in 1..rows[s[i]].pages |->
                                    [edit |-> s[i], page |-> k - 1, turn |-> 0]]]
    BY <2>6, Zenon
  <2> QED
    BY <2>4, <2>7, <2>8 DEF s
<1>4. CASE slot.is = "page"
  BY <1>1, <1>4 DEF Emit
<1>5. CASE slot.is # "page"
  BY <1>3, <1>5 DEF Emit
<1> QED
  BY <1>4, <1>5

\* The plan, as data.
EmitTable == [slot \in Slot |-> Emit(slot)]
SlotsNow  == Upto(PageCount)

LEMMA PlanFromTable ==
  RowsInv => /\ Plan = FlattenSeq([i \in DOMAIN SlotsNow |-> EmitTable[SlotsNow[i]]])
             /\ SlotsNow = SlotOrder(PageCount, InsertAnchors)
<1> SUFFICES ASSUME RowsInv
             PROVE  /\ Plan = FlattenSeq([i \in DOMAIN SlotsNow |-> EmitTable[SlotsNow[i]]])
                    /\ SlotsNow = SlotOrder(PageCount, InsertAnchors)
  OBVIOUS
<1>1. Plan = FlattenSeq([i \in DOMAIN SlotsNow |-> Emit(SlotsNow[i])])
  BY PlanIsEmitted DEF Emitted, SlotsNow
<1>2. SlotsNow \in Seq(Slot)
  BY UptoType, PageEditsAssumption DEF SlotsNow
<1>3. \A i \in DOMAIN SlotsNow : SlotsNow[i] \in Slot
  BY <1>2, LenProperties, ElementOfSeq
<1>4. \A i \in DOMAIN SlotsNow : Emit(SlotsNow[i]) = EmitTable[SlotsNow[i]]
  BY <1>3 DEF EmitTable
<1>5. InsertAnchors \in SUBSET Anchors
  BY RowFacts DEF InsertAnchors, Row
<1> QED
  BY <1>1, <1>4, <1>5, SlotOrderIsUpto DEF SlotsNow

LEMMA PlanFromTableNext ==
  RowsInv' => /\ Plan' = FlattenSeq([i \in DOMAIN SlotsNow' |-> EmitTable'[SlotsNow'[i]]])
              /\ SlotsNow' = SlotOrder(PageCount, InsertAnchors)'
<1>1. (RowsInv => /\ Plan = FlattenSeq([i \in DOMAIN SlotsNow |-> EmitTable[SlotsNow[i]]])
                  /\ SlotsNow = SlotOrder(PageCount, InsertAnchors))'
  BY PlanFromTable, PTL
<1> QED
  BY <1>1

LEMMA PlanSame ==
  ASSUME RowsInv, RowsInv', SameDecisions
  PROVE  Plan' = Plan /\ CurrentEdits' = CurrentEdits
<1>1. EmitTable' = EmitTable
  <2>1. \A slot \in Slot : Emit(slot)' = Emit(slot)
    BY EmitSame
  <2>2. EmitTable' = [slot \in Slot |-> Emit(slot)']
    BY DEF EmitTable, Slot, Pages, Anchors
  <2> QED
    BY <2>1, <2>2 DEF EmitTable
<1>2. SlotsNow' = SlotsNow
  <2>1. Moves' = Moves /\ InsertAnchors' = InsertAnchors
    BY MovesSame
  <2>2. SlotOrder(PageCount, InsertAnchors)' = SlotOrder(PageCount, InsertAnchors)
    BY <2>1 DEF SlotOrder, Gap
  <2> QED
    BY <2>2, PlanFromTable, PlanFromTableNext
<1>3. Plan' = Plan
  BY <1>1, <1>2, PlanFromTable, PlanFromTableNext
<1> QED
  BY <1>3, StandingSame
-----------------------------------------------------------------------------
(* A built run is the plan of the standing decisions, or it is due again.  *)
(* A turn and a move of an open row rewrite it in place, under the same    *)
(* pk: neither may be written after the approval.                          *)

NoLateRewrite == LateKinds \cap {"rotate", "move"} = {}

LEMMA AppendChanges ==
  ASSUME RowsInv, NEW q \in Seq(Row), Len(q) = Len(rows), NEW row \in Row, row.stands,
         rows' = Append(q, row)
  PROVE  CurrentEdits' # CurrentEdits
<1>1. DOMAIN rows = 1..Len(rows) /\ Len(rows) \in Nat
  BY RowFacts
<1>2. rows' \in Seq(Row) /\ Len(rows') = Len(rows) + 1 /\ rows'[Len(rows) + 1] = row
  BY <1>1, AppendProperties
<1>3. Len(rows) + 1 \in DOMAIN rows' /\ Len(rows) + 1 \notin DOMAIN rows
  BY <1>1, <1>2, LenProperties
<1>4. Len(rows) + 1 \in CurrentEdits'
  BY <1>2, <1>3 DEF CurrentEdits
<1> QED
  BY <1>3, <1>4 DEF CurrentEdits

LEMMA WithdrawChanges ==
  ASSUME RowsInv, NEW S, rows' = Withdrawn(S), NEW pk \in S, pk \in CurrentEdits
  PROVE  CurrentEdits' # CurrentEdits
<1>1. pk \in DOMAIN rows /\ rows[pk] \in Row
  BY RowFacts
<1>2. rows'[pk] = [rows[pk] EXCEPT !.stands = FALSE]
  BY <1>1, WithdrawnIs
<1>3. ~rows'[pk].stands
  BY <1>1, <1>2 DEF Row
<1> QED
  BY <1>3 DEF CurrentEdits

LEMMA DeleteChanges ==
  ASSUME RowsInv, DeletePage
  PROVE  rows' = rows \/ CurrentEdits' # CurrentEdits
<1>1. PICK p \in Pages : Written(Supersede("delete", p, Decision("delete", p, 0, 0)))
  BY DEF DeletePage
<1> DEFINE at   == StandingAt("delete", p)
           open == {x \in at : rows[x].run = NoRun}
           pk   == CHOOSE x \in open : TRUE
           row  == Decision("delete", p, 0, 0)
<1>2. 0 \in Anchors /\ 0 \in Turns \cup {0} /\ "delete" \in AllKinds \ {"insert"}
  BY PageEditsAssumption DEF Anchors, AllKinds
<1>3. row \in Row /\ row.stands
  BY <1>2, DecisionType
<1>4. CASE open # {}
  <2>1. rows' = [rows EXCEPT ![pk] = row]
    BY <1>1, <1>4 DEF Written, Supersede
  <2>2. pk \in at /\ rows[pk].run = NoRun
    BY <1>4
  <2>3. /\ pk \in DOMAIN rows /\ rows[pk].kind = "delete" /\ rows[pk].stands
        /\ rows[pk].page = p
    BY <2>2 DEF StandingAt, Standing
  <2> HIDE DEF pk
  <2>4. rows[pk] \in Row /\ RowShape(rows[pk], pk)
    BY <2>3, RowFacts DEF RowsInv
  <2>5. rows[pk] = row
    BY <2>2, <2>3, <2>4 DEF RowShape, Row, Decision
  <2> HIDE DEF row
  <2>6. rows' = rows
    BY <2>1, <2>3, <2>5 DEF RowsInv
  <2> QED
    BY <2>6
<1>5. CASE open = {}
  <2>1. rows' = Append(Withdrawn(at), row)
    BY <1>1, <1>5 DEF Written, Supersede
  <2> HIDE DEF row, at
  <2> QED
    BY <1>3, <2>1, WithdrawnIs, AppendChanges
<1> QED
  BY <1>4, <1>5

LEMMA ReplaceChanges ==
  ASSUME RowsInv, ReplacePage
  PROVE  CurrentEdits' # CurrentEdits
<1>1. PICK p \in Pages : Written(Append(Withdrawn(StandingAt("replace", p)),
                                        Decision("replace", p, 0, 0)))
  BY DEF ReplacePage
<1> DEFINE row == Decision("replace", p, 0, 0)
<1>2. 0 \in Anchors /\ 0 \in Turns \cup {0} /\ "replace" \in AllKinds \ {"insert"}
  BY PageEditsAssumption DEF Anchors, AllKinds
<1>3. row \in Row /\ row.stands
  BY <1>2, DecisionType
<1>4. rows' = Append(Withdrawn(StandingAt("replace", p)), row)
  BY <1>1 DEF Written
<1> HIDE DEF row
<1> QED
  BY <1>3, <1>4, WithdrawnIs, AppendChanges

LEMMA InsertChanges ==
  ASSUME RowsInv, AddPageInsert
  PROVE  CurrentEdits' # CurrentEdits
<1>1. PICK a \in Anchors, n \in UploadPages :
        Written(Append(rows, [Decision("insert", 0, a, 0) EXCEPT
                                !.ordinal = NextOrdinal(a), !.pages = n]))
  BY DEF AddPageInsert
<1> DEFINE d   == Decision("insert", 0, a, 0)
           row == [d EXCEPT !.ordinal = NextOrdinal(a), !.pages = n]
<1>2. NextOrdinal(a) \in 0..MaxRows /\ 0 \in 0..MaxRuns /\ 0 \in Anchors /\ 0 \in 0..MaxRows
  BY NextOrdinalAbove, RowFacts, PageEditsAssumption DEF RowsInv, Anchors
<1>3. d \in Row /\ d.stands
  BY <1>2, PageEditsAssumption DEF Decision, NoRun, Row, AllKinds
<1>4. rows' = Append(rows, row)
  BY <1>1 DEF Written
<1> HIDE DEF d
<1>5. row \in Row /\ row.stands
  BY <1>2, <1>3 DEF Row
<1> HIDE DEF row
<1> QED
  BY <1>4, <1>5, AppendChanges DEF RowsInv

LEMMA UndoChanges ==
  ASSUME RowsInv, UndoPage \/ RemovePageInsert
  PROVE  CurrentEdits' # CurrentEdits
<1>1. CASE UndoPage
  <2>0. PICK kind \in {"delete", "move", "replace"} :
          \E p \in Marked(kind) : rows' = Withdrawn(StandingAt(kind, p))
    BY <1>1 DEF UndoPage
  <2>1. PICK p \in Marked(kind) : rows' = Withdrawn(StandingAt(kind, p))
    BY <2>0
  <2>2. PICK pk \in Standing(kind) : rows[pk].page = p
    BY DEF Marked
  <2>3. pk \in StandingAt(kind, p) /\ pk \in CurrentEdits
    BY <2>2 DEF StandingAt, Standing, CurrentEdits
  <2> QED
    BY <2>1, <2>3, WithdrawChanges
<1>2. CASE RemovePageInsert
  <2>1. PICK pk \in Standing("insert") : rows' = Withdrawn({pk})
    BY <1>2 DEF RemovePageInsert
  <2>2. pk \in CurrentEdits
    BY DEF Standing, CurrentEdits
  <2> QED
    BY <2>1, <2>2, WithdrawChanges
<1> QED
  BY <1>1, <1>2

\* A request that was late is the last one, and what it writes shows in the set of
\* standing decisions.
LEMMA LateEdit ==
  ASSUME NoLateRewrite, RowsInv, Edit, phase # "review"
  PROVE  late /\ ~late' /\ (rows' = rows \/ CurrentEdits' # CurrentEdits)
<1>1. late /\ late' = FALSE /\ ~RotatePage /\ ~MovePage
  <2>1. \A kind \in Kinds : PassesLock(kind) =>
          late /\ late' = FALSE /\ kind # "rotate" /\ kind # "move"
    BY DEF PassesLock, NoLateRewrite
  <2> QED
    BY <2>1, EditRows DEF RotatePage, MovePage, Decide
<1> QED
  BY <1>1, DeleteChanges, ReplaceChanges, InsertChanges, UndoChanges DEF Edit
-----------------------------------------------------------------------------
Agrees(edits, map) ==
  \/ edits = CurrentEdits /\ map = Plan
  \/ ~late /\ edits # CurrentEdits

PlanInv ==
  /\ \A n \in Standings : runs[n].built => Agrees(runs[n].edits, runs[n].map)
  /\ build # Idle => Agrees(build.edits, build.map)

DecisionInv == TypeInv /\ PlanInv

LEMMA SameRowsSameDecisions ==
  ASSUME UNCHANGED rows
  PROVE  SameDecisions
BY DEF SameDecisions

\* A step that changes no decision, and nothing of what the runs hold.
LEMMA PlanInvQuiet ==
  ASSUME DecisionInv, RowsInv', SameDecisions, phase = "review" \/ late' = late,
         build' = build \/ build' = Idle, DOMAIN runs' = DOMAIN runs,
         \A n \in DOMAIN runs : /\ runs'[n].stands => runs[n].stands
                                /\ runs'[n].built = runs[n].built
                                /\ runs'[n].edits = runs[n].edits /\ runs'[n].map = runs[n].map
  PROVE  PlanInv'
<1> USE DEF DecisionInv, TypeInv
<1>1. Plan' = Plan /\ CurrentEdits' = CurrentEdits
  BY PlanSame
<1>2. CASE phase = "review"
  <2>1. Standings = {} /\ build = Idle
    BY <1>2 DEF RunsInv
  <2>2. Standings' = {} /\ build' = Idle
    BY <2>1 DEF Standings
  <2> QED
    BY <2>2 DEF PlanInv
<1>3. CASE late' = late
  <2>1. Standings' \subseteq Standings /\ Standings \subseteq DOMAIN runs
    BY DEF Standings
  <2>2. \A n \in Standings' : runs'[n].built =>
          \/ runs'[n].edits = CurrentEdits' /\ runs'[n].map = Plan'
          \/ ~late' /\ runs'[n].edits # CurrentEdits'
    BY <1>1, <1>3, <2>1 DEF PlanInv, Agrees
  <2>3. build' # Idle => \/ build'.edits = CurrentEdits' /\ build'.map = Plan'
                         \/ ~late' /\ build'.edits # CurrentEdits'
    BY <1>1, <1>3 DEF PlanInv, Agrees
  <2> QED
    BY <2>2, <2>3 DEF PlanInv, Agrees
<1> QED
  BY <1>2, <1>3

LEMMA PlanInvEdit ==
  ASSUME NoLateRewrite, DecisionInv, Edit
  PROVE  PlanInv'
<1> USE DEF DecisionInv, TypeInv
<1>1. RowsInv' /\ UNCHANGED <<phase, runs, shards, build, boxes>>
  BY EditRows
<1>2. Standings' = Standings
  BY <1>1 DEF Standings
<1>3. CASE phase = "review"
  <2>1. Standings = {} /\ build = Idle
    BY <1>3 DEF RunsInv
  <2> QED
    BY <1>1, <1>2, <2>1 DEF PlanInv
<1>4. CASE phase # "review"
  <2>1. late /\ ~late' /\ (rows' = rows \/ CurrentEdits' # CurrentEdits)
    BY <1>4, LateEdit
  <2>2. /\ \A n \in Standings : runs[n].built =>
             runs[n].edits = CurrentEdits /\ runs[n].map = Plan
        /\ build # Idle => build.edits = CurrentEdits /\ build.map = Plan
    BY <2>1 DEF PlanInv, Agrees
  <2>3. rows' = rows => Plan' = Plan /\ CurrentEdits' = CurrentEdits
    BY <1>1, PlanSame, SameRowsSameDecisions
  <2>4. CASE rows' = rows
    BY <1>1, <1>2, <2>2, <2>3, <2>4 DEF PlanInv, Agrees
  <2>5. CASE CurrentEdits' # CurrentEdits
    BY <1>1, <1>2, <2>1, <2>2, <2>5 DEF PlanInv, Agrees
  <2> QED
    BY <2>1, <2>4, <2>5
<1> QED
  BY <1>3, <1>4

LEMMA PlanInvBegin ==
  ASSUME DecisionInv, BeginBuild, RowsInv'
  PROVE  PlanInv'
<1> USE DEF DecisionInv
<1>1. UNCHANGED <<phase, late, rows, shards, boxes>>
  BY DEF BeginBuild
<1>2. /\ ~runs'[build'.run].built /\ Standings' \subseteq {build'.run}
      /\ build'.edits = CurrentEdits /\ build'.map = Plan
  BY BeginRuns
<1>3. Plan' = Plan /\ CurrentEdits' = CurrentEdits
  BY <1>1, PlanSame, SameRowsSameDecisions DEF TypeInv
<1> QED
  BY <1>2, <1>3 DEF PlanInv, Agrees

LEMMA PlanInvCommit ==
  ASSUME DecisionInv, CommitBuild
  PROVE  PlanInv'
<1> USE DEF DecisionInv
<1>1. build # Idle /\ build' = Idle /\ late' = late
  BY DEF CommitBuild
<1>2. RowsInv' /\ SameDecisions
  BY CommitRows DEF SameDecisions, SameBut
<1>3. Plan' = Plan /\ CurrentEdits' = CurrentEdits
  BY <1>2, PlanSame DEF TypeInv
<1>4. /\ build.run = Len(runs) /\ DOMAIN runs' = DOMAIN runs
      /\ \A n \in DOMAIN runs : runs'[n].stands = runs[n].stands
      /\ runs'[build.run].edits = build.edits /\ runs'[build.run].map = build.map
  BY CommitRuns
<1>5. Standings' \subseteq {build.run}
  BY <1>4 DEF Standings, TypeInv, RunsInv
<1> QED
  BY <1>1, <1>3, <1>4, <1>5 DEF PlanInv, Agrees

LEMMA PlanInvStep ==
  ASSUME NoLateRewrite, DecisionInv, [EditsNext]_editVars
  PROVE  DecisionInv'
<1>1. TypeInv' /\ RowsInv'
  BY TypeInvStep DEF DecisionInv, TypeInv
<1>2. CASE UNCHANGED editVars
  BY <1>1, <1>2, PlanInvQuiet, SameRowsSameDecisions DEF editVars, DecisionInv
<1>3. CASE ApprovePages \/ CutShard \/ KillBuild \/ OpenRedactionReview \/ DrawBox \/ ComputeFails
  BY <1>1, <1>3, PlanInvQuiet, SameRowsSameDecisions
     DEF ApprovePages, CutShard, KillBuild, OpenRedactionReview, DrawBox, ComputeFails, DecisionInv
<1>4. CASE ReopenPageReview \/ AdminSupersedes
  <2>1. /\ DOMAIN runs' = DOMAIN runs /\ UNCHANGED <<rows, build>>
        /\ \A n \in DOMAIN runs : ~runs'[n].stands
    BY <1>4, SupersededIs DEF ReopenPageReview, AdminSupersedes, Superseded, DecisionInv, TypeInv
  <2>2. Standings' = {}
    BY <2>1 DEF Standings
  <2>3. Plan' = Plan /\ CurrentEdits' = CurrentEdits
    BY <1>1, <2>1, PlanSame, SameRowsSameDecisions DEF DecisionInv, TypeInv
  <2>4. build = Idle \/ late' = late
    BY <1>4 DEF ReopenPageReview, AdminSupersedes
  <2> QED
    BY <1>1, <2>1, <2>2, <2>3, <2>4 DEF DecisionInv, PlanInv, Agrees
<1>5. CASE FailBuild
  <2> DEFINE n == build.run
             r == [runs[n] EXCEPT !.attempts = runs[n].attempts + 1]
  <2>1. /\ build' = Idle /\ UNCHANGED <<rows, late>> /\ runs' = [runs EXCEPT ![n] = r]
    BY <1>5 DEF FailBuild
  <2>2. \A i \in DOMAIN runs : runs[i] \in Run
    BY RunFacts DEF DecisionInv, TypeInv
  <2>3. n \in DOMAIN runs => /\ r.map = runs[n].map /\ r.edits = runs[n].edits
                             /\ r.built = runs[n].built /\ r.stands = runs[n].stands
    BY <2>2 DEF Run
  <2> HIDE DEF r, n
  <2>4. DOMAIN runs' = DOMAIN runs
        /\ \A i \in DOMAIN runs : /\ runs'[i].map = runs[i].map /\ runs'[i].edits = runs[i].edits
                                  /\ runs'[i].built = runs[i].built
                                  /\ runs'[i].stands = runs[i].stands
    BY <2>1, <2>3
  <2> QED
    BY <1>1, <2>1, <2>4, PlanInvQuiet, SameRowsSameDecisions DEF DecisionInv
<1>6. CASE Edit \/ BeginBuild \/ CommitBuild
  BY <1>1, <1>6, PlanInvEdit, PlanInvBegin, PlanInvCommit DEF DecisionInv
<1> QED
  BY <1>2, <1>3, <1>4, <1>5, <1>6 DEF EditsNext

LEMMA DecisionInvHolds ==
  ASSUME NoLateRewrite
  PROVE  EditsSpec => []DecisionInv
<1>1. EditsInit => DecisionInv
  <2> SUFFICES ASSUME EditsInit PROVE DecisionInv
    OBVIOUS
  <2>1. TypeInv
    BY TypeInvInit
  <2>2. DOMAIN runs = {} /\ build = Idle
    BY EmptySeq DEF EditsInit
  <2>3. PlanInv
    BY <2>2 DEF PlanInv, Standings
  <2> QED
    BY <2>1, <2>3 DEF DecisionInv
<1>2. DecisionInv /\ [EditsNext]_editVars => DecisionInv'
  BY PlanInvStep
<1> QED
  BY <1>1, <1>2, PTL DEF EditsSpec
-----------------------------------------------------------------------------
(* A function over a sequence, and the sequences it gives, end to end.     *)

Mapped(F, s) == [i \in DOMAIN s |-> F[s[i]]]
Joined(F, s) == FlattenSeq(Mapped(F, s))

\* F takes the members of T to members of U.
Fills(F, T, U) == F \in [T -> U]

\* A concatenation, kept whole.
Cat(q, r) == q \o r

\* What Mapped gives, index by index.
IsMapped(m, F, s, T) ==
  /\ Len(m) = Len(s) /\ DOMAIN m = 1..Len(s) /\ DOMAIN s = 1..Len(s) /\ Len(s) \in Nat
  /\ \A i \in 1..Len(s) : s[i] \in T /\ m[i] = F[s[i]]

LEMMA MappedType ==
  ASSUME NEW T, NEW U, NEW F, Fills(F, T, U), NEW s \in Seq(T)
  PROVE  Mapped(F, s) \in Seq(U) /\ IsMapped(Mapped(F, s), F, s, T)
<1>1. DOMAIN s = 1..Len(s) /\ Len(s) \in Nat /\ \A i \in 1..Len(s) : s[i] \in T
  BY LenProperties, ElementOfSeq
<1>2. Mapped(F, s) = [i \in 1..Len(s) |-> F[s[i]]]
  BY <1>1 DEF Mapped
<1>3. Mapped(F, s) \in [1..Len(s) -> U]
  BY <1>1, <1>2 DEF Fills
<1>4. Mapped(F, s) \in Seq(U) /\ Len(Mapped(F, s)) = Len(s)
  BY <1>1, <1>3
<1> QED
  BY <1>1, <1>2, <1>4 DEF IsMapped

LEMMA MappedEmpty ==
  ASSUME NEW F
  PROVE  Mapped(F, <<>>) = <<>> /\ Joined(F, <<>>) = <<>>
<1>1. Mapped(F, <<>>) \in Seq({}) /\ Len(Mapped(F, <<>>)) = 0
  BY EmptySeq DEF Mapped
<1>2. Mapped(F, <<>>) = <<>>
  BY <1>1, EmptySeq
<1> QED
  BY <1>2, FlattenEmpty DEF Joined

LEMMA MappedOne ==
  ASSUME NEW T, NEW U, NEW F, Fills(F, T, U), NEW x \in T
  PROVE  Mapped(F, <<x>>) = <<F[x]>>
<1>1. <<x>> \in Seq(T) /\ Len(<<x>>) = 1 /\ <<x>>[1] = x
  OBVIOUS
<1>2. /\ Mapped(F, <<x>>) \in Seq(U) /\ Len(Mapped(F, <<x>>)) = 1
      /\ Mapped(F, <<x>>)[1] = F[x]
  <2>1. Mapped(F, <<x>>) \in Seq(U) /\ IsMapped(Mapped(F, <<x>>), F, <<x>>, T)
    BY <1>1, MappedType
  <2> QED
    BY <1>1, <2>1 DEF IsMapped
<1>3. <<F[x]>> \in Seq(U) /\ Len(<<F[x]>>) = 1 /\ <<F[x]>>[1] = F[x]
  BY DEF Fills
<1>4. \A i \in 1..1 : Mapped(F, <<x>>)[i] = <<F[x]>>[i]
  BY <1>2, <1>3
<1> QED
  BY <1>2, <1>3, <1>4, SeqEqual

IsCat(l, q, r, T) ==
  /\ l \in Seq(T) /\ Len(l) = Len(q) + Len(r)
  /\ \A i \in 1..(Len(q) + Len(r)) : l[i] = IF i <= Len(q) THEN q[i] ELSE r[i - Len(q)]

LEMMA CatIs ==
  ASSUME NEW T, NEW q \in Seq(T), NEW r \in Seq(T)
  PROVE  IsCat(Cat(q, r), q, r, T) /\ Cat(q, r) \in Seq(T)
BY ConcatProperties DEF Cat, IsCat

LEMMA MappedConcat ==
  ASSUME NEW T, NEW U, NEW F, Fills(F, T, U), NEW q \in Seq(T), NEW r \in Seq(T)
  PROVE  Mapped(F, Cat(q, r)) = Cat(Mapped(F, q), Mapped(F, r))
<1> DEFINE m == Mapped(F, q)
           k == Mapped(F, r)
           l == Mapped(F, Cat(q, r))
<1>1. IsCat(Cat(q, r), q, r, T)
  BY CatIs
<1>2. /\ m \in Seq(U) /\ Len(m) = Len(q) /\ Len(q) \in Nat
      /\ \A i \in 1..Len(q) : m[i] = F[q[i]]
  BY MappedType DEF IsMapped
<1>3. /\ k \in Seq(U) /\ Len(k) = Len(r) /\ Len(r) \in Nat
      /\ \A i \in 1..Len(r) : k[i] = F[r[i]]
  BY MappedType DEF IsMapped
<1>4. /\ l \in Seq(U) /\ Len(l) = Len(q) + Len(r)
      /\ \A i \in 1..(Len(q) + Len(r)) : l[i] = F[Cat(q, r)[i]]
  BY <1>1, MappedType DEF IsMapped, IsCat
<1> HIDE DEF m, k, l
<1>5. IsCat(Cat(m, k), m, k, U)
  BY <1>2, <1>3, CatIs
<1>6. \A i \in 1..(Len(q) + Len(r)) : l[i] = Cat(m, k)[i]
  <2> TAKE i \in 1..(Len(q) + Len(r))
  <2>1. CASE i <= Len(q)
    <3>1. i \in 1..Len(q)
      BY <1>2, <2>1
    <3> QED
      <4>1. Cat(q, r)[i] = q[i]
        BY <1>1, <2>1 DEF IsCat
      <4>2. Cat(m, k)[i] = m[i]
        BY <1>2, <1>3, <1>5, <2>1 DEF IsCat
      <4> QED
        BY <1>2, <1>4, <3>1, <4>1, <4>2
  <2>2. CASE ~(i <= Len(q))
    <3>1. i - Len(q) \in 1..Len(r)
      BY <1>2, <1>3, <2>2
    <3> QED
      BY <1>1, <1>2, <1>3, <1>4, <1>5, <2>2, <3>1 DEF IsCat
  <2> QED
    BY <2>1, <2>2
<1>7. l = Cat(m, k)
  BY <1>2, <1>3, <1>4, <1>5, <1>6, SeqEqual DEF IsCat
<1> QED
  BY <1>7 DEF l, m, k

LEMMA MappedTwice ==
  ASSUME NEW T, NEW U, NEW V, NEW F, Fills(F, T, U), NEW G, Fills(G, U, V), NEW H, Fills(H, T, V),
         \A x \in T : H[x] = G[F[x]], NEW s \in Seq(T)
  PROVE  Mapped(G, Mapped(F, s)) = Mapped(H, s)
<1>1. /\ Mapped(F, s) \in Seq(U) /\ Len(Mapped(F, s)) = Len(s)
      /\ \A i \in 1..Len(s) : s[i] \in T /\ Mapped(F, s)[i] = F[s[i]]
  BY MappedType DEF IsMapped
<1>2. /\ Mapped(G, Mapped(F, s)) \in Seq(V) /\ Len(Mapped(G, Mapped(F, s))) = Len(s)
      /\ \A i \in 1..Len(s) : Mapped(G, Mapped(F, s))[i] = G[Mapped(F, s)[i]]
  <2> DEFINE r == Mapped(F, s)
  <2>1. Mapped(G, r) \in Seq(V) /\ IsMapped(Mapped(G, r), G, r, U)
    BY <1>1, MappedType
  <2> QED
    BY <1>1, <2>1 DEF IsMapped
<1>3. /\ Mapped(H, s) \in Seq(V) /\ Len(Mapped(H, s)) = Len(s)
      /\ \A i \in 1..Len(s) : Mapped(H, s)[i] = H[s[i]]
  BY MappedType DEF IsMapped
<1>4. \A i \in 1..Len(s) : Mapped(G, Mapped(F, s))[i] = Mapped(H, s)[i]
  BY <1>1, <1>2, <1>3
<1> QED
  BY <1>2, <1>3, <1>4, SeqEqual

LEMMA JoinedType ==
  ASSUME NEW T, NEW U, NEW F, Fills(F, T, Seq(U)), NEW s \in Seq(T)
  PROVE  Joined(F, s) \in Seq(U)
BY MappedType, FlattenType DEF Joined

LEMMA JoinedOne ==
  ASSUME NEW T, NEW U, NEW F, Fills(F, T, Seq(U)), NEW x \in T
  PROVE  Joined(F, <<x>>) = F[x]
<1>1. F[x] \in Seq(U)
  BY DEF Fills
<1> QED
  BY <1>1, MappedOne, FlattenOne DEF Joined

LEMMA JoinedConcat ==
  ASSUME NEW T, NEW U, NEW F, Fills(F, T, Seq(U)), NEW q \in Seq(T), NEW r \in Seq(T)
  PROVE  Joined(F, Cat(q, r)) = Cat(Joined(F, q), Joined(F, r))
<1>1. Mapped(F, Cat(q, r)) = Cat(Mapped(F, q), Mapped(F, r))
  BY MappedConcat
<1>2. Mapped(F, q) \in Seq(Seq(U)) /\ Mapped(F, r) \in Seq(Seq(U))
  BY MappedType
<1> QED
  BY <1>1, <1>2, FlattenConcat DEF Joined, Cat

LEMMA JoinedAppend ==
  ASSUME NEW T, NEW U, NEW F, Fills(F, T, Seq(U)), NEW s \in Seq(T), NEW x \in T
  PROVE  Joined(F, Append(s, x)) = Cat(Joined(F, s), F[x])
<1>1. Append(s, x) = Cat(s, <<x>>) /\ <<x>> \in Seq(T)
  BY AppendIsConcat DEF Cat
<1>2. Joined(F, Cat(s, <<x>>)) = Cat(Joined(F, s), Joined(F, <<x>>))
  <2> DEFINE e == <<x>>
  <2>1. e \in Seq(T)
    BY <1>1
  <2> HIDE DEF e
  <2>2. Joined(F, Cat(s, e)) = Cat(Joined(F, s), Joined(F, e))
    BY <2>1, JoinedConcat
  <2> QED
    BY <2>2 DEF e
<1>3. Joined(F, <<x>>) = F[x]
  BY JoinedOne
<1> QED
  BY <1>1, <1>2, <1>3

\* What a map makes of sequences end to end is what it makes of each, end to end.
LEMMA MappedJoined ==
  ASSUME NEW T, NEW U, NEW V, NEW F, Fills(F, T, Seq(U)), NEW G, Fills(G, U, V),
         NEW H, Fills(H, T, Seq(V)), \A x \in T : Mapped(G, F[x]) = H[x], NEW s \in Seq(T)
  PROVE  Mapped(G, Joined(F, s)) = Joined(H, s)
<1> DEFINE S == {r \in Seq(T) : Mapped(G, Joined(F, r)) = Joined(H, r)}
<1>1. <<>> \in S
  BY MappedEmpty, EmptySeq
<1>2. ASSUME NEW r \in S, NEW x \in T PROVE Append(r, x) \in S
  <2>1. Joined(F, Append(r, x)) = Cat(Joined(F, r), F[x]) /\ Joined(H, Append(r, x)) = Cat(Joined(H, r), H[x])
    BY JoinedAppend
  <2>2. Joined(F, r) \in Seq(U) /\ F[x] \in Seq(U)
    BY JoinedType DEF Fills
  <2>3. Mapped(G, Cat(Joined(F, r), F[x])) = Cat(Mapped(G, Joined(F, r)), Mapped(G, F[x]))
    BY <2>2, MappedConcat
  <2> QED
    BY <2>1, <2>3, AppendProperties
<1> HIDE DEF S
<1>3. S \in SUBSET Seq(T)
  BY DEF S
<1>4. S = Seq(T)
  BY <1>1, <1>2, <1>3, SeqInductionOnSets
<1> QED
  BY <1>4 DEF S

LEMMA JoinedTwice ==
  ASSUME NEW T, NEW U, NEW V, NEW F, Fills(F, T, Seq(U)), NEW G, Fills(G, U, Seq(V)),
         NEW H, Fills(H, T, Seq(V)), \A x \in T : Joined(G, F[x]) = H[x], NEW s \in Seq(T)
  PROVE  Joined(G, Joined(F, s)) = Joined(H, s)
<1> DEFINE S == {r \in Seq(T) : Joined(G, Joined(F, r)) = Joined(H, r)}
<1>1. <<>> \in S
  BY MappedEmpty, EmptySeq
<1>2. ASSUME NEW r \in S, NEW x \in T PROVE Append(r, x) \in S
  <2>1. Joined(F, Append(r, x)) = Cat(Joined(F, r), F[x]) /\ Joined(H, Append(r, x)) = Cat(Joined(H, r), H[x])
    BY JoinedAppend
  <2>2. Joined(F, r) \in Seq(U) /\ F[x] \in Seq(U)
    BY JoinedType DEF Fills
  <2>3. Joined(G, Cat(Joined(F, r), F[x])) = Cat(Joined(G, Joined(F, r)), Joined(G, F[x]))
    BY <2>2, JoinedConcat
  <2> QED
    BY <2>1, <2>3, AppendProperties
<1> HIDE DEF S
<1>3. S \in SUBSET Seq(T)
  BY DEF S
<1>4. S = Seq(T)
  BY <1>1, <1>2, <1>3, SeqInductionOnSets
<1> QED
  BY <1>4 DEF S

\* A map that keeps the order of the keys keeps a sorted sequence sorted.
LEMMA SortMapped ==
  ASSUME NEW S, NEW U, NEW F, Fills(F, S, U), NEW key, NEW place, NEW s, InKeyOrder(s, S, key),
         \A y \in U : \E x \in S : F[x] = y,
         \A x, y \in S : key[x] < key[y] => place[F[x]] < place[F[y]]
  PROVE  InKeyOrder(Mapped(F, s), U, place)
<1>1. s \in Seq(S) /\ Range(s) = S /\ \A i, j \in 1..Len(s) : i < j => key[s[i]] < key[s[j]]
  BY DEF InKeyOrder
<1>2. /\ Mapped(F, s) \in Seq(U) /\ Len(Mapped(F, s)) = Len(s)
      /\ DOMAIN Mapped(F, s) = 1..Len(s) /\ DOMAIN s = 1..Len(s)
      /\ \A i \in 1..Len(s) : s[i] \in S /\ Mapped(F, s)[i] = F[s[i]]
  BY <1>1, MappedType DEF IsMapped
<1>3. \A x \in S : \E i \in 1..Len(s) : s[i] = x
  BY <1>1, <1>2 DEF Range
<1>4. Range(Mapped(F, s)) = U
  <2>1. \A y \in U : \E i \in 1..Len(s) : Mapped(F, s)[i] = y
    BY <1>2, <1>3
  <2>2. \A i \in 1..Len(s) : Mapped(F, s)[i] \in U
    BY <1>2
  <2> QED
    BY <1>2, <2>1, <2>2 DEF Range
<1>5. \A i, j \in 1..Len(s) : i < j => place[Mapped(F, s)[i]] < place[Mapped(F, s)[j]]
  BY <1>1, <1>2
<1> QED
  BY <1>2, <1>4, <1>5 DEF InKeyOrder
-----------------------------------------------------------------------------
(* The pages of the plan are what the decided places hold, slot by slot.   *)

Shot  == {"scan", "file"} \X Nat \X Nat
Items == AllPages \cup AllImages
ImageItem(pk) == [is |-> "insert", n |-> pk]

PictureTable == [s \in Planned |-> Picture(s)]
HoldsTable   == [x \in Items |-> Holds(x)]
ImageTable   == [pk \in Standing("insert") |-> ImageItem(pk)]
UploadTable  == [pk \in Standing("insert") |-> Upload(pk)]
ImageHolds   == [pk \in Standing("insert") |-> Holds(ImageItem(pk))]

\* The places of a slot, in order.
ItemsOf(slot) ==
  IF slot.is = "page" THEN <<PageSlot(slot.n)>> ELSE Mapped(ImageTable, Inserts(slot.n))

ItemsTable == [slot \in Slot |-> ItemsOf(slot)]
HeldTable  == [slot \in Slot |-> Joined(HoldsTable, ItemsOf(slot))]

LEMMA PlannedIs ==
  ASSUME RowsInv, NEW s \in Planned
  PROVE  s \in Source /\ (s.edit # 0 => s.edit \in DOMAIN rows)
BY RowFacts DEF Planned

LEMMA PictureTableTakes ==
  ASSUME RowsInv
  PROVE  Fills(PictureTable, Planned, Shot)
<1>1. \A s \in Planned : Picture(s) \in Shot
  BY PlannedIs, PictureType DEF Shot
<1> QED
  BY <1>1 DEF Fills, PictureTable

LEMMA InsertRow ==
  ASSUME RowsInv, NEW pk \in Standing("insert")
  PROVE  /\ pk \in DOMAIN rows /\ pk \in Nat /\ pk # 0 /\ rows[pk].pages \in Nat
         /\ rows[pk].kind = "insert" /\ pk \in CurrentEdits /\ pk \in Pks
         /\ rows[pk].anchor \in Anchors
<1>1. pk \in DOMAIN rows /\ rows[pk].kind = "insert" /\ pk \in CurrentEdits
  BY DEF Standing, CurrentEdits
<1>2. rows[pk] \in Row /\ pk \in Pks
  BY <1>1, RowFacts
<1>3. rows[pk].pages \in UploadPages \cup {1} /\ UploadPages \cup {1} \subseteq Nat
  BY <1>2, PageEditsAssumption DEF Row
<1>4. rows[pk].anchor \in Anchors
  BY <1>2 DEF Row
<1>5. pk \in Nat /\ pk # 0
  BY <1>2, PageEditsAssumption DEF Pks
<1> QED
  BY <1>1, <1>2, <1>3, <1>4, <1>5

LEMMA HoldsImageType ==
  ASSUME RowsInv, NEW pk \in Standing("insert")
  PROVE  /\ Holds(ImageItem(pk)) = [k \in 1..rows[pk].pages |-> <<"file", pk, k - 1>>]
         /\ Holds(ImageItem(pk)) \in Seq(Shot)
<1>1. Holds(ImageItem(pk)) = [k \in 1..rows[pk].pages |-> <<"file", pk, k - 1>>]
  BY DEF Holds, ImageItem
<1>2. pk \in Nat /\ rows[pk].pages \in Nat
  BY InsertRow
<1>3. \A k \in 1..rows[pk].pages : <<"file", pk, k - 1>> \in Shot
  BY <1>2 DEF Shot
<1> QED
  BY <1>1, <1>2, <1>3

LEMMA ReplaceRow ==
  ASSUME RowsInv, NEW p \in Marked("replace")
  PROVE  LET pk == At("replace", p) IN
         /\ pk \in Nat /\ pk # 0 /\ rows[pk].kind = "replace" /\ rows[pk].pages = 1
         /\ pk \in CurrentEdits
<1> DEFINE pk == At("replace", p)
<1>1. pk \in CurrentEdits /\ rows[pk].kind = "replace"
  BY MarkedFacts DEF AllKinds
<1> HIDE DEF pk
<1>2. pk \in DOMAIN rows /\ pk \in Pks /\ RowShape(rows[pk], pk)
  BY <1>1, RowFacts DEF RowsInv
<1>3. pk \in Nat /\ pk # 0 /\ rows[pk].pages = 1
  BY <1>1, <1>2, PageEditsAssumption DEF Pks, RowShape
<1> QED
  BY <1>1, <1>3 DEF pk

LEMMA RotateRow ==
  ASSUME RowsInv, NEW p \in Marked("rotate")
  PROVE  LET pk == At("rotate", p) IN
         /\ pk \in Nat /\ pk # 0 /\ rows[pk].kind = "rotate" /\ rows[pk].page = p
         /\ rows[pk].turn \in Nat /\ pk \in CurrentEdits
<1> DEFINE pk == At("rotate", p)
<1>1. pk \in CurrentEdits /\ rows[pk].kind = "rotate" /\ rows[pk].page = p
  BY MarkedFacts DEF AllKinds
<1> HIDE DEF pk
<1>2. rows[pk] \in Row /\ pk \in Pks
  BY <1>1, RowFacts
<1>3. pk \in Nat /\ pk # 0 /\ rows[pk].turn \in Nat
  <2>1. rows[pk].turn \in Turns \cup {0} /\ Turns \cup {0} \subseteq Nat
    BY <1>2, PageEditsAssumption DEF Row
  <2>2. pk \in Nat /\ pk # 0
    BY <1>2, PageEditsAssumption DEF Pks
  <2>3. rows[pk].turn \in Nat
    BY <2>1, Zenon
  <2> QED
    BY <2>2, <2>3
<1> QED
  BY <1>1, <1>3 DEF pk

LEMMA HoldsPage ==
  ASSUME RowsInv, NEW p \in Pages
  PROVE  /\ Mapped(PictureTable, EmitSlot(p)) = Holds(PageSlot(p))
         /\ Holds(PageSlot(p)) \in Seq(Shot)
<1>1. PageSlot(p).is = "page" /\ PageSlot(p).n = p /\ p \in Nat
  BY PageEditsAssumption DEF PageSlot, Pages
<1>2. Fills(PictureTable, Planned, Shot)
  BY PictureTableTakes
<1>3. \A s \in Planned : Mapped(PictureTable, <<s>>) = <<Picture(s)>>
  <2> TAKE s \in Planned
  <2>1. PictureTable[s] = Picture(s)
    BY DEF PictureTable
  <2> QED
    BY <1>2, <2>1, MappedOne
<1>4. EmitSlot(p) \in Seq(Planned)
  BY EmitSlotType
<1>5. CASE p \in Marked("delete")
  <2>1. EmitSlot(p) = <<>> /\ Holds(PageSlot(p)) = <<>>
    BY <1>1, <1>5 DEF EmitSlot, Holds
  <2> QED
    BY <2>1, MappedEmpty, EmptySeq
<1>6. CASE p \notin Marked("delete") /\ p \in Marked("replace")
  <2> DEFINE pk == At("replace", p)
             s  == [edit |-> pk, page |-> 0, turn |-> 0]
  <2>1. pk \in Nat /\ pk # 0 /\ rows[pk].kind = "replace" /\ rows[pk].pages = 1
        /\ pk \in CurrentEdits
    BY <1>6, ReplaceRow
  <2>2. EmitSlot(p) = Upload(pk) /\ Holds(PageSlot(p)) = <<<<"file", pk, 0>>>>
    BY <1>1, <1>6 DEF EmitSlot, Holds
  <2> HIDE DEF pk
  <2>3. Upload(pk) = <<s>>
    <3>1. Upload(pk) = [k \in 1..1 |-> [edit |-> pk, page |-> k - 1, turn |-> 0]]
      BY <2>1 DEF Upload
    <3>2. \A k \in 1..1 : k - 1 = 0
      OBVIOUS
    <3>3. Upload(pk) = [k \in 1..1 |-> s]
      BY <3>1, <3>2
    <3>4. <<s>> = [k \in 1..1 |-> s]
      OBVIOUS
    <3> QED
      BY <3>3, <3>4
  <2>4. s \in Planned
    <3>1. pk \in 0..MaxRows
      BY <2>1, RowFacts, PageEditsAssumption DEF Pks
    <3> QED
      BY <2>1, <3>1 DEF Planned, Source
  <2>5. Picture(s) = <<"file", pk, 0>>
    BY <2>1 DEF Picture
  <2>6. <<"file", pk, 0>> \in Shot
    BY <2>1 DEF Shot
  <2> HIDE DEF s
  <2>7. Mapped(PictureTable, <<s>>) = <<Picture(s)>>
    BY <1>3, <2>4
  <2>8. Mapped(PictureTable, EmitSlot(p)) = <<<<"file", pk, 0>>>>
    BY <2>2, <2>3, <2>5, <2>7
  <2> QED
    BY <2>2, <2>6, <2>8
<1>7. CASE p \notin Marked("delete") /\ p \notin Marked("replace") /\ p \in Marked("rotate")
  <2> DEFINE pk == At("rotate", p)
             s  == Turned(p)
  <2>1. pk \in Nat /\ pk # 0 /\ rows[pk].kind = "rotate" /\ rows[pk].page = p
        /\ rows[pk].turn \in Nat /\ pk \in CurrentEdits
    BY <1>7, RotateRow
  <2>2. EmitSlot(p) = <<s>> /\ Holds(PageSlot(p)) = <<<<"scan", p, rows[pk].turn>>>>
    BY <1>1, <1>7 DEF EmitSlot, Holds
  <2>3. s = [edit |-> pk, page |-> 0, turn |-> rows[pk].turn]
    BY DEF Turned
  <2> HIDE DEF pk, s
  <2>4. s \in Planned
    <3>1. pk \in 0..MaxRows /\ rows[pk] \in Row
      BY <2>1, RowFacts, PageEditsAssumption DEF Pks
    <3> QED
      BY <2>1, <2>3, <3>1 DEF Planned, Source, Row
  <2>5. Picture(s) = <<"scan", p, rows[pk].turn>>
    BY <2>1, <2>3 DEF Picture
  <2>6. <<"scan", p, rows[pk].turn>> \in Shot
    BY <1>1, <2>1 DEF Shot
  <2>7. Mapped(PictureTable, <<s>>) = <<Picture(s)>>
    BY <1>3, <2>4
  <2>8. Mapped(PictureTable, EmitSlot(p)) = <<<<"scan", p, rows[pk].turn>>>>
    BY <2>2, <2>5, <2>7
  <2> QED
    BY <2>2, <2>6, <2>8
<1>8. CASE p \notin Marked("delete") /\ p \notin Marked("replace") /\ p \notin Marked("rotate")
  <2> DEFINE s == Original(p)
  <2>1. EmitSlot(p) = <<s>> /\ Holds(PageSlot(p)) = <<<<"scan", p, 0>>>>
    BY <1>1, <1>8 DEF EmitSlot, Holds
  <2>2. Picture(s) = <<"scan", p, 0>> /\ s \in Planned
    BY <1>1, PageEditsAssumption DEF Picture, Original, Planned, Source
  <2>3. <<"scan", p, 0>> \in Shot
    BY <1>1 DEF Shot
  <2> HIDE DEF s
  <2>4. Mapped(PictureTable, <<s>>) = <<Picture(s)>>
    BY <1>3, <2>2
  <2>5. Mapped(PictureTable, EmitSlot(p)) = <<<<"scan", p, 0>>>>
    BY <2>1, <2>2, <2>4
  <2> QED
    BY <2>1, <2>3, <2>5
<1> QED
  BY <1>5, <1>6, <1>7, <1>8

LEMMA HoldsUpload ==
  ASSUME RowsInv, NEW pk \in Standing("insert")
  PROVE  Mapped(PictureTable, Upload(pk)) = Holds(ImageItem(pk))
<1> DEFINE u == Upload(pk)
<1>1. pk \in Nat /\ pk # 0 /\ rows[pk].pages \in Nat /\ rows[pk].kind = "insert" /\ pk \in CurrentEdits
  BY InsertRow
<1>2. u = [k \in 1..rows[pk].pages |-> [edit |-> pk, page |-> k - 1, turn |-> 0]]
  BY DEF Upload
<1>3. u \in Seq(Planned)
  BY <1>1, UploadType
<1>4. \A k \in 1..rows[pk].pages : /\ u[k] \in Planned /\ Picture(u[k]) = <<"file", pk, k - 1>>
                                   /\ PictureTable[u[k]] = <<"file", pk, k - 1>>
  <2> TAKE k \in 1..rows[pk].pages
  <2>1. u[k] = [edit |-> pk, page |-> k - 1, turn |-> 0]
    BY <1>2
  <2> HIDE DEF u
  <2>2. DOMAIN u = 1..rows[pk].pages
    BY <1>2
  <2>3. u[k] \in Planned
    BY <1>3, <2>2, LenProperties, ElementOfSeq
  <2>4. Picture(u[k]) = <<"file", pk, k - 1>>
    BY <1>1, <2>1 DEF Picture
  <2> QED
    BY <2>3, <2>4 DEF PictureTable
<1> HIDE DEF u
<1>5. Mapped(PictureTable, u) = [k \in 1..rows[pk].pages |-> <<"file", pk, k - 1>>]
  <2>1. DOMAIN u = 1..rows[pk].pages
    BY <1>2
  <2>2. Mapped(PictureTable, u) = [k \in 1..rows[pk].pages |-> PictureTable[u[k]]]
    BY <2>1 DEF Mapped
  <2> QED
    BY <1>4, <2>2
<1> QED
  BY <1>5, HoldsImageType DEF u

LEMMA TablesTake ==
  ASSUME RowsInv
  PROVE  /\ Fills(HoldsTable, Items, Seq(Shot)) /\ Fills(ImageTable, Standing("insert"), Items)
         /\ Fills(UploadTable, Standing("insert"), Seq(Planned))
         /\ Fills(ImageHolds, Standing("insert"), Seq(Shot))
         /\ Fills(EmitTable, Slot, Seq(Planned))
<1>1. \A x \in Items : Holds(x) \in Seq(Shot)
  <2> TAKE x \in Items
  <2>1. CASE x \in AllPages
    <3>1. PICK p \in Pages : x = PageSlot(p)
      BY <2>1 DEF AllPages, PageSlot
    <3> QED
      BY <3>1, HoldsPage
  <2>2. CASE x \in AllImages
    <3>1. PICK pk \in Standing("insert") : x = ImageItem(pk)
      BY <2>2 DEF AllImages, ImageItem
    <3> QED
      BY <3>1, HoldsImageType
  <2> QED
    BY <2>1, <2>2 DEF Items
<1>2. \A pk \in Standing("insert") : ImageItem(pk) \in Items
  BY DEF Items, AllImages, ImageItem
<1>3. \A pk \in Standing("insert") : Upload(pk) \in Seq(Planned)
  BY InsertRow, UploadType
<1>4. \A pk \in Standing("insert") : Holds(ImageItem(pk)) \in Seq(Shot)
  BY HoldsImageType
<1>5. \A slot \in Slot : Emit(slot) \in Seq(Planned)
  BY EmitType
<1>6. Fills(HoldsTable, Items, Seq(Shot)) /\ Fills(ImageTable, Standing("insert"), Items)
  BY <1>1, <1>2 DEF Fills, HoldsTable, ImageTable
<1>7. Fills(UploadTable, Standing("insert"), Seq(Planned))
      /\ Fills(ImageHolds, Standing("insert"), Seq(Shot))
  BY <1>3, <1>4 DEF Fills, UploadTable, ImageHolds
<1>8. Fills(EmitTable, Slot, Seq(Planned))
  BY <1>5 DEF Fills, EmitTable
<1> QED
  BY <1>6, <1>7, <1>8

LEMMA InsertsType ==
  ASSUME RowsInv, NEW a
  PROVE  Inserts(a) \in Seq(Standing("insert"))
<1>1. InsertsAt(a) \subseteq Standing("insert")
  BY DEF InsertsAt
<1> QED
  BY <1>1, InsertFacts, SeqMonotonic

LEMMA ItemsOfType ==
  ASSUME RowsInv, NEW slot \in Slot
  PROVE  ItemsOf(slot) \in Seq(Items)
<1>1. CASE slot.is = "page"
  <2>1. PageSlot(slot.n) \in Items
    BY <1>1 DEF Slot, PageSlot, Items, AllPages
  <2> QED
    BY <1>1, <2>1 DEF ItemsOf
<1>2. CASE slot.is # "page"
  BY <1>2, InsertsType, TablesTake, MappedType DEF ItemsOf
<1> QED
  BY <1>1, <1>2

LEMMA ItemTablesTake ==
  ASSUME RowsInv
  PROVE  /\ Fills(ItemsTable, Slot, Seq(Items)) /\ Fills(HeldTable, Slot, Seq(Shot))
<1>1. \A slot \in Slot : ItemsOf(slot) \in Seq(Items)
  BY ItemsOfType
<1>2. Fills(HoldsTable, Items, Seq(Shot))
  BY TablesTake
<1>3. \A slot \in Slot : Joined(HoldsTable, ItemsOf(slot)) \in Seq(Shot)
  BY <1>1, <1>2, JoinedType
<1> QED
  BY <1>1, <1>3 DEF Fills, ItemsTable, HeldTable

LEMMA SlotHolds ==
  ASSUME RowsInv, NEW slot \in Slot
  PROVE  Mapped(PictureTable, EmitTable[slot]) = HeldTable[slot]
<1> DEFINE a == slot.n
           s == Inserts(a)
<1>1. EmitTable[slot] = Emit(slot) /\ HeldTable[slot] = Joined(HoldsTable, ItemsOf(slot))
  BY DEF EmitTable, HeldTable
<1>2. CASE slot.is = "page"
  <2>1. a \in Pages
    BY <1>2 DEF Slot
  <2>2. Emit(slot) = EmitSlot(a) /\ ItemsOf(slot) = <<PageSlot(a)>>
    BY <1>2 DEF Emit, ItemsOf
  <2>3. PageSlot(a) \in Items
    BY <2>1 DEF PageSlot, Items, AllPages
  <2>4. Joined(HoldsTable, <<PageSlot(a)>>) = HoldsTable[PageSlot(a)]
    BY <2>3, TablesTake, JoinedOne
  <2>5. HoldsTable[PageSlot(a)] = Holds(PageSlot(a))
    BY <2>3 DEF HoldsTable
  <2> QED
    BY <1>1, <2>1, <2>2, <2>4, <2>5, HoldsPage
<1>3. CASE slot.is # "page"
  <2>1. s \in Seq(Standing("insert"))
    BY InsertsType
  <2>2. Emit(slot) = Joined(UploadTable, s)
    <3>1. Emit(slot) = FlattenSeq([i \in DOMAIN s |-> Upload(s[i])])
      BY <1>3 DEF Emit
    <3>2. \A i \in DOMAIN s : UploadTable[s[i]] = Upload(s[i])
      <4>1. \A i \in DOMAIN s : s[i] \in Standing("insert")
        BY InsertFacts
      <4> QED
        BY <4>1 DEF UploadTable
    <3>3. Mapped(UploadTable, s) = [i \in DOMAIN s |-> Upload(s[i])]
      BY <3>2 DEF Mapped
    <3> QED
      BY <3>1, <3>3 DEF Joined
  <2>3. ItemsOf(slot) = Mapped(ImageTable, s)
    BY <1>3 DEF ItemsOf
  <2> HIDE DEF s
  <2>4. Mapped(PictureTable, Joined(UploadTable, s)) = Joined(ImageHolds, s)
    <3>1. \A pk \in Standing("insert") : Mapped(PictureTable, UploadTable[pk]) = ImageHolds[pk]
      BY HoldsUpload DEF UploadTable, ImageHolds
    <3> QED
      BY <2>1, <3>1, TablesTake, PictureTableTakes, MappedJoined
  <2>5. Mapped(HoldsTable, Mapped(ImageTable, s)) = Mapped(ImageHolds, s)
    <3>1. \A pk \in Standing("insert") : ImageHolds[pk] = HoldsTable[ImageTable[pk]]
      <4> TAKE pk \in Standing("insert")
      <4>1. ImageItem(pk) \in Items
        BY DEF Items, AllImages, ImageItem
      <4> QED
        BY <4>1 DEF ImageHolds, HoldsTable, ImageTable
    <3> QED
      BY <2>1, <3>1, TablesTake, MappedTwice
  <2> QED
    BY <1>1, <2>2, <2>3, <2>4, <2>5 DEF Joined
<1> QED
  BY <1>2, <1>3

\* The places of a volume, in the order of its slots.
ItemsAlong(slots) == Joined(ItemsTable, slots)

LEMMA SlotsHold ==
  ASSUME RowsInv, NEW slots \in Seq(Slot)
  PROVE  Mapped(PictureTable, Joined(EmitTable, slots)) = Joined(HoldsTable, ItemsAlong(slots))
<1>1. Mapped(PictureTable, Joined(EmitTable, slots)) = Joined(HeldTable, slots)
  BY SlotHolds, TablesTake, ItemTablesTake, PictureTableTakes, MappedJoined
<1>2. \A slot \in Slot : Joined(HoldsTable, ItemsTable[slot]) = HeldTable[slot]
  BY DEF ItemsTable, HeldTable
<1>3. Joined(HoldsTable, Joined(ItemsTable, slots)) = Joined(HeldTable, slots)
  BY <1>2, TablesTake, ItemTablesTake, JoinedTwice
<1> QED
  BY <1>1, <1>3 DEF ItemsAlong

LEMMA PicturesOfPlan ==
  ASSUME RowsInv
  PROVE  Pictures(Plan) = Joined(HoldsTable, ItemsAlong(SlotsNow))
<1>1. Plan = Joined(EmitTable, SlotsNow)
  BY PlanFromTable DEF Joined, Mapped
<1>2. SlotsNow \in Seq(Slot)
  BY UptoType, PageEditsAssumption DEF SlotsNow
<1>3. Pictures(Plan) = Mapped(PictureTable, Plan)
  <2>1. \A i \in DOMAIN Plan : Plan[i] \in Planned
    BY PlanIsEmitted, LenProperties, ElementOfSeq
  <2>2. \A i \in DOMAIN Plan : PictureTable[Plan[i]] = Picture(Plan[i])
    BY <2>1 DEF PictureTable
  <2> QED
    BY <2>2 DEF Pictures, Mapped
<1> QED
  BY <1>1, <1>2, <1>3, SlotsHold
-----------------------------------------------------------------------------
(* Where the decisions put a page or an image, as a number: the gap or the *)
(* page it belongs to first, then its own number.                          *)

Width == MaxRows + PageCount + 1

Rank(x) ==
  IF x.is = "insert" THEN rows[x.n].anchor * 3 + 2
  ELSE IF x.n \in DOMAIN Moves THEN Moves[x.n] * 3 + 1
  ELSE x.n * 3

PlaceTable == [x \in Items |-> PlaceOf(x.is, x.n)]

LEMMA WidthOrder ==
  ASSUME NEW u \in Nat, NEW v \in Nat, NEW k \in Nat, NEW i \in Nat, NEW j \in Nat, i < k, j < k
  PROVE  /\ u * k + i \in Nat
         /\ u < v => u * k + i < v * k + j
         /\ i < j => u * k + i < u * k + j
<1>1. \A a, b \in Nat : a * b \in Nat
  OBVIOUS
<1>2. u * k \in Nat /\ v * k \in Nat
  BY <1>1
<1>3. ASSUME u < v PROVE u * k + k <= v * k
  <2>1. PICK d \in Nat : v = (u + 1) + d
    <3>1. v - (u + 1) \in Nat /\ v = (u + 1) + (v - (u + 1))
      BY <1>3
    <3> QED
      BY <3>1
  <2>2. v * k = (u * k + k) + d * k
    <3>1. \A a, b, c \in Nat : (a + b) * c = a * c + b * c
      OBVIOUS
    <3>2. v * k = (u + 1) * k + d * k
      BY <2>1, <3>1
    <3>3. (u + 1) * k = u * k + k
      BY <3>1
    <3> QED
      BY <3>2, <3>3
  <2>3. d * k \in Nat
    BY <1>1
  <2> QED
    BY <1>2, <2>2, <2>3
<1> QED
  BY <1>2, <1>3

LEMMA ItemIs ==
  ASSUME RowsInv, NEW x \in Items
  PROVE  /\ x = [is |-> x.is, n |-> x.n]
         /\ x.n \in Nat /\ x.n < Width /\ Width \in Nat /\ Rank(x) \in Nat
         /\ PlaceTable[x] = Rank(x) * Width + x.n
         /\ \/ /\ x.is = "page" /\ x.n \in Pages /\ x.n \in DOMAIN Moves
               /\ Moves[x.n] \in Anchors /\ Rank(x) = Moves[x.n] * 3 + 1
            \/ x.is = "page" /\ x.n \in Pages /\ x.n \notin DOMAIN Moves /\ Rank(x) = x.n * 3
            \/ /\ x.is = "insert" /\ x.n \in Standing("insert")
               /\ rows[x.n].anchor \in Anchors /\ Rank(x) = rows[x.n].anchor * 3 + 2
<1>1. Width \in Nat /\ MaxRows \in Nat /\ PageCount \in Nat /\ Anchors \subseteq Nat
  BY PageEditsAssumption DEF Width, Anchors
<1>2. PlaceTable[x] = PlaceOf(x.is, x.n)
  BY DEF PlaceTable
<1>3. CASE x \in AllPages
  <2>1. PICK p \in Pages : x = [is |-> "page", n |-> p]
    BY <1>3 DEF AllPages
  <2>2. x.is = "page" /\ x.n = p /\ x = [is |-> x.is, n |-> x.n]
    BY <2>1
  <2>3. p \in Nat /\ p < Width
    BY <1>1 DEF Pages, Width
  <2>4. CASE p \in DOMAIN Moves
    <3>1. Moves[p] \in Anchors /\ Moves[p] \in Nat
      BY <1>1, <2>4, MovesType
    <3>2. Rank(x) = Moves[p] * 3 + 1 /\ Rank(x) \in Nat
      BY <2>2, <2>4, <3>1 DEF Rank
    <3>3. PlaceOf("page", p) = (Moves[p] * 3 + 1) * Width + p
      BY <2>4 DEF PlaceOf, Width
    <3> QED
      BY <1>1, <1>2, <2>2, <2>3, <2>4, <3>1, <3>2, <3>3
  <2>5. CASE p \notin DOMAIN Moves
    <3>1. Rank(x) = p * 3 /\ Rank(x) \in Nat
      BY <2>2, <2>3, <2>5 DEF Rank
    <3>2. PlaceOf("page", p) = (p * 3 + 0) * Width + p
      BY <2>5 DEF PlaceOf, Width
    <3>3. p * 3 + 0 = p * 3
      BY <2>3
    <3> QED
      BY <1>1, <1>2, <2>2, <2>3, <2>5, <3>1, <3>2, <3>3
  <2> QED
    BY <2>4, <2>5
<1>4. CASE x \in AllImages
  <2>1. PICK pk \in Standing("insert") : x = [is |-> "insert", n |-> pk]
    BY <1>4 DEF AllImages
  <2>2. x.is = "insert" /\ x.n = pk /\ x = [is |-> x.is, n |-> x.n]
    BY <2>1
  <2>3. pk \in Nat /\ pk < Width /\ rows[pk].anchor \in Anchors /\ rows[pk].anchor \in Nat
    <3>1. pk \in 1..MaxRows /\ rows[pk].anchor \in Anchors
      BY InsertRow DEF Pks
    <3>2. pk \in Nat /\ pk < MaxRows + PageCount + 1
      BY <1>1, <3>1
    <3> QED
      BY <1>1, <3>1, <3>2 DEF Width
  <2>4. Rank(x) = rows[pk].anchor * 3 + 2 /\ Rank(x) \in Nat
    BY <2>2, <2>3 DEF Rank
  <2>5. PlaceOf("insert", pk) = (rows[pk].anchor * 3 + 2) * Width + pk
    BY DEF PlaceOf, Width
  <2> QED
    BY <1>1, <1>2, <2>2, <2>3, <2>4, <2>5
<1> QED
  BY <1>3, <1>4 DEF Items

LEMMA PlaceByRank ==
  ASSUME RowsInv, NEW x \in Items, NEW y \in Items
  PROVE  /\ PlaceTable[x] \in Nat
         /\ Rank(x) < Rank(y) => PlaceTable[x] < PlaceTable[y]
         /\ Rank(x) = Rank(y) /\ x.n < y.n => PlaceTable[x] < PlaceTable[y]
<1>1. /\ x.n \in Nat /\ x.n < Width /\ Width \in Nat /\ Rank(x) \in Nat
      /\ PlaceTable[x] = Rank(x) * Width + x.n
  BY ItemIs
<1>2. /\ y.n \in Nat /\ y.n < Width /\ Rank(y) \in Nat
      /\ PlaceTable[y] = Rank(y) * Width + y.n
  BY ItemIs
<1>3. /\ Rank(x) * Width + x.n \in Nat
      /\ Rank(x) < Rank(y) => Rank(x) * Width + x.n < Rank(y) * Width + y.n
      /\ x.n < y.n => Rank(x) * Width + x.n < Rank(x) * Width + y.n
  BY <1>1, <1>2, WidthOrder
<1> QED
  BY <1>1, <1>2, <1>3

LEMMA PlaceIsKey ==
  ASSUME RowsInv
  PROVE  IsKey(PlaceTable, Items)
<1>1. ASSUME NEW x \in Items, NEW y \in Items, PlaceTable[x] = PlaceTable[y]
      PROVE  x = y
  <2>1. Rank(x) \in Nat /\ Rank(y) \in Nat /\ x.n \in Nat /\ y.n \in Nat
    BY ItemIs
  <2>2. ~(Rank(x) < Rank(y)) /\ ~(Rank(y) < Rank(x))
    BY <1>1, PlaceByRank
  <2>3. Rank(x) = Rank(y)
    BY <2>1, <2>2
  <2>4. ~(x.n < y.n) /\ ~(y.n < x.n)
    BY <1>1, <2>3, PlaceByRank
  <2>5. x.n = y.n
    BY <2>1, <2>4
  <2>6. x.is = y.is
    <3>1. \A a, b \in Nat : a * 3 + 2 # b * 3 + 1 /\ a * 3 + 2 # b * 3
      OBVIOUS
    <3>2. Anchors \subseteq Nat /\ Pages \subseteq Nat
      BY PageEditsAssumption DEF Anchors, Pages
    <3>3. /\ x.is = "page" => \E a \in Nat : Rank(x) = a * 3 + 1 \/ Rank(x) = a * 3
          /\ x.is # "page" => x.is = "insert" /\ \E a \in Nat : Rank(x) = a * 3 + 2
      BY <3>2, ItemIs
    <3>4. /\ y.is = "page" => \E a \in Nat : Rank(y) = a * 3 + 1 \/ Rank(y) = a * 3
          /\ y.is # "page" => y.is = "insert" /\ \E a \in Nat : Rank(y) = a * 3 + 2
      BY <3>2, ItemIs
    <3> QED
      BY <2>3, <3>1, <3>3, <3>4
  <2> QED
    BY <2>5, <2>6, ItemIs
<1> QED
  BY <1>1, PlaceByRank DEF IsKey

\* The places of the ranks from lo up to hi.
Ranked(lo, hi) == {x \in Items : lo <= Rank(x) /\ Rank(x) < hi}

LEMMA RankedConcat ==
  ASSUME RowsInv, NEW lo \in Nat, NEW mid \in Nat, NEW hi \in Nat, lo <= mid, mid <= hi,
         NEW q, InKeyOrder(q, Ranked(lo, mid), PlaceTable),
         NEW r, InKeyOrder(r, Ranked(mid, hi), PlaceTable)
  PROVE  InKeyOrder(q \o r, Ranked(lo, hi), PlaceTable)
<1>1. \A x \in Items : Rank(x) \in Nat
  BY ItemIs
<1>2. Ranked(lo, mid) \cup Ranked(mid, hi) = Ranked(lo, hi)
  BY <1>1 DEF Ranked
<1>3. \A x \in Ranked(lo, mid), y \in Ranked(mid, hi) : PlaceTable[x] < PlaceTable[y]
  <2> TAKE x \in Ranked(lo, mid), y \in Ranked(mid, hi)
  <2>1. x \in Items /\ y \in Items /\ Rank(x) < mid /\ mid <= Rank(y)
    BY DEF Ranked
  <2>2. Rank(x) < Rank(y)
    BY <1>1, <2>1
  <2> QED
    BY <2>1, <2>2, PlaceByRank
<1>4. InKeyOrder(q \o r, Ranked(lo, mid) \cup Ranked(mid, hi), PlaceTable)
  BY <1>3, SortConcat
<1> QED
  BY <1>2, <1>4

\* A map of single places is read off one by one.
LEMMA JoinedOnes ==
  ASSUME NEW T, NEW U, NEW F, Fills(F, T, U), NEW G, Fills(G, T, Seq(U)),
         \A x \in T : G[x] = <<F[x]>>, NEW s \in Seq(T)
  PROVE  Joined(G, s) = Mapped(F, s)
<1> DEFINE S == {r \in Seq(T) : Joined(G, r) = Mapped(F, r)}
<1>1. <<>> \in S
  BY MappedEmpty, EmptySeq
<1>2. ASSUME NEW r \in S, NEW x \in T PROVE Append(r, x) \in S
  <2> DEFINE e == <<x>>
  <2>1. Append(r, x) = Cat(r, e) /\ e \in Seq(T)
    BY AppendIsConcat DEF Cat
  <2>2. Mapped(F, e) = G[x]
    <3>1. Mapped(F, <<x>>) = <<F[x]>> /\ G[x] = <<F[x]>>
      BY MappedOne
    <3> QED
      BY <3>1
  <2> HIDE DEF e
  <2>3. Mapped(F, Cat(r, e)) = Cat(Mapped(F, r), Mapped(F, e))
    BY <2>1, MappedConcat
  <2>4. Joined(G, Append(r, x)) = Cat(Joined(G, r), G[x])
    BY JoinedAppend
  <2> QED
    BY <2>1, <2>2, <2>3, <2>4, AppendProperties
<1> HIDE DEF S
<1>3. S \in SUBSET Seq(T)
  BY DEF S
<1>4. S = Seq(T)
  BY <1>1, <1>2, <1>3, SeqInductionOnSets
<1> QED
  BY <1>4 DEF S

LEMMA ItemsOnePage ==
  ASSUME RowsInv, NEW p \in Pages
  PROVE  PageSlot(p) \in Slot /\ ItemsTable[PageSlot(p)] = <<PageSlot(p)>> /\ PageSlot(p) \in Items
BY DEF PageSlot, Slot, ItemsTable, ItemsOf, Items, AllPages

\* A page that was not moved.
LEMMA ItemsOwn ==
  ASSUME RowsInv, NEW p \in Pages
  PROVE  LET own == IF p \in DOMAIN Moves THEN <<>> ELSE <<PageSlot(p)>> IN
         own \in Seq(Slot) /\ InKeyOrder(ItemsAlong(own), Ranked(p * 3, p * 3 + 1), PlaceTable)
<1> DEFINE own == IF p \in DOMAIN Moves THEN <<>> ELSE <<PageSlot(p)>>
<1>1. p \in Nat /\ Anchors \subseteq Nat /\ Pages \subseteq Nat
  BY PageEditsAssumption DEF Pages, Anchors
<1>2. \A x \in Ranked(p * 3, p * 3 + 1) :
        x \in Items /\ Rank(x) = p * 3
  BY <1>1, ItemIs DEF Ranked
<1>3. \A x \in Ranked(p * 3, p * 3 + 1) : x = PageSlot(p) /\ p \notin DOMAIN Moves
  <2> TAKE x \in Ranked(p * 3, p * 3 + 1)
  <2>1. x \in Items /\ Rank(x) = p * 3
    BY <1>2
  <2>2. \A a \in Nat : p * 3 # a * 3 + 1 /\ p * 3 # a * 3 + 2
    BY <1>1
  <2>3. \A a \in Nat : p * 3 = a * 3 => p = a
    BY <1>1
  <2>4. x = [is |-> x.is, n |-> x.n] /\ x.is = "page" /\ x.n \in Pages /\ x.n \notin DOMAIN Moves
        /\ Rank(x) = x.n * 3
    BY <1>1, <2>1, <2>2, ItemIs
  <2>5. x.n = p
    BY <1>1, <2>1, <2>3, <2>4
  <2> QED
    BY <2>4, <2>5 DEF PageSlot
<1>4. CASE p \in DOMAIN Moves
  <2>1. own = <<>> /\ Ranked(p * 3, p * 3 + 1) = {}
    BY <1>3, <1>4
  <2>2. ItemsAlong(<<>>) = <<>> /\ <<>> \in Seq(Slot)
    BY MappedEmpty, EmptySeq DEF ItemsAlong
  <2> QED
    BY <2>1, <2>2, SortEmpty
<1>5. CASE p \notin DOMAIN Moves
  <2>1. PageSlot(p) \in Slot /\ ItemsTable[PageSlot(p)] = <<PageSlot(p)>> /\ PageSlot(p) \in Items
    BY ItemsOnePage
  <2>2. own = <<PageSlot(p)>> /\ own \in Seq(Slot)
    BY <1>5, <2>1
  <2>3. ItemsAlong(<<PageSlot(p)>>) = <<PageSlot(p)>>
    BY <2>1, ItemTablesTake, JoinedOne DEF ItemsAlong
  <2>4. Rank(PageSlot(p)) = p * 3
    BY <1>5 DEF Rank, PageSlot
  <2>5. PageSlot(p) \in Ranked(p * 3, p * 3 + 1)
    BY <1>1, <2>1, <2>4 DEF Ranked
  <2>6. Ranked(p * 3, p * 3 + 1) = {PageSlot(p)}
    BY <1>3, <2>5
  <2>7. InKeyOrder(<<PageSlot(p)>>, {PageSlot(p)}, PlaceTable)
    BY SortOne
  <2> QED
    BY <2>2, <2>3, <2>6, <2>7
<1> QED
  BY <1>4, <1>5

\* The pages moved onto a.
LEMMA ItemsLanding ==
  ASSUME RowsInv, NEW a \in Anchors
  PROVE  LET moved == [i \in DOMAIN Landing(a) |-> PageSlot(Landing(a)[i])] IN
         moved \in Seq(Slot)
         /\ InKeyOrder(ItemsAlong(moved), Ranked(a * 3 + 1, a * 3 + 2), PlaceTable)
<1> DEFINE L     == LandingOn(a)
           s     == Landing(a)
           moved == [i \in DOMAIN s |-> PageSlot(s[i])]
           F     == [p \in L |-> PageSlot(p)]
           G     == [p \in L |-> <<PageSlot(p)>>]
           U     == Ranked(a * 3 + 1, a * 3 + 2)
<1>1. InKeyOrder(s, L, Count) /\ L \subseteq Pages /\ s \in Seq(L) /\ DOMAIN s = 1..Len(s)
      /\ moved \in Seq(Slot)
  BY LandingSorted, LandingSlotsType, LenProperties DEF InKeyOrder
<1>2. a \in Nat /\ Pages \subseteq Nat /\ Anchors \subseteq Nat
  BY PageEditsAssumption DEF Pages, Anchors
<1>3. \A p \in L : p \in DOMAIN Moves /\ Moves[p] = a /\ p \in Pages
  BY <1>1 DEF LandingOn
<1> HIDE DEF L, s
<1>4. \A p \in L : PageSlot(p) \in U
  <2> TAKE p \in L
  <2>1. PageSlot(p) \in Items
    BY <1>3, ItemsOnePage
  <2>2. Rank(PageSlot(p)) = a * 3 + 1
    BY <1>3 DEF Rank, PageSlot
  <2> QED
    BY <1>2, <2>1, <2>2 DEF Ranked
<1>5. \A x \in U : \E p \in L : PageSlot(p) = x
  <2> TAKE x \in U
  <2>1. x \in Items /\ Rank(x) = a * 3 + 1
    BY <1>2, ItemIs DEF Ranked
  <2>2. \A b \in Nat : a * 3 + 1 # b * 3 /\ a * 3 + 1 # b * 3 + 2
    BY <1>2
  <2>3. \A b \in Nat : a * 3 + 1 = b * 3 + 1 => a = b
    BY <1>2
  <2>4. /\ x = [is |-> x.is, n |-> x.n] /\ x.is = "page" /\ x.n \in DOMAIN Moves
        /\ Moves[x.n] \in Anchors /\ Rank(x) = Moves[x.n] * 3 + 1
    BY <1>2, <2>1, <2>2, ItemIs
  <2>5. Moves[x.n] = a
    BY <1>2, <2>1, <2>3, <2>4
  <2>6. x.n \in L /\ PageSlot(x.n) = x
    BY <2>4, <2>5 DEF L, LandingOn, PageSlot
  <2> QED
    BY <2>6
<1> HIDE DEF U
<1>6. Fills(F, L, U) /\ Fills(F, L, Slot) /\ Fills(F, L, Items) /\ Fills(G, L, Seq(Items))
  <2>1. \A p \in L : PageSlot(p) \in Slot /\ PageSlot(p) \in Items
    BY <1>3, ItemsOnePage
  <2>2. \A p \in L : <<PageSlot(p)>> \in Seq(Items)
    BY <2>1
  <2> QED
    BY <1>4, <2>1, <2>2 DEF Fills
<1>7. \A x, y \in L : Count[x] < Count[y] => PlaceTable[F[x]] < PlaceTable[F[y]]
  <2> TAKE x, y \in L
  <2>1. x \in Nat /\ y \in Nat /\ Count[x] = x /\ Count[y] = y
    BY <1>2, <1>3 DEF Count
  <2>2. F[x] = PageSlot(x) /\ F[y] = PageSlot(y)
    OBVIOUS
  <2>3. Rank(PageSlot(x)) = a * 3 + 1 /\ Rank(PageSlot(y)) = a * 3 + 1
    BY <1>3 DEF Rank, PageSlot
  <2>4. PageSlot(x).n = x /\ PageSlot(y).n = y /\ PageSlot(x) \in Items /\ PageSlot(y) \in Items
    BY <1>3, ItemsOnePage DEF PageSlot
  <2>5. x < y => PlaceTable[PageSlot(x)] < PlaceTable[PageSlot(y)]
    BY <2>3, <2>4, PlaceByRank
  <2> QED
    BY <2>1, <2>2, <2>5
<1>8. \A x \in U : \E p \in L : F[p] = x
  BY <1>5
<1>9. moved = Mapped(F, s)
  <2>1. \A i \in DOMAIN s : s[i] \in L
    BY <1>1, ElementOfSeq
  <2> QED
    BY <2>1 DEF Mapped
<1>10. \A p \in L : G[p] = <<F[p]>> /\ G[p] = ItemsTable[F[p]]
  BY <1>3, ItemsOnePage
<1> HIDE DEF F, G, moved
<1>11. InKeyOrder(Mapped(F, s), U, PlaceTable)
  BY <1>1, <1>6, <1>7, <1>8, SortMapped
<1>12. ItemsAlong(moved) = Mapped(F, s)
  <2>1. Mapped(ItemsTable, Mapped(F, s)) = Mapped(G, s)
    BY <1>1, <1>6, <1>10, ItemTablesTake, MappedTwice
  <2>2. Joined(G, s) = Mapped(F, s)
    BY <1>1, <1>6, <1>10, JoinedOnes
  <2> QED
    BY <1>9, <2>1, <2>2 DEF ItemsAlong, Joined
<1> QED
  BY <1>1, <1>11, <1>12 DEF moved, s, U

\* The images of a gap.
LEMMA ItemsImages ==
  ASSUME RowsInv, NEW a \in Anchors
  PROVE  /\ <<GapSlot(a)>> \in Seq(Slot)
         /\ InKeyOrder(ItemsAlong(<<GapSlot(a)>>), Ranked(a * 3 + 2, a * 3 + 3), PlaceTable)
<1> DEFINE S == InsertsAt(a)
           s == Inserts(a)
           F == [pk \in S |-> ImageItem(pk)]
           U == Ranked(a * 3 + 2, a * 3 + 3)
<1>1. InKeyOrder(s, S, Count) /\ s \in Seq(S) /\ DOMAIN s = 1..Len(s)
  BY InsertsSorted, LenProperties DEF InKeyOrder
<1>2. a \in Nat /\ Pages \subseteq Nat /\ Anchors \subseteq Nat
  BY PageEditsAssumption DEF Pages, Anchors
<1>3. \A pk \in S : pk \in Standing("insert") /\ rows[pk].anchor = a /\ pk \in Nat
                    /\ ImageItem(pk) \in Items
  BY InsertRow DEF InsertsAt, Items, AllImages, ImageItem
<1>4. GapSlot(a) \in Slot /\ GapSlot(a).is = "gap" /\ GapSlot(a).n = a
  BY DEF GapSlot, Slot
<1>5. ItemsAlong(<<GapSlot(a)>>) = Mapped(ImageTable, s)
  <2>1. ItemsAlong(<<GapSlot(a)>>) = ItemsTable[GapSlot(a)]
    BY <1>4, ItemTablesTake, JoinedOne DEF ItemsAlong
  <2> QED
    BY <1>4, <2>1 DEF ItemsTable, ItemsOf
<1> HIDE DEF S, s
<1>6. \A pk \in S : ImageItem(pk) \in U /\ Rank(ImageItem(pk)) = a * 3 + 2
  <2> TAKE pk \in S
  <2>1. Rank(ImageItem(pk)) = a * 3 + 2
    BY <1>3 DEF Rank, ImageItem
  <2> QED
    BY <1>2, <1>3, <2>1 DEF Ranked
<1>7. \A x \in U : \E pk \in S : ImageItem(pk) = x
  <2> TAKE x \in U
  <2>1. x \in Items /\ Rank(x) = a * 3 + 2
    BY <1>2, ItemIs DEF Ranked
  <2>2. \A b \in Nat : a * 3 + 2 # b * 3 /\ a * 3 + 2 # b * 3 + 1
    BY <1>2
  <2>3. \A b \in Nat : a * 3 + 2 = b * 3 + 2 => a = b
    BY <1>2
  <2>4. /\ x = [is |-> x.is, n |-> x.n] /\ x.is = "insert" /\ x.n \in Standing("insert")
        /\ rows[x.n].anchor \in Anchors /\ Rank(x) = rows[x.n].anchor * 3 + 2
    BY <1>2, <2>1, <2>2, ItemIs
  <2>5. rows[x.n].anchor = a
    BY <1>2, <2>1, <2>3, <2>4
  <2>6. x.n \in S /\ ImageItem(x.n) = x
    BY <2>4, <2>5 DEF S, InsertsAt, ImageItem
  <2> QED
    BY <2>6
<1> HIDE DEF U
<1>8. Fills(F, S, U)
  BY <1>6 DEF Fills
<1>9. \A x, y \in S : Count[x] < Count[y] => PlaceTable[F[x]] < PlaceTable[F[y]]
  <2> TAKE x, y \in S
  <2>1. x \in Nat /\ y \in Nat /\ Count[x] = x /\ Count[y] = y
    BY <1>3 DEF Count
  <2>2. F[x] = ImageItem(x) /\ F[y] = ImageItem(y)
    OBVIOUS
  <2>3. Rank(ImageItem(x)) = Rank(ImageItem(y))
    BY <1>6
  <2>4. ImageItem(x).n = x /\ ImageItem(y).n = y /\ ImageItem(x) \in Items /\ ImageItem(y) \in Items
    BY <1>3 DEF ImageItem
  <2>5. x < y => PlaceTable[ImageItem(x)] < PlaceTable[ImageItem(y)]
    BY <2>3, <2>4, PlaceByRank
  <2> QED
    BY <2>1, <2>2, <2>5
<1>10. \A x \in U : \E pk \in S : F[pk] = x
  BY <1>7
<1>11. Mapped(ImageTable, s) = Mapped(F, s)
  <2>1. \A i \in DOMAIN s : s[i] \in S /\ s[i] \in Standing("insert")
    BY <1>1, <1>3, ElementOfSeq
  <2>2. \A i \in DOMAIN s : ImageTable[s[i]] = F[s[i]]
    BY <2>1 DEF ImageTable
  <2> QED
    BY <2>2 DEF Mapped
<1> HIDE DEF F
<1>12. InKeyOrder(Mapped(F, s), U, PlaceTable)
  BY <1>1, <1>8, <1>9, <1>10, SortMapped
<1> QED
  BY <1>4, <1>5, <1>11, <1>12 DEF U, s

LEMMA ItemsAlongConcat ==
  ASSUME RowsInv, NEW q \in Seq(Slot), NEW r \in Seq(Slot)
  PROVE  ItemsAlong(q \o r) = ItemsAlong(q) \o ItemsAlong(r)
<1>1. ItemsAlong(Cat(q, r)) = Cat(ItemsAlong(q), ItemsAlong(r))
  BY ItemTablesTake, JoinedConcat DEF ItemsAlong
<1> QED
  BY <1>1 DEF Cat

LEMMA ItemsGap ==
  ASSUME RowsInv, NEW a \in Anchors
  PROVE  InKeyOrder(ItemsAlong(Gap(a)), Ranked(a * 3 + 1, a * 3 + 3), PlaceTable)
<1> DEFINE moved  == [i \in DOMAIN Landing(a) |-> PageSlot(Landing(a)[i])]
           images == <<GapSlot(a)>>
<1>1. moved \in Seq(Slot) /\ InKeyOrder(ItemsAlong(moved), Ranked(a * 3 + 1, a * 3 + 2), PlaceTable)
  BY ItemsLanding
<1>2. images \in Seq(Slot) /\ InKeyOrder(ItemsAlong(images), Ranked(a * 3 + 2, a * 3 + 3), PlaceTable)
  BY ItemsImages
<1>3. Gap(a) = moved \o images
  BY GapIs
<1> HIDE DEF moved, images
<1>4. ItemsAlong(moved \o images) = ItemsAlong(moved) \o ItemsAlong(images)
  BY <1>1, <1>2, ItemsAlongConcat
<1>5. /\ a * 3 + 1 \in Nat /\ a * 3 + 2 \in Nat /\ a * 3 + 3 \in Nat
      /\ a * 3 + 1 <= a * 3 + 2 /\ a * 3 + 2 <= a * 3 + 3
  BY PageEditsAssumption DEF Anchors
<1>6. InKeyOrder(ItemsAlong(moved) \o ItemsAlong(images), Ranked(a * 3 + 1, a * 3 + 3), PlaceTable)
  BY <1>1, <1>2, <1>5, RankedConcat
<1> QED
  BY <1>3, <1>4, <1>6

LEMMA ItemsBlock ==
  ASSUME RowsInv, NEW p \in Pages
  PROVE  InKeyOrder(ItemsAlong(Block(p)), Ranked(p * 3, p * 3 + 3), PlaceTable)
<1> DEFINE own == IF p \in DOMAIN Moves THEN <<>> ELSE <<PageSlot(p)>>
           gap == Gap(p)
<1>1. own \in Seq(Slot) /\ InKeyOrder(ItemsAlong(own), Ranked(p * 3, p * 3 + 1), PlaceTable)
  BY ItemsOwn
<1>2. gap \in Seq(Slot) /\ InKeyOrder(ItemsAlong(gap), Ranked(p * 3 + 1, p * 3 + 3), PlaceTable)
  <2>1. p \in Anchors
    BY PageEditsAssumption DEF Pages, Anchors
  <2> QED
    BY <2>1, GapType, ItemsGap
<1>3. Block(p) = own \o gap
  BY DEF Block
<1> HIDE DEF own, gap
<1>4. ItemsAlong(own \o gap) = ItemsAlong(own) \o ItemsAlong(gap)
  BY <1>1, <1>2, ItemsAlongConcat
<1>5. /\ p * 3 \in Nat /\ p * 3 + 1 \in Nat /\ p * 3 + 3 \in Nat
      /\ p * 3 <= p * 3 + 1 /\ p * 3 + 1 <= p * 3 + 3
  BY PageEditsAssumption DEF Pages
<1>6. InKeyOrder(ItemsAlong(own) \o ItemsAlong(gap), Ranked(p * 3, p * 3 + 3), PlaceTable)
  BY <1>1, <1>2, <1>5, RankedConcat
<1> QED
  BY <1>3, <1>4, <1>6

LEMMA UptoZero ==
  ASSUME RowsInv
  PROVE  Upto(0) = Gap(0)
<1> DEFINE g == [p \in 1..0 |-> Block(p)]
<1>1. g \in Seq({}) /\ Len(g) = 0
  OBVIOUS
<1> HIDE DEF g
<1>2. g = <<>>
  BY <1>1, EmptySeq
<1>3. Upto(0) = Gap(0) \o FlattenSeq(g)
  BY DEF Upto, g
<1>4. Gap(0) \in Seq(Slot)
  BY GapType, PageEditsAssumption DEF Anchors
<1> QED
  BY <1>2, <1>3, <1>4, FlattenEmpty, ConcatEmptySeq

LEMMA UptoNext ==
  ASSUME RowsInv, NEW n \in Nat, n + 1 \in Pages
  PROVE  Upto(n + 1) = Upto(n) \o Block(n + 1) /\ Upto(n) \in Seq(Slot)
<1> DEFINE g == [p \in 1..n |-> Block(p)]
           h == [p \in 1..(n + 1) |-> Block(p)]
           b == Block(n + 1)
<1>1. n \in 0..PageCount /\ n + 1 \in 0..PageCount
  BY PageEditsAssumption DEF Pages
<1>2. /\ g \in Seq(Seq(Slot)) /\ h \in Seq(Seq(Slot)) /\ b \in Seq(Slot)
      /\ Upto(n) \in Seq(Slot) /\ Gap(0) \in Seq(Slot)
  BY <1>1, UptoType, BlockType, GapType, PageEditsAssumption DEF Anchors
<1>3. Len(g) = n /\ Len(h) = n + 1 /\ (\A i \in 1..n : g[i] = Block(i))
      /\ \A i \in 1..(n + 1) : h[i] = Block(i)
  OBVIOUS
<1>4. Upto(n) = Gap(0) \o FlattenSeq(g) /\ Upto(n + 1) = Gap(0) \o FlattenSeq(h)
  BY DEF Upto
<1> HIDE DEF g, h
<1>5. h = Append(g, b)
  <2>1. /\ Append(g, b) \in Seq(Seq(Slot)) /\ Len(Append(g, b)) = n + 1
        /\ Append(g, b)[n + 1] = b
        /\ \A i \in 1..n : Append(g, b)[i] = g[i]
    BY <1>2, <1>3, AppendProperties
  <2>2. \A i \in 1..(n + 1) : Append(g, b)[i] = h[i]
    <3> TAKE i \in 1..(n + 1)
    <3>1. CASE i \in 1..n
      BY <1>3, <2>1, <3>1
    <3>2. CASE i = n + 1
      BY <1>3, <2>1, <3>2
    <3> QED
      BY <3>1, <3>2, NextIndex
  <2> QED
    BY <1>2, <1>3, <2>1, <2>2, SeqEqual
<1> HIDE DEF b
<1>6. FlattenSeq(h) = FlattenSeq(g) \o b
  BY <1>2, <1>5, FlattenAppend
<1>7. FlattenSeq(g) \in Seq(Slot)
  BY <1>2, FlattenType
<1>8. Gap(0) \o (FlattenSeq(g) \o b) = (Gap(0) \o FlattenSeq(g)) \o b
  <2> DEFINE first == Gap(0)
             flat  == FlattenSeq(g)
  <2>1. first \in Seq(Slot) /\ flat \in Seq(Slot) /\ b \in Seq(Slot)
    BY <1>2, <1>7
  <2> HIDE DEF first, flat
  <2>2. (first \o flat) \o b = first \o (flat \o b)
    BY <2>1, ConcatAssociative
  <2> QED
    BY <2>2 DEF first, flat
<1> QED
  BY <1>2, <1>4, <1>6, <1>8 DEF b

LEMMA ItemsUpto ==
  ASSUME RowsInv, NEW n \in 0..PageCount
  PROVE  InKeyOrder(ItemsAlong(Upto(n)), Ranked(0, n * 3 + 3), PlaceTable)
<1> DEFINE N == {m \in Nat : m <= PageCount =>
                   InKeyOrder(ItemsAlong(Upto(m)), Ranked(0, m * 3 + 3), PlaceTable)}
<1>1. 0 \in N
  <2>1. 0 \in Anchors
    BY PageEditsAssumption DEF Anchors
  <2>2. InKeyOrder(ItemsAlong(Gap(0)), Ranked(0 * 3 + 1, 0 * 3 + 3), PlaceTable)
    BY <2>1, ItemsGap
  <2>3. Ranked(0, 0 * 3 + 3) = Ranked(0 * 3 + 1, 0 * 3 + 3)
    <3>1. \A x \in Items : Rank(x) \in Nat /\ Rank(x) # 0
      <4>1. Pages \subseteq Nat \ {0} /\ Anchors \subseteq Nat
        BY PageEditsAssumption DEF Pages, Anchors
      <4>2. \A a \in Nat : a * 3 + 1 # 0 /\ a * 3 + 2 # 0 /\ (a # 0 => a * 3 # 0)
        OBVIOUS
      <4> TAKE x \in Items
      <4>3. CASE Rank(x) = Moves[x.n] * 3 + 1 /\ Moves[x.n] \in Nat
        BY <4>2, <4>3
      <4>4. CASE Rank(x) = x.n * 3 /\ x.n \in Nat \ {0}
        BY <4>2, <4>4
      <4>5. CASE Rank(x) = rows[x.n].anchor * 3 + 2 /\ rows[x.n].anchor \in Nat
        BY <4>2, <4>5
      <4> QED
        BY <4>1, <4>3, <4>4, <4>5, ItemIs
    <3> QED
      BY <3>1 DEF Ranked
  <2> QED
    BY <2>2, <2>3, UptoZero
<1>2. ASSUME NEW m \in N PROVE m + 1 \in N
  <2> SUFFICES ASSUME m + 1 <= PageCount
               PROVE  InKeyOrder(ItemsAlong(Upto(m + 1)), Ranked(0, (m + 1) * 3 + 3), PlaceTable)
    OBVIOUS
  <2>1. m \in Nat /\ m <= PageCount /\ m + 1 \in Pages
    BY PageEditsAssumption DEF Pages
  <2>2. InKeyOrder(ItemsAlong(Upto(m)), Ranked(0, m * 3 + 3), PlaceTable)
    BY <2>1
  <2>3. InKeyOrder(ItemsAlong(Block(m + 1)), Ranked((m + 1) * 3, (m + 1) * 3 + 3), PlaceTable)
    BY <2>1, ItemsBlock
  <2>4. m * 3 + 3 = (m + 1) * 3 /\ m * 3 + 3 \in Nat /\ (m + 1) * 3 + 3 \in Nat
        /\ m * 3 + 3 <= (m + 1) * 3 + 3
    BY <2>1
  <2>5. InKeyOrder(ItemsAlong(Upto(m)) \o ItemsAlong(Block(m + 1)), Ranked(0, (m + 1) * 3 + 3),
                   PlaceTable)
    BY <2>2, <2>3, <2>4, RankedConcat
  <2>6. Upto(m + 1) = Upto(m) \o Block(m + 1) /\ Upto(m) \in Seq(Slot) /\ Block(m + 1) \in Seq(Slot)
    BY <2>1, UptoNext, BlockType
  <2>7. ItemsAlong(Upto(m) \o Block(m + 1)) = ItemsAlong(Upto(m)) \o ItemsAlong(Block(m + 1))
    BY <2>6, ItemsAlongConcat
  <2> QED
    BY <2>5, <2>6, <2>7
<1> HIDE DEF N
<1>3. N \in SUBSET Nat
  BY DEF N
<1>4. N = Nat
  BY <1>1, <1>2, <1>3, NatInductionOnSets
<1>5. n \in N /\ n <= PageCount
  BY <1>4, PageEditsAssumption
<1> QED
  BY <1>5 DEF N

\* The places of the plan are all the places, in the order of the decisions.
LEMMA ItemsInOrder ==
  ASSUME RowsInv
  PROVE  InKeyOrder(ItemsAlong(SlotsNow), Items, PlaceTable)
<1>1. PageCount \in Nat /\ PageCount \in 0..PageCount
  BY PageEditsAssumption
<1>2. InKeyOrder(ItemsAlong(SlotsNow), Ranked(0, PageCount * 3 + 3), PlaceTable)
  BY <1>1, ItemsUpto DEF SlotsNow
<1>3. \A x \in Items : Rank(x) \in Nat /\ Rank(x) < PageCount * 3 + 3
  <2> TAKE x \in Items
  <2>1. \A a \in 0..PageCount : /\ a * 3 < PageCount * 3 + 3 /\ a * 3 + 1 < PageCount * 3 + 3
                                /\ a * 3 + 2 < PageCount * 3 + 3
    BY <1>1
  <2>2. Pages \subseteq 0..PageCount /\ Anchors = 0..PageCount
    BY <1>1 DEF Pages, Anchors
  <2> QED
    BY <2>1, <2>2, ItemIs
<1>4. Ranked(0, PageCount * 3 + 3) = Items
  BY <1>3 DEF Ranked
<1> QED
  BY <1>2, <1>4

LEMMA OrderOfItems ==
  ASSUME RowsInv
  PROVE  InPlaceOrder(Items) = ItemsAlong(SlotsNow)
<1> DEFINE s == InPlaceOrder(Items)
           n == Cardinality(Items)
<1>1. InKeyOrder(ItemsAlong(SlotsNow), Items, PlaceTable) /\ IsKey(PlaceTable, Items)
  BY ItemsInOrder, PlaceIsKey
<1>2. IsFiniteSet(Items)
  BY <1>1, SortLen
<1>3. s = InOrder(Items, PlaceTable)
  BY DEF InPlaceOrder, PlaceTable
<1> HIDE DEF s
<1>4. /\ s \in [1..n -> Items]
      /\ \A i, j \in 1..n : i < j => PlaceTable[s[i]] < PlaceTable[s[j]]
  BY <1>1, <1>2, <1>3, OrderExists DEF InOrder
<1>5. InKeyOrder(s, Items, PlaceTable)
  BY <1>1, <1>2, <1>4, OrderIsSorted
<1> QED
  BY <1>1, <1>5, SortUnique DEF s

\* The plan is the volume the standing decisions describe.
LEMMA PlanIsDecided ==
  ASSUME RowsInv
  PROVE  Pictures(Plan) = Decided
<1> DEFINE order == ItemsAlong(SlotsNow)
<1>1. Decided = FlattenSeq([i \in DOMAIN order |-> Holds(order[i])])
  BY OrderOfItems DEF Decided, Items
<1>2. \A i \in DOMAIN order : order[i] \in Items
  BY ItemsInOrder, LenProperties, ElementOfSeq DEF InKeyOrder
<1> HIDE DEF order
<1>3. \A i \in DOMAIN order : HoldsTable[order[i]] = Holds(order[i])
  BY <1>2 DEF HoldsTable
<1>4. Decided = Joined(HoldsTable, order)
  BY <1>1, <1>3 DEF Joined, Mapped
<1> QED
  BY <1>4, PicturesOfPlan DEF order

\* Where no turn and no move is written after the approval, the final PDF of a current
\* run is the volume the standing decisions describe.
THEOREM FinalVolumeIsTheDecision ==
  ASSUME NoLateRewrite
  PROVE  EditsSpec => []VolumeIsTheDecision
<1>1. DecisionInv => VolumeIsTheDecision
  <2> SUFFICES ASSUME DecisionInv, phase # "review", CurrentRun # NoRun, ~BuildDue,
                      runs[CurrentRun].built
               PROVE  Pictures(runs[CurrentRun].map) = Decided
    BY DEF VolumeIsTheDecision
  <2> DEFINE n == CurrentRun
  <2>1. n \in Standings
    BY CurrentRunIs DEF DecisionInv, TypeInv, Standings
  <2>2. runs[n].edits = CurrentEdits
    BY DEF BuildDue
  <2> HIDE DEF n
  <2>3. runs[n].map = Plan
    BY <2>1, <2>2 DEF DecisionInv, PlanInv, Agrees, n
  <2> QED
    BY <2>3, PlanIsDecided DEF DecisionInv, TypeInv, n
<1> QED
  BY <1>1, DecisionInvHolds, PTL
-----------------------------------------------------------------------------
(* What FoldLeft computes, for the two walks of the viewer: it takes the   *)
(* members of a sequence one by one.                                       *)

LEMMA LastIndex ==
  ASSUME NEW n \in Nat, NEW t \in SUBSET (1..n), t # {}
  PROVE  /\ Max(t) \in t /\ Max(t) \in 1..n
         /\ n \in t => Max(t) = n
<1>1. t \in SUBSET (0..n)
  OBVIOUS
<1>2. Max(t) \in t /\ \A i \in t : i <= Max(t)
  BY <1>1, GreatestNumber
<1>3. Max(t) \in 1..n
  BY <1>2
<1>4. n \in t => n <= Max(t)
  BY <1>2
<1> QED
  BY <1>2, <1>3, <1>4

\* The values FoldLeft gives the sets of indices, the greatest index last.
IsDrawAll(f, w, s) ==
  f = [t \in SUBSET (DOMAIN s) |->
         IF t = {} THEN w ELSE Draw(f[t \ {Max(t)}], s[Max(t)])]

LEMMA DrawAllNext ==
  ASSUME NEW T, NEW s \in Seq(T), NEW x \in T, NEW w, NEW f, IsDrawAll(f, w, s),
         NEW n \in Nat, n = Len(s),
         NEW g, g = [t \in SUBSET (1..(n + 1)) |->
                       IF n + 1 \in t THEN Draw(f[t \ {n + 1}], x) ELSE f[t]]
  PROVE  IsDrawAll(g, w, Append(s, x))
<1> DEFINE r == Append(s, x)
<1>1. /\ DOMAIN s = 1..n /\ DOMAIN r = 1..(n + 1)
      /\ (\A i \in 1..n : r[i] = s[i]) /\ r[n + 1] = x
  BY AppendProperties, LenProperties
<1>2. \A t \in SUBSET (1..n) : f[t] = IF t = {} THEN w ELSE Draw(f[t \ {Max(t)}], s[Max(t)])
  BY <1>1 DEF IsDrawAll
<1> HIDE DEF r
<1>3. ASSUME NEW t \in SUBSET (1..(n + 1))
      PROVE  g[t] = IF t = {} THEN w ELSE Draw(g[t \ {Max(t)}], r[Max(t)])
  <2>1. CASE t = {}
    <3>1. t \in SUBSET (1..n) /\ n + 1 \notin t
      BY <2>1
    <3> QED
      BY <1>2, <2>1, <3>1
  <2>2. CASE n + 1 \in t
    <3>1. Max(t) = n + 1
      <4>1. n + 1 \in Nat /\ t \in SUBSET (1..(n + 1)) /\ t # {}
        BY <2>2
      <4> DEFINE m == n + 1
      <4>2. m \in Nat /\ t \in SUBSET (1..m) /\ t # {} /\ m \in t
        BY <2>2, <4>1
      <4> HIDE DEF m
      <4>3. Max(t) = m
        BY <4>2, LastIndex
      <4> QED
        BY <4>3 DEF m
    <3>2. t \ {n + 1} \in SUBSET (1..n) /\ n + 1 \notin t \ {n + 1} /\ t \ {n + 1} \in SUBSET (1..(n + 1))
      BY NextIndex
    <3>3. g[t \ {n + 1}] = f[t \ {n + 1}] /\ g[t] = Draw(f[t \ {n + 1}], x)
      BY <2>2, <3>2
    <3> QED
      BY <1>1, <2>2, <3>1, <3>3
  <2>3. CASE n + 1 \notin t /\ t # {}
    <3>1. t \in SUBSET (1..n)
      BY <2>3, NextIndex
    <3>2. Max(t) \in 1..n
      BY <2>3, <3>1, LastIndex
    <3>3. t \ {Max(t)} \in SUBSET (1..(n + 1)) /\ n + 1 \notin t \ {Max(t)}
      BY <2>3
    <3>4. g[t] = f[t] /\ g[t \ {Max(t)}] = f[t \ {Max(t)}]
      BY <2>3, <3>3
    <3>5. r[Max(t)] = s[Max(t)]
      BY <1>1, <3>2
    <3> QED
      BY <1>2, <2>3, <3>1, <3>4, <3>5
  <2> QED
    BY <2>1, <2>2, <2>3
<1>4. g = [t \in SUBSET (DOMAIN r) |-> IF t = {} THEN w ELSE Draw(g[t \ {Max(t)}], r[Max(t)])]
  BY <1>1, <1>3
<1> QED
  BY <1>4 DEF IsDrawAll, r

LEMMA DrawAllExists ==
  ASSUME NEW T, NEW s \in Seq(T), NEW w
  PROVE  \E f : IsDrawAll(f, w, s)
<1> DEFINE S == {r \in Seq(T) : \E f : IsDrawAll(f, w, r)}
<1>1. <<>> \in S
  <2> DEFINE f == [t \in SUBSET (1..0) |-> w]
  <2>1. DOMAIN <<>> = 1..0
    BY EmptySeq, LenProperties
  <2>2. \A t \in SUBSET (1..0) : t = {}
    OBVIOUS
  <2>3. f = [t \in SUBSET (DOMAIN <<>>) |->
               IF t = {} THEN w ELSE Draw(f[t \ {Max(t)}], <<>>[Max(t)])]
    BY <2>1, <2>2
  <2> HIDE DEF f
  <2> QED
    BY <2>3, EmptySeq DEF IsDrawAll
<1>2. ASSUME NEW r \in S, NEW x \in T PROVE Append(r, x) \in S
  <2>1. PICK f : IsDrawAll(f, w, r)
    OBVIOUS
  <2> DEFINE n == Len(r)
             g == [t \in SUBSET (1..(n + 1)) |->
                     IF n + 1 \in t THEN Draw(f[t \ {n + 1}], x) ELSE f[t]]
  <2>2. IsDrawAll(g, w, Append(r, x))
    BY <2>1, DrawAllNext, LenProperties
  <2> QED
    BY <2>2, AppendProperties
<1> HIDE DEF S
<1>3. S \in SUBSET Seq(T)
  BY DEF S
<1>4. S = Seq(T)
  BY <1>1, <1>2, <1>3, SeqInductionOnSets
<1> QED
  BY <1>4 DEF S

\* It is the same walk over the sequence and over a longer one.
LEMMA DrawAllPrefix ==
  ASSUME NEW T, NEW s \in Seq(T), NEW r \in Seq(T), NEW w, NEW f, NEW g, IsDrawAll(f, w, s), IsDrawAll(g, w, r),
         Len(s) <= Len(r), \A i \in 1..Len(s) : s[i] = r[i]
  PROVE  f[DOMAIN s] = g[DOMAIN s]
<1> DEFINE n == Len(s)
           m == Len(r)
           N == {k \in Nat : k <= n => f[1..k] = g[1..k]}
<1>1. n \in Nat /\ m \in Nat /\ DOMAIN s = 1..n /\ DOMAIN r = 1..m /\ n <= m
  BY LenProperties
<1>2. \A t \in SUBSET (1..n) : f[t] = IF t = {} THEN w ELSE Draw(f[t \ {Max(t)}], s[Max(t)])
  BY <1>1 DEF IsDrawAll
<1>3. \A t \in SUBSET (1..m) : g[t] = IF t = {} THEN w ELSE Draw(g[t \ {Max(t)}], r[Max(t)])
  BY <1>1 DEF IsDrawAll
<1>4. \A i \in 1..n : s[i] = r[i]
  OBVIOUS
<1> HIDE DEF n, m
<1>5. 0 \in N
  <2>1. 1..0 = {} /\ {} \in SUBSET (1..n) /\ {} \in SUBSET (1..m)
    OBVIOUS
  <2>2. f[{}] = w /\ g[{}] = w
    BY <1>2, <1>3, <2>1
  <2> QED
    BY <2>1, <2>2
<1>6. ASSUME NEW k \in N PROVE k + 1 \in N
  <2> SUFFICES ASSUME k + 1 <= n PROVE f[1..(k + 1)] = g[1..(k + 1)]
    OBVIOUS
  <2>1. k \in Nat /\ f[1..k] = g[1..k]
    BY <1>1
  <2> DEFINE t == 1..(k + 1)
  <2>2. /\ t \in SUBSET (1..n) /\ t \in SUBSET (1..m) /\ t # {} /\ t \ {k + 1} = 1..k
        /\ t \in SUBSET (1..(k + 1)) /\ k + 1 \in t /\ k + 1 \in 1..n /\ k + 1 \in Nat
    <3>1. k + 1 \in Nat /\ k + 1 <= n /\ k + 1 <= m
      BY <1>1, <2>1
    <3>2. (1..(k + 1)) \ {k + 1} = 1..k
      BY <2>1
    <3> QED
      <4>1. \A i \in t : i \in 1..n /\ i \in 1..m
        BY <1>1, <3>1
      <4>2. k + 1 \in t /\ k + 1 \in 1..n
        BY <2>1, <3>1
      <4>3. t \ {k + 1} = 1..k
        BY <3>2
      <4> HIDE DEF t
      <4>4. t \in SUBSET (1..n) /\ t \in SUBSET (1..m) /\ t # {}
        BY <4>1, <4>2
      <4> QED
        BY <3>1, <4>2, <4>3, <4>4 DEF t
  <2> HIDE DEF t
  <2>3. Max(t) = k + 1
    BY <2>2, LastIndex
  <2>4. f[t] = Draw(f[1..k], s[k + 1]) /\ g[t] = Draw(g[1..k], r[k + 1])
    BY <1>2, <1>3, <2>2, <2>3
  <2> QED
    BY <1>4, <2>1, <2>2, <2>4 DEF t
<1> HIDE DEF N
<1>7. N \in SUBSET Nat
  BY DEF N
<1>8. N = Nat
  BY <1>5, <1>6, <1>7, NatInductionOnSets
<1>9. n \in N
  BY <1>1, <1>8
<1> QED
  BY <1>1, <1>9 DEF N

\* The entries of a map, drawn one after the other.
DrawAll(w, s) == FoldLeft(Draw, w, s)

LEMMA DrawAllIs ==
  ASSUME NEW s, NEW w
  PROVE  DrawAll(w, s) = (CHOOSE f : IsDrawAll(f, w, s))[DOMAIN s]
BY DEF FoldLeft, MapThenFoldSet, IsDrawAll, DrawAll

LEMMA DrawAllEmpty ==
  ASSUME NEW w
  PROVE  DrawAll(w, <<>>) = w
<1> DEFINE f == CHOOSE h : IsDrawAll(h, w, <<>>)
<1>1. IsDrawAll(f, w, <<>>)
  BY EmptySeq, DrawAllExists
<1>2. DrawAll(w, <<>>) = f[DOMAIN <<>>]
  BY DrawAllIs
<1> HIDE DEF f
<1>3. DOMAIN <<>> = {} /\ {} \in SUBSET DOMAIN <<>>
  BY EmptySeq, LenProperties
<1>4. \A t \in SUBSET (DOMAIN <<>>) :
        f[t] = IF t = {} THEN w ELSE Draw(f[t \ {Max(t)}], <<>>[Max(t)])
  BY <1>1 DEF IsDrawAll
<1>5. f[{}] = w
  BY <1>3, <1>4
<1> QED
  BY <1>2, <1>3, <1>5

LEMMA DrawAllAppend ==
  ASSUME NEW T, NEW s \in Seq(T), NEW x \in T, NEW w
  PROVE  DrawAll(w, Append(s, x)) = Draw(DrawAll(w, s), x)
<1> DEFINE n == Len(s)
           r == Append(s, x)
           f == CHOOSE h : IsDrawAll(h, w, s)
           g == CHOOSE h : IsDrawAll(h, w, r)
<1>1. /\ r \in Seq(T) /\ Len(r) = n + 1 /\ DOMAIN r = 1..(n + 1) /\ DOMAIN s = 1..n /\ n \in Nat
      /\ (\A i \in 1..n : r[i] = s[i]) /\ r[n + 1] = x
  BY AppendProperties, LenProperties
<1>2. DrawAll(w, s) = f[DOMAIN s] /\ DrawAll(w, r) = g[DOMAIN r]
  <2>1. DrawAll(w, s) = f[DOMAIN s]
    BY DrawAllIs
  <2> HIDE DEF r
  <2>2. DrawAll(w, r) = g[DOMAIN r]
    BY DrawAllIs
  <2> QED
    BY <2>1, <2>2
<1>3. IsDrawAll(f, w, s)
  BY DrawAllExists
<1>4. IsDrawAll(g, w, r)
  <2>1. \E h : IsDrawAll(h, w, r)
    <3> HIDE DEF r
    <3> QED
      BY <1>1, DrawAllExists
  <2> QED
    BY <2>1
<1> HIDE DEF f, g, r
<1>5. f[1..n] = g[1..n]
  <2>1. Len(s) <= Len(r) /\ \A i \in 1..Len(s) : s[i] = r[i]
    BY <1>1
  <2>2. f[DOMAIN s] = g[DOMAIN s]
    BY <1>1, <1>3, <1>4, <2>1, DrawAllPrefix
  <2> QED
    BY <1>1, <2>2
<1> DEFINE t == 1..(n + 1)
<1>6. /\ t \in SUBSET (DOMAIN r) /\ t # {} /\ t \ {n + 1} = 1..n /\ n + 1 \in t /\ n + 1 \in Nat
      /\ t \in SUBSET (1..(n + 1))
  BY <1>1
<1> HIDE DEF t
<1>7. Max(t) = n + 1
  BY <1>6, LastIndex
<1>8. \A q \in SUBSET (DOMAIN r) : g[q] = IF q = {} THEN w ELSE Draw(g[q \ {Max(q)}], r[Max(q)])
  BY <1>4 DEF IsDrawAll
<1>9. g[t] = Draw(g[1..n], r[n + 1])
  BY <1>6, <1>7, <1>8
<1> QED
  BY <1>1, <1>2, <1>5, <1>9 DEF r, t

\* The values FoldLeft gives the sets of indices, the greatest index last.
IsVisitAll(f, w, map, s) ==
  f = [t \in SUBSET (DOMAIN s) |->
         IF t = {} THEN w ELSE Visit(f[t \ {Max(t)}], map, s[Max(t)])]

LEMMA VisitAllNext ==
  ASSUME NEW map, NEW T, NEW s \in Seq(T), NEW x \in T, NEW w, NEW f, IsVisitAll(f, w, map, s),
         NEW n \in Nat, n = Len(s),
         NEW g, g = [t \in SUBSET (1..(n + 1)) |->
                       IF n + 1 \in t THEN Visit(f[t \ {n + 1}], map, x) ELSE f[t]]
  PROVE  IsVisitAll(g, w, map, Append(s, x))
<1> DEFINE r == Append(s, x)
<1>1. /\ DOMAIN s = 1..n /\ DOMAIN r = 1..(n + 1)
      /\ (\A i \in 1..n : r[i] = s[i]) /\ r[n + 1] = x
  BY AppendProperties, LenProperties
<1>2. \A t \in SUBSET (1..n) : f[t] = IF t = {} THEN w ELSE Visit(f[t \ {Max(t)}], map, s[Max(t)])
  BY <1>1 DEF IsVisitAll
<1> HIDE DEF r
<1>3. ASSUME NEW t \in SUBSET (1..(n + 1))
      PROVE  g[t] = IF t = {} THEN w ELSE Visit(g[t \ {Max(t)}], map, r[Max(t)])
  <2>1. CASE t = {}
    <3>1. t \in SUBSET (1..n) /\ n + 1 \notin t
      BY <2>1
    <3> QED
      BY <1>2, <2>1, <3>1
  <2>2. CASE n + 1 \in t
    <3>1. Max(t) = n + 1
      <4>1. n + 1 \in Nat /\ t \in SUBSET (1..(n + 1)) /\ t # {}
        BY <2>2
      <4> DEFINE m == n + 1
      <4>2. m \in Nat /\ t \in SUBSET (1..m) /\ t # {} /\ m \in t
        BY <2>2, <4>1
      <4> HIDE DEF m
      <4>3. Max(t) = m
        BY <4>2, LastIndex
      <4> QED
        BY <4>3 DEF m
    <3>2. t \ {n + 1} \in SUBSET (1..n) /\ n + 1 \notin t \ {n + 1} /\ t \ {n + 1} \in SUBSET (1..(n + 1))
      BY NextIndex
    <3>3. g[t \ {n + 1}] = f[t \ {n + 1}] /\ g[t] = Visit(f[t \ {n + 1}], map, x)
      BY <2>2, <3>2
    <3> QED
      BY <1>1, <2>2, <3>1, <3>3
  <2>3. CASE n + 1 \notin t /\ t # {}
    <3>1. t \in SUBSET (1..n)
      BY <2>3, NextIndex
    <3>2. Max(t) \in 1..n
      BY <2>3, <3>1, LastIndex
    <3>3. t \ {Max(t)} \in SUBSET (1..(n + 1)) /\ n + 1 \notin t \ {Max(t)}
      BY <2>3
    <3>4. g[t] = f[t] /\ g[t \ {Max(t)}] = f[t \ {Max(t)}]
      BY <2>3, <3>3
    <3>5. r[Max(t)] = s[Max(t)]
      BY <1>1, <3>2
    <3> QED
      BY <1>2, <2>3, <3>1, <3>4, <3>5
  <2> QED
    BY <2>1, <2>2, <2>3
<1>4. g = [t \in SUBSET (DOMAIN r) |-> IF t = {} THEN w ELSE Visit(g[t \ {Max(t)}], map, r[Max(t)])]
  BY <1>1, <1>3
<1> QED
  BY <1>4 DEF IsVisitAll, r

LEMMA VisitAllExists ==
  ASSUME NEW map, NEW T, NEW s \in Seq(T), NEW w
  PROVE  \E f : IsVisitAll(f, w, map, s)
<1> DEFINE S == {r \in Seq(T) : \E f : IsVisitAll(f, w, map, r)}
<1>1. <<>> \in S
  <2> DEFINE f == [t \in SUBSET (1..0) |-> w]
  <2>1. DOMAIN <<>> = 1..0
    BY EmptySeq, LenProperties
  <2>2. \A t \in SUBSET (1..0) : t = {}
    OBVIOUS
  <2>3. f = [t \in SUBSET (DOMAIN <<>>) |->
               IF t = {} THEN w ELSE Visit(f[t \ {Max(t)}], map, <<>>[Max(t)])]
    BY <2>1, <2>2
  <2> HIDE DEF f
  <2> QED
    BY <2>3, EmptySeq DEF IsVisitAll
<1>2. ASSUME NEW r \in S, NEW x \in T PROVE Append(r, x) \in S
  <2>1. PICK f : IsVisitAll(f, w, map, r)
    OBVIOUS
  <2> DEFINE n == Len(r)
             g == [t \in SUBSET (1..(n + 1)) |->
                     IF n + 1 \in t THEN Visit(f[t \ {n + 1}], map, x) ELSE f[t]]
  <2>2. IsVisitAll(g, w, map, Append(r, x))
    BY <2>1, VisitAllNext, LenProperties
  <2> QED
    BY <2>2, AppendProperties
<1> HIDE DEF S
<1>3. S \in SUBSET Seq(T)
  BY DEF S
<1>4. S = Seq(T)
  BY <1>1, <1>2, <1>3, SeqInductionOnSets
<1> QED
  BY <1>4 DEF S

\* It is the same walk over the sequence and over a longer one.
LEMMA VisitAllPrefix ==
  ASSUME NEW map, NEW T, NEW s \in Seq(T), NEW r \in Seq(T), NEW w, NEW f, NEW g, IsVisitAll(f, w, map, s), IsVisitAll(g, w, map, r),
         Len(s) <= Len(r), \A i \in 1..Len(s) : s[i] = r[i]
  PROVE  f[DOMAIN s] = g[DOMAIN s]
<1> DEFINE n == Len(s)
           m == Len(r)
           N == {k \in Nat : k <= n => f[1..k] = g[1..k]}
<1>1. n \in Nat /\ m \in Nat /\ DOMAIN s = 1..n /\ DOMAIN r = 1..m /\ n <= m
  BY LenProperties
<1>2. \A t \in SUBSET (1..n) : f[t] = IF t = {} THEN w ELSE Visit(f[t \ {Max(t)}], map, s[Max(t)])
  BY <1>1 DEF IsVisitAll
<1>3. \A t \in SUBSET (1..m) : g[t] = IF t = {} THEN w ELSE Visit(g[t \ {Max(t)}], map, r[Max(t)])
  BY <1>1 DEF IsVisitAll
<1>4. \A i \in 1..n : s[i] = r[i]
  OBVIOUS
<1> HIDE DEF n, m
<1>5. 0 \in N
  <2>1. 1..0 = {} /\ {} \in SUBSET (1..n) /\ {} \in SUBSET (1..m)
    OBVIOUS
  <2>2. f[{}] = w /\ g[{}] = w
    BY <1>2, <1>3, <2>1
  <2> QED
    BY <2>1, <2>2
<1>6. ASSUME NEW k \in N PROVE k + 1 \in N
  <2> SUFFICES ASSUME k + 1 <= n PROVE f[1..(k + 1)] = g[1..(k + 1)]
    OBVIOUS
  <2>1. k \in Nat /\ f[1..k] = g[1..k]
    BY <1>1
  <2> DEFINE t == 1..(k + 1)
  <2>2. /\ t \in SUBSET (1..n) /\ t \in SUBSET (1..m) /\ t # {} /\ t \ {k + 1} = 1..k
        /\ t \in SUBSET (1..(k + 1)) /\ k + 1 \in t /\ k + 1 \in 1..n /\ k + 1 \in Nat
    <3>1. k + 1 \in Nat /\ k + 1 <= n /\ k + 1 <= m
      BY <1>1, <2>1
    <3>2. (1..(k + 1)) \ {k + 1} = 1..k
      BY <2>1
    <3> QED
      <4>1. \A i \in t : i \in 1..n /\ i \in 1..m
        BY <1>1, <3>1
      <4>2. k + 1 \in t /\ k + 1 \in 1..n
        BY <2>1, <3>1
      <4>3. t \ {k + 1} = 1..k
        BY <3>2
      <4> HIDE DEF t
      <4>4. t \in SUBSET (1..n) /\ t \in SUBSET (1..m) /\ t # {}
        BY <4>1, <4>2
      <4> QED
        BY <3>1, <4>2, <4>3, <4>4 DEF t
  <2> HIDE DEF t
  <2>3. Max(t) = k + 1
    BY <2>2, LastIndex
  <2>4. f[t] = Visit(f[1..k], map, s[k + 1]) /\ g[t] = Visit(g[1..k], map, r[k + 1])
    BY <1>2, <1>3, <2>2, <2>3
  <2> QED
    BY <1>4, <2>1, <2>2, <2>4 DEF t
<1> HIDE DEF N
<1>7. N \in SUBSET Nat
  BY DEF N
<1>8. N = Nat
  BY <1>5, <1>6, <1>7, NatInductionOnSets
<1>9. n \in N
  BY <1>1, <1>8
<1> QED
  BY <1>1, <1>9 DEF N

\* The slots of a volume, visited one after the other.
VisitAll(w, map, s) == FoldLeft(LAMBDA walk, slot : Visit(walk, map, slot), w, s)

LEMMA VisitAllIs ==
  ASSUME NEW map, NEW s, NEW w
  PROVE  VisitAll(w, map, s) = (CHOOSE f : IsVisitAll(f, w, map, s))[DOMAIN s]
BY DEF FoldLeft, MapThenFoldSet, IsVisitAll, VisitAll

LEMMA VisitAllEmpty ==
  ASSUME NEW map, NEW w
  PROVE  VisitAll(w, map, <<>>) = w
<1> DEFINE f == CHOOSE h : IsVisitAll(h, w, map, <<>>)
<1>1. IsVisitAll(f, w, map, <<>>)
  BY EmptySeq, VisitAllExists
<1>2. VisitAll(w, map, <<>>) = f[DOMAIN <<>>]
  BY VisitAllIs
<1> HIDE DEF f
<1>3. DOMAIN <<>> = {} /\ {} \in SUBSET DOMAIN <<>>
  BY EmptySeq, LenProperties
<1>4. \A t \in SUBSET (DOMAIN <<>>) :
        f[t] = IF t = {} THEN w ELSE Visit(f[t \ {Max(t)}], map, <<>>[Max(t)])
  BY <1>1 DEF IsVisitAll
<1>5. f[{}] = w
  BY <1>3, <1>4
<1> QED
  BY <1>2, <1>3, <1>5

LEMMA VisitAllAppend ==
  ASSUME NEW map, NEW T, NEW s \in Seq(T), NEW x \in T, NEW w
  PROVE  VisitAll(w, map, Append(s, x)) = Visit(VisitAll(w, map, s), map, x)
<1> DEFINE n == Len(s)
           r == Append(s, x)
           f == CHOOSE h : IsVisitAll(h, w, map, s)
           g == CHOOSE h : IsVisitAll(h, w, map, r)
<1>1. /\ r \in Seq(T) /\ Len(r) = n + 1 /\ DOMAIN r = 1..(n + 1) /\ DOMAIN s = 1..n /\ n \in Nat
      /\ (\A i \in 1..n : r[i] = s[i]) /\ r[n + 1] = x
  BY AppendProperties, LenProperties
<1>2. VisitAll(w, map, s) = f[DOMAIN s] /\ VisitAll(w, map, r) = g[DOMAIN r]
  <2>1. VisitAll(w, map, s) = f[DOMAIN s]
    BY VisitAllIs
  <2> HIDE DEF r
  <2>2. VisitAll(w, map, r) = g[DOMAIN r]
    BY VisitAllIs
  <2> QED
    BY <2>1, <2>2
<1>3. IsVisitAll(f, w, map, s)
  BY VisitAllExists
<1>4. IsVisitAll(g, w, map, r)
  <2>1. \E h : IsVisitAll(h, w, map, r)
    <3> HIDE DEF r
    <3> QED
      BY <1>1, VisitAllExists
  <2> QED
    BY <2>1
<1> HIDE DEF f, g, r
<1>5. f[1..n] = g[1..n]
  <2>1. Len(s) <= Len(r) /\ \A i \in 1..Len(s) : s[i] = r[i]
    BY <1>1
  <2>2. f[DOMAIN s] = g[DOMAIN s]
    BY <1>1, <1>3, <1>4, <2>1, VisitAllPrefix
  <2> QED
    BY <1>1, <2>2
<1> DEFINE t == 1..(n + 1)
<1>6. /\ t \in SUBSET (DOMAIN r) /\ t # {} /\ t \ {n + 1} = 1..n /\ n + 1 \in t /\ n + 1 \in Nat
      /\ t \in SUBSET (1..(n + 1))
  BY <1>1
<1> HIDE DEF t
<1>7. Max(t) = n + 1
  BY <1>6, LastIndex
<1>8. \A q \in SUBSET (DOMAIN r) : g[q] = IF q = {} THEN w ELSE Visit(g[q \ {Max(q)}], map, r[Max(q)])
  BY <1>4 DEF IsVisitAll
<1>9. g[t] = Visit(g[1..n], map, r[n + 1])
  BY <1>6, <1>7, <1>8
<1> QED
  BY <1>1, <1>2, <1>5, <1>9 DEF r, t

-----------------------------------------------------------------------------
(* What a walk of the viewer has drawn and what it still has to: the pages *)
(* and images of K, and the images that are queued.                        *)

Entries == [is : {"page", "insert", "missing"}, n : Nat, anchor : Nat]
Walks   == [out : Seq(Entries), at : Nat, gap : Nat, queue : Seq(Nat)]
Faces   == [is : {"page", "insert"}, n : Nat]
FaceKinds == {K \in SUBSET {"page", "insert"} : "insert" \in K}

Face(e)      == [is |-> e.is, n |-> e.n]
FaceTable(K) == [e \in Entries |-> IF e.is \in K THEN <<Face(e)>> ELSE <<>>]
ImageFace    == [pk \in Nat |-> ImageItem(pk)]
EntryOf      == [pk \in Nat |-> Image(pk)]
FacesIn(K, out) == Joined(FaceTable(K), out)
Queued(queue)   == Mapped(ImageFace, queue)
Seen(K, w)      == Cat(FacesIn(K, w.out), Queued(w.queue))

LEMMA FaceTablesFill ==
  ASSUME NEW K \in FaceKinds
  PROVE  /\ Fills(FaceTable(K), Entries, Seq(Faces))
         /\ Fills(ImageFace, Nat, Faces) /\ Fills(EntryOf, Nat, Entries)
<1>1. ASSUME NEW e \in Entries PROVE (IF e.is \in K THEN <<Face(e)>> ELSE <<>>) \in Seq(Faces)
  <2>1. CASE e.is \in K
    <3>1. e.is \in {"page", "insert"} /\ e.n \in Nat
      BY <2>1 DEF FaceKinds, Entries
    <3>2. Face(e) \in Faces
      BY <3>1 DEF Face, Faces
    <3> QED
      BY <2>1, <3>2
  <2>2. CASE e.is \notin K
    BY <2>2, EmptySeq
  <2> QED
    BY <2>1, <2>2
<1>2. \A pk \in Nat : ImageItem(pk) \in Faces /\ Image(pk) \in Entries
  BY DEF ImageItem, Faces, Image, Shown, Entries
<1> QED
  BY <1>1, <1>2 DEF Fills, FaceTable, ImageFace, EntryOf

LEMMA SeenType ==
  ASSUME NEW K \in FaceKinds, NEW w \in Walks
  PROVE  /\ FacesIn(K, w.out) \in Seq(Faces) /\ Queued(w.queue) \in Seq(Faces)
         /\ Seen(K, w) \in Seq(Faces)
<1>1. w.out \in Seq(Entries) /\ w.queue \in Seq(Nat)
  BY DEF Walks
<1>2. FacesIn(K, w.out) \in Seq(Faces) /\ Queued(w.queue) \in Seq(Faces)
  BY <1>1, FaceTablesFill, JoinedType, MappedType DEF FacesIn, Queued
<1> QED
  BY <1>2, CatIs DEF Seen

\* One more entry.
LEMMA FacesAppend ==
  ASSUME NEW K \in FaceKinds, NEW out \in Seq(Entries), NEW e \in Entries
  PROVE  /\ Append(out, e) \in Seq(Entries)
         /\ FacesIn(K, Append(out, e))
              = IF e.is \in K THEN Cat(FacesIn(K, out), <<Face(e)>>) ELSE FacesIn(K, out)
<1>1. Append(out, e) \in Seq(Entries)
  BY AppendProperties
<1>2. FacesIn(K, Append(out, e)) = Cat(FacesIn(K, out), FaceTable(K)[e])
  BY FaceTablesFill, JoinedAppend DEF FacesIn
<1>3. FacesIn(K, out) \in Seq(Faces)
  BY FaceTablesFill, JoinedType DEF FacesIn
<1>4. Cat(FacesIn(K, out), <<>>) = FacesIn(K, out)
  BY <1>3, ConcatEmptySeq DEF Cat
<1> QED
  BY <1>1, <1>2, <1>4 DEF FaceTable

LEMMA DrawIs ==
  ASSUME NEW w \in Walks, NEW e \in Nat
  PROVE  Draw(w, e) =
           IF e # Missing
           THEN [out |-> Append(w.out, Shown("page", e, 0)), at |-> w.at, gap |-> w.gap, queue |-> w.queue]
           ELSE IF w.queue = <<>>
           THEN [out |-> Append(w.out, Shown("missing", 0, w.gap)), at |-> w.at, gap |-> w.gap,
                 queue |-> w.queue]
           ELSE [out |-> Append(w.out, Image(Head(w.queue))), at |-> w.at, gap |-> w.gap,
                 queue |-> Tail(w.queue)]
<1>1. PICK o \in Seq(Entries), at \in Nat, gap \in Nat, queue \in Seq(Nat) :
        w = [out |-> o, at |-> at, gap |-> gap, queue |-> queue]
  BY DEF Walks
<1>2. \A x, y : /\ [w EXCEPT !.out = x] = [out |-> x, at |-> at, gap |-> gap, queue |-> queue]
                /\ [w EXCEPT !.out = x, !.queue = y] = [out |-> x, at |-> at, gap |-> gap, queue |-> y]
  <2>1. \A x : [w EXCEPT !.out = x] = [out |-> x, at |-> at, gap |-> gap, queue |-> queue]
    BY <1>1
  <2>2. ASSUME NEW x, NEW y
        PROVE  [w EXCEPT !.out = x, !.queue = y] = [out |-> x, at |-> at, gap |-> gap, queue |-> y]
    <3> DEFINE g == [w EXCEPT !.out = x, !.queue = y]
    <3>1. DOMAIN w = {"out", "at", "gap", "queue"}
      BY <1>1
    <3>2. g = [i \in DOMAIN w |-> g[i]] /\ DOMAIN g = DOMAIN w
      OBVIOUS
    <3>3. g["out"] = x /\ g["queue"] = y /\ g["at"] = at /\ g["gap"] = gap
      BY <1>1, <3>1
    <3> HIDE DEF g
    <3>4. g = [out |-> x, at |-> at, gap |-> gap, queue |-> y]
      BY <3>1, <3>2, <3>3
    <3> QED
      BY <3>4 DEF g
  <2> QED
    BY <2>1, <2>2
<1>3. w.out = o /\ w.at = at /\ w.gap = gap /\ w.queue = queue
  BY <1>1
<1>4. \A x : Draw(w, x) =
         IF x # Missing THEN [w EXCEPT !.out = Append(w.out, Shown("page", x, 0))]
         ELSE IF w.queue = <<>> THEN [w EXCEPT !.out = Append(w.out, Shown("missing", 0, w.gap))]
         ELSE [w EXCEPT !.out = Append(w.out, Image(Head(w.queue))), !.queue = Tail(w.queue)]
  BY DEF Draw
<1> QED
  BY <1>2, <1>3, <1>4

LEMMA WalkIs ==
  ASSUME NEW w \in Walks
  PROVE  w.out \in Seq(Entries) /\ w.at \in Nat /\ w.gap \in Nat /\ w.queue \in Seq(Nat)
BY DEF Walks

LEMMA WalkMade ==
  ASSUME NEW out \in Seq(Entries), NEW at \in Nat, NEW gap \in Nat, NEW queue \in Seq(Nat)
  PROVE  LET w == [out |-> out, at |-> at, gap |-> gap, queue |-> queue] IN
         /\ w \in Walks /\ w.out = out /\ w.at = at /\ w.gap = gap /\ w.queue = queue
         /\ \A K : Seen(K, w) = Cat(FacesIn(K, out), Queued(queue))
BY DEF Walks, Seen

\* The queue is its head and the rest.
LEMMA QueueTaken ==
  ASSUME NEW queue \in Seq(Nat), queue # <<>>
  PROVE  /\ Head(queue) \in Nat /\ Tail(queue) \in Seq(Nat)
         /\ Queued(queue) = Cat(<<ImageItem(Head(queue))>>, Queued(Tail(queue)))
<1> DEFINE h == Head(queue)
           t == Tail(queue)
           o == <<h>>
<1>1. h \in Nat /\ t \in Seq(Nat) /\ Len(t) = Len(queue) - 1 /\ \A i \in 1..Len(t) : t[i] = queue[i + 1]
  BY HeadTailProperties
<1>2. Len(queue) \in Nat /\ Len(queue) # 0 /\ h = queue[1]
  BY EmptySeq, LenProperties
<1>3. o \in Seq(Nat) /\ Len(o) = 1 /\ o[1] = h
  BY <1>1
<1> HIDE DEF h, t, o
<1>4. IsCat(Cat(o, t), o, t, Nat)
  BY <1>1, <1>3, CatIs
<1>5. queue = Cat(o, t)
  <2>1. Cat(o, t) \in Seq(Nat) /\ Len(Cat(o, t)) = Len(queue)
    BY <1>1, <1>2, <1>3, <1>4 DEF IsCat
  <2>2. \A i \in 1..Len(queue) : Cat(o, t)[i] = queue[i]
    <3> TAKE i \in 1..Len(queue)
    <3>1. CASE i = 1
      BY <1>1, <1>2, <1>3, <1>4, <3>1 DEF IsCat
    <3>2. CASE i # 1
      <4>1. i - 1 \in 1..Len(t) /\ ~(i <= 1) /\ i \in 1..(Len(o) + Len(t)) /\ (i - 1) + 1 = i
        BY <1>1, <1>2, <1>3, <3>2
      <4>2. Cat(o, t)[i] = t[i - 1]
        BY <1>3, <1>4, <4>1 DEF IsCat
      <4> QED
        BY <1>1, <4>1, <4>2
    <3> QED
      BY <3>1, <3>2
  <2> QED
    BY <2>1, <2>2, SeqEqual
<1>6. Fills(ImageFace, Nat, Faces)
  BY FaceTablesFill DEF FaceKinds
<1>7. Queued(Cat(o, t)) = Cat(Queued(o), Queued(t))
  BY <1>1, <1>3, <1>6, MappedConcat DEF Queued
<1>8. Queued(o) = <<ImageItem(h)>>
  <2>1. Queued(<<h>>) = <<ImageFace[h]>>
    BY <1>1, <1>6, MappedOne DEF Queued
  <2> QED
    BY <1>1, <2>1 DEF ImageFace, o
<1> QED
  BY <1>1, <1>5, <1>7, <1>8 DEF h, t

\* A placeholder neither adds nor loses an image, and a page is one more face.
LEMMA DrawSeen ==
  ASSUME NEW K \in FaceKinds, NEW w \in Walks, NEW e \in Nat
  PROVE  /\ Draw(w, e) \in Walks
         /\ e = Missing \/ "page" \notin K => Seen(K, Draw(w, e)) = Seen(K, w)
         /\ e # Missing /\ "page" \in K /\ w.queue = <<>> =>
              /\ Seen(K, Draw(w, e)) = Cat(Seen(K, w), <<PageSlot(e)>>)
              /\ Draw(w, e).queue = <<>>
<1>1. w.out \in Seq(Entries) /\ w.at \in Nat /\ w.gap \in Nat /\ w.queue \in Seq(Nat)
  BY WalkIs
<1>2. FacesIn(K, w.out) \in Seq(Faces) /\ Queued(w.queue) \in Seq(Faces)
  BY SeenType
<1>3. CASE e # Missing
  <2> DEFINE x == Shown("page", e, 0)
             out == Append(w.out, x)
  <2>1. x \in Entries /\ x.is = "page" /\ Face(x) = PageSlot(e)
    BY DEF Shown, Entries, Face, PageSlot
  <2> HIDE DEF x
  <2>2. /\ out \in Seq(Entries)
        /\ FacesIn(K, out) = IF "page" \in K THEN Cat(FacesIn(K, w.out), <<PageSlot(e)>>) ELSE FacesIn(K, w.out)
    BY <1>1, <2>1, FacesAppend
  <2> HIDE DEF out
  <2>3. Draw(w, e) = [out |-> out, at |-> w.at, gap |-> w.gap, queue |-> w.queue]
    BY <1>3, DrawIs DEF out, x
  <2>4. /\ Draw(w, e) \in Walks /\ Draw(w, e).queue = w.queue
        /\ Seen(K, Draw(w, e)) = Cat(FacesIn(K, out), Queued(w.queue))
    BY <1>1, <2>2, <2>3, WalkMade
  <2>5. ASSUME w.queue = <<>>, "page" \in K
        PROVE  Seen(K, Draw(w, e)) = Cat(Seen(K, w), <<PageSlot(e)>>)
    <3>1. Queued(<<>>) = <<>>
      BY MappedEmpty DEF Queued
    <3>2. FacesIn(K, out) \in Seq(Faces)
      BY <2>2, FaceTablesFill, JoinedType DEF FacesIn
    <3>3. Seen(K, Draw(w, e)) = FacesIn(K, out) /\ Seen(K, w) = FacesIn(K, w.out)
      <4>1. Cat(FacesIn(K, out), <<>>) = FacesIn(K, out) /\ Cat(FacesIn(K, w.out), <<>>) = FacesIn(K, w.out)
        BY <1>2, <3>2, ConcatEmptySeq DEF Cat
      <4> QED
        BY <2>4, <2>5, <3>1, <4>1 DEF Seen
    <3> QED
      BY <2>2, <2>5, <3>3
  <2> QED
    BY <1>3, <2>2, <2>4, <2>5 DEF Seen
<1>4. CASE e = Missing /\ w.queue = <<>>
  <2> DEFINE x == Shown("missing", 0, w.gap)
             out == Append(w.out, x)
  <2>1. x \in Entries /\ x.is = "missing" /\ "missing" \notin K
    BY <1>1 DEF Shown, Entries, FaceKinds
  <2> HIDE DEF x
  <2>2. out \in Seq(Entries) /\ FacesIn(K, out) = FacesIn(K, w.out)
    <3>1. x.is \notin K
      BY <2>1
    <3> QED
      BY <1>1, <2>1, <3>1, FacesAppend
  <2> HIDE DEF out
  <2>3. Draw(w, e) = [out |-> out, at |-> w.at, gap |-> w.gap, queue |-> w.queue]
    BY <1>4, DrawIs DEF out, x
  <2>4. Draw(w, e) \in Walks /\ Seen(K, Draw(w, e)) = Cat(FacesIn(K, out), Queued(w.queue))
    BY <1>1, <2>2, <2>3, WalkMade
  <2> QED
    BY <1>4, <2>2, <2>4 DEF Seen
<1>5. CASE e = Missing /\ w.queue # <<>>
  <2> DEFINE h == Head(w.queue)
             t == Tail(w.queue)
             x == Image(h)
             o == <<ImageItem(h)>>
             out == Append(w.out, x)
  <2>1. h \in Nat /\ t \in Seq(Nat) /\ Queued(w.queue) = Cat(o, Queued(t))
    BY <1>1, <1>5, QueueTaken
  <2> HIDE DEF h, t
  <2>2. x \in Entries /\ x.is = "insert" /\ "insert" \in K /\ Face(x) = ImageItem(h)
    BY <2>1 DEF Image, Shown, Entries, FaceKinds, Face, ImageItem
  <2> HIDE DEF x
  <2>3. out \in Seq(Entries) /\ FacesIn(K, out) = Cat(FacesIn(K, w.out), o)
    BY <1>1, <2>2, FacesAppend
  <2> HIDE DEF out
  <2>4. Draw(w, e) = [out |-> out, at |-> w.at, gap |-> w.gap, queue |-> t]
    BY <1>5, DrawIs DEF out, x, h, t
  <2>5. Draw(w, e) \in Walks /\ Seen(K, Draw(w, e)) = Cat(FacesIn(K, out), Queued(t))
    BY <1>1, <2>1, <2>3, <2>4, WalkMade
  <2>6. o \in Seq(Faces) /\ Queued(t) \in Seq(Faces)
    <3>1. ImageItem(h) \in Faces
      BY <2>1 DEF ImageItem, Faces
    <3> QED
      BY <2>1, <3>1, FaceTablesFill, MappedType DEF Queued
  <2> DEFINE a == FacesIn(K, w.out)
             b == Queued(t)
  <2>7. a \in Seq(Faces) /\ b \in Seq(Faces)
    BY <1>2, <2>6
  <2> HIDE DEF a, b, o
  <2>8. Cat(Cat(a, o), b) = Cat(a, Cat(o, b))
    BY <2>6, <2>7, ConcatAssociative DEF Cat
  <2>9. Seen(K, Draw(w, e)) = Cat(Cat(a, o), b) /\ Seen(K, w) = Cat(a, Cat(o, b))
    BY <2>1, <2>3, <2>5 DEF a, b, Seen
  <2> QED
    BY <1>5, <2>5, <2>8, <2>9
<1> QED
  BY <1>3, <1>4, <1>5

-----------------------------------------------------------------------------
(* The steps of a walk: what is queued is drawn, and the entries up to an  *)
(* index.                                                                  *)

\* Two maps in a row, of which the second gives one member for one.
Singly(G, F, H, T) == \A x \in T : G[F[x]] = <<H[x]>>

LEMMA JoinedMapped ==
  ASSUME NEW T, NEW U, NEW V, NEW F, Fills(F, T, U), NEW G, Fills(G, U, Seq(V)),
         NEW H, Fills(H, T, V), Singly(G, F, H, T), NEW s \in Seq(T)
  PROVE  Joined(G, Mapped(F, s)) = Mapped(H, s)
<1> DEFINE L == [x \in T |-> G[F[x]]]
<1>1. \A x \in T : F[x] \in U
  BY DEF Fills
<1>2. \A x \in T : G[F[x]] \in Seq(V)
  BY <1>1 DEF Fills
<1>3. Fills(L, T, Seq(V)) /\ \A x \in T : L[x] = G[F[x]] /\ L[x] = <<H[x]>>
  BY <1>2 DEF Fills, Singly
<1> HIDE DEF L
<1>4. Mapped(G, Mapped(F, s)) = Mapped(L, s)
  BY <1>3, MappedTwice
<1>5. Joined(L, s) = Mapped(H, s)
  BY <1>3, JoinedOnes
<1> QED
  BY <1>4, <1>5 DEF Joined

LEMMA FacesOfImages ==
  ASSUME NEW K \in FaceKinds, NEW queue \in Seq(Nat)
  PROVE  /\ Mapped(EntryOf, queue) \in Seq(Entries)
         /\ FacesIn(K, Mapped(EntryOf, queue)) = Queued(queue)
<1>1. /\ Fills(FaceTable(K), Entries, Seq(Faces))
      /\ Fills(ImageFace, Nat, Faces) /\ Fills(EntryOf, Nat, Entries)
  BY FaceTablesFill
<1>2. \A pk \in Nat : FaceTable(K)[EntryOf[pk]] = <<ImageFace[pk]>>
  <2> TAKE pk \in Nat
  <2>1. EntryOf[pk] = Image(pk) /\ ImageFace[pk] = ImageItem(pk) /\ Image(pk) \in Entries
    BY <1>1 DEF EntryOf, ImageFace, Fills
  <2>2. Image(pk).is \in K /\ Face(Image(pk)) = ImageItem(pk)
    BY DEF Image, Shown, Face, ImageItem, FaceKinds
  <2> QED
    BY <2>1, <2>2 DEF FaceTable
<1>3. Joined(FaceTable(K), Mapped(EntryOf, queue)) = Mapped(ImageFace, queue)
  <2> DEFINE G == FaceTable(K)
             F == EntryOf
             H == ImageFace
  <2>1. Fills(G, Entries, Seq(Faces)) /\ Fills(H, Nat, Faces) /\ Fills(F, Nat, Entries)
    BY <1>1
  <2>2. Singly(G, F, H, Nat)
    BY <1>2 DEF Singly
  <2> HIDE DEF G, F, H
  <2>3. Joined(G, Mapped(F, queue)) = Mapped(H, queue)
    BY <2>1, <2>2, JoinedMapped
  <2> QED
    BY <2>3 DEF G, F, H
<1> QED
  BY <1>1, <1>3, MappedType DEF FacesIn, Queued

LEMMA FacesConcat ==
  ASSUME NEW K \in FaceKinds, NEW q \in Seq(Entries), NEW r \in Seq(Entries)
  PROVE  FacesIn(K, Cat(q, r)) = Cat(FacesIn(K, q), FacesIn(K, r))
BY FaceTablesFill, JoinedConcat DEF FacesIn

LEMMA FlushIs ==
  ASSUME NEW w \in Walks
  PROVE  Flush(w) = [out |-> Cat(w.out, Mapped(EntryOf, w.queue)), at |-> w.at, gap |-> w.gap,
                     queue |-> <<>>]
<1>1. PICK o \in Seq(Entries), at \in Nat, gap \in Nat, queue \in Seq(Nat) :
        w = [out |-> o, at |-> at, gap |-> gap, queue |-> queue]
  BY DEF Walks
<1>2. w.out = o /\ w.at = at /\ w.gap = gap /\ w.queue = queue
  BY <1>1
<1>3. [i \in DOMAIN queue |-> Image(queue[i])] = Mapped(EntryOf, queue)
  <2>1. DOMAIN queue = 1..Len(queue) /\ \A i \in 1..Len(queue) : queue[i] \in Nat
    BY LenProperties, ElementOfSeq
  <2>2. \A i \in DOMAIN queue : Image(queue[i]) = EntryOf[queue[i]]
    BY <2>1 DEF EntryOf
  <2> QED
    BY <2>2 DEF Mapped
<1> DEFINE x == Cat(o, Mapped(EntryOf, queue))
           g == [w EXCEPT !.out = x, !.queue = <<>>]
<1>4. Flush(w) = g
  BY <1>2, <1>3 DEF Flush, Cat
<1> HIDE DEF x
<1>5. DOMAIN w = {"out", "at", "gap", "queue"}
  BY <1>1
<1>6. g = [i \in DOMAIN w |-> g[i]] /\ DOMAIN g = DOMAIN w
  OBVIOUS
<1>7. g["out"] = x /\ g["queue"] = <<>> /\ g["at"] = at /\ g["gap"] = gap
  BY <1>1, <1>5
<1> HIDE DEF g
<1>8. g = [out |-> x, at |-> at, gap |-> gap, queue |-> <<>>]
  BY <1>5, <1>6, <1>7
<1> QED
  BY <1>2, <1>4, <1>8 DEF x

LEMMA FlushSeen ==
  ASSUME NEW K \in FaceKinds, NEW w \in Walks
  PROVE  /\ Flush(w) \in Walks /\ Flush(w).at = w.at /\ Flush(w).gap = w.gap
         /\ Flush(w).queue = <<>>
         /\ Seen(K, Flush(w)) = Seen(K, w) /\ FacesIn(K, Flush(w).out) = Seen(K, w)
<1> DEFINE m == Mapped(EntryOf, w.queue)
           x == Cat(w.out, m)
           e == <<>>
<1>1. w.out \in Seq(Entries) /\ w.at \in Nat /\ w.gap \in Nat /\ w.queue \in Seq(Nat)
  BY WalkIs
<1>2. m \in Seq(Entries) /\ FacesIn(K, m) = Queued(w.queue)
  BY <1>1, FacesOfImages
<1>3. Flush(w) = [out |-> x, at |-> w.at, gap |-> w.gap, queue |-> e]
  BY FlushIs
<1>4. e \in Seq(Nat) /\ Queued(e) = <<>>
  BY EmptySeq, MappedEmpty DEF Queued
<1> HIDE DEF m
<1>5. x \in Seq(Entries) /\ FacesIn(K, x) = Cat(FacesIn(K, w.out), Queued(w.queue))
  BY <1>1, <1>2, CatIs, FacesConcat
<1> HIDE DEF x, e
<1>6. /\ Flush(w) \in Walks /\ Flush(w).at = w.at /\ Flush(w).gap = w.gap /\ Flush(w).out = x
      /\ Flush(w).queue = e /\ Seen(K, Flush(w)) = Cat(FacesIn(K, x), Queued(e))
  BY <1>1, <1>3, <1>4, <1>5, WalkMade
<1>7. FacesIn(K, x) \in Seq(Faces)
  BY <1>5, FaceTablesFill, JoinedType DEF FacesIn
<1>8. Cat(FacesIn(K, x), <<>>) = FacesIn(K, x)
  BY <1>7, ConcatEmptySeq DEF Cat
<1> QED
  BY <1>4, <1>5, <1>6, <1>8 DEF Seen, e

LEMMA DrawKeeps ==
  ASSUME NEW w \in Walks, NEW e \in Nat
  PROVE  /\ Draw(w, e).at = w.at /\ Draw(w, e).gap = w.gap
         /\ w.queue = <<>> => Draw(w, e).queue = <<>>
BY DrawIs

\* Entries that add no page of K.
LEMMA DrawAllSeen ==
  ASSUME NEW K \in FaceKinds, NEW w \in Walks, NEW T \in SUBSET Nat,
         T = {Missing} \/ "page" \notin K, NEW s \in Seq(T)
  PROVE  /\ DrawAll(w, s) \in Walks /\ DrawAll(w, s).at = w.at /\ DrawAll(w, s).gap = w.gap
         /\ Seen(K, DrawAll(w, s)) = Seen(K, w)
         /\ w.queue = <<>> => DrawAll(w, s).queue = <<>>
<1> DEFINE Kept(v) == /\ v \in Walks /\ v.at = w.at /\ v.gap = w.gap /\ Seen(K, v) = Seen(K, w)
                      /\ w.queue = <<>> => v.queue = <<>>
           S == {r \in Seq(T) : Kept(DrawAll(w, r))}
<1>1. <<>> \in S
  BY DrawAllEmpty, EmptySeq
<1>2. ASSUME NEW r \in S, NEW x \in T PROVE Append(r, x) \in S
  <2> DEFINE v == DrawAll(w, r)
  <2>1. Kept(v) /\ r \in Seq(T)
    OBVIOUS
  <2>2. DrawAll(w, Append(r, x)) = Draw(v, x)
    BY <2>1, DrawAllAppend
  <2> HIDE DEF v
  <2>3. x \in Nat /\ (x = Missing \/ "page" \notin K)
    OBVIOUS
  <2>4. Draw(v, x) \in Walks /\ Seen(K, Draw(v, x)) = Seen(K, v)
    BY <2>1, <2>3, DrawSeen
  <2>5. Kept(Draw(v, x))
    BY <2>1, <2>3, <2>4, DrawKeeps
  <2>6. Append(r, x) \in Seq(T)
    BY <2>1, AppendProperties
  <2> QED
    BY <2>2, <2>5, <2>6
<1>3. S \in SUBSET Seq(T)
  OBVIOUS
<1> HIDE DEF S
<1>4. S = Seq(T)
  BY <1>1, <1>2, <1>3, SeqInductionOnSets
<1> QED
  BY <1>4 DEF S

LEMMA GreaterOfTwo ==
  ASSUME NEW a \in Nat, NEW b \in Nat
  PROVE  Max({a, b}) = IF b < a THEN a ELSE b
<1>1. {a, b} \in SUBSET (0..(a + b)) /\ {a, b} # {} /\ a + b \in Nat
  OBVIOUS
<1>2. Max({a, b}) \in {a, b} /\ \A x \in {a, b} : x <= Max({a, b})
  BY <1>1, GreatestNumber
<1> QED
  BY <1>2

\* The walk is drawn on to an index.
LEMMA MovedTo ==
  ASSUME NEW w \in Walks, NEW at \in Nat
  PROVE  /\ [w EXCEPT !.at = at] \in Walks /\ [w EXCEPT !.at = at].at = at
         /\ [w EXCEPT !.at = at].gap = w.gap /\ [w EXCEPT !.at = at].queue = w.queue
         /\ [w EXCEPT !.at = at].out = w.out
         /\ \A K : Seen(K, [w EXCEPT !.at = at]) = Seen(K, w)
<1>1. PICK o \in Seq(Entries), k \in Nat, gap \in Nat, queue \in Seq(Nat) :
        w = [out |-> o, at |-> k, gap |-> gap, queue |-> queue]
  BY DEF Walks
<1>2. [w EXCEPT !.at = at] = [out |-> o, at |-> at, gap |-> gap, queue |-> queue]
  BY <1>1
<1>3. w.out = o /\ w.gap = gap /\ w.queue = queue
  BY <1>1
<1> QED
  BY <1>2, <1>3, WalkMade DEF Seen

LEMMA DrawUntilSeen ==
  ASSUME NEW K \in FaceKinds, NEW w \in Walks, NEW map \in Seq(Nat), 1 <= w.at,
         NEW stop \in 1..(Len(map) + 1),
         "page" \notin K \/ \A i \in w.at..(stop - 1) : map[i] = Missing
  PROVE  LET v == DrawUntil(w, map, stop) IN
         /\ v \in Walks /\ v.gap = w.gap /\ v.at = (IF w.at < stop THEN stop ELSE w.at)
         /\ Seen(K, v) = Seen(K, w) /\ (w.queue = <<>> => v.queue = <<>>)
<1> DEFINE s == SubSeq(map, w.at, stop - 1)
           T == IF "page" \notin K THEN Nat ELSE {Missing}
           u == DrawAll(w, s)
           at == Max({stop, w.at})
<1>1. w.at \in Nat /\ stop \in Nat /\ Len(map) \in Nat /\ \A i \in 1..Len(map) : map[i] \in Nat
  BY WalkIs, LenProperties, ElementOfSeq
<1>2. \A i \in w.at..(stop - 1) : map[i] \in T
  BY <1>1
<1>3. T \in SUBSET Nat /\ (T = {Missing} \/ "page" \notin K)
  BY DEF Missing
<1> HIDE DEF T
<1>4. s \in Seq(T)
  BY <1>1, <1>2, SubSeqProperties
<1>5. at = (IF w.at < stop THEN stop ELSE w.at) /\ at \in Nat
  BY <1>1, GreaterOfTwo
<1>6. DrawUntil(w, map, stop) = [u EXCEPT !.at = at]
  BY DEF DrawUntil, DrawAll
<1> HIDE DEF s, at
<1>7. /\ u \in Walks /\ u.at = w.at /\ u.gap = w.gap /\ Seen(K, u) = Seen(K, w)
      /\ w.queue = <<>> => u.queue = <<>>
  BY <1>3, <1>4, DrawAllSeen
<1> HIDE DEF u
<1>8. LET v == [u EXCEPT !.at = at] IN
      /\ v \in Walks /\ v.at = at /\ v.gap = u.gap /\ v.queue = u.queue /\ Seen(K, v) = Seen(K, u)
  BY <1>5, <1>7, MovedTo
<1> QED
  BY <1>5, <1>6, <1>7, <1>8

LEMMA SubSeqOne ==
  ASSUME NEW T, NEW s \in Seq(T), NEW j \in 1..Len(s)
  PROVE  SubSeq(s, j, j) = Append(<<>>, s[j])
<1>1. j \in Nat /\ Len(s) \in Nat /\ j \in j..Len(s) /\ s[j] \in T
  BY LenProperties, ElementOfSeq
<1>2. SubSeq(s, j, j) = SubSeq(s, j, j - 1) \o <<s[j]>>
  BY <1>1, SubSeqRecursiveSecond
<1>3. SubSeq(s, j, j - 1) = <<>>
  BY <1>1, SubSeqEmpty
<1>4. Append(<<>>, s[j]) = <<>> \o <<s[j]>>
  BY <1>1, EmptySeq, AppendIsConcat
<1> QED
  BY <1>2, <1>3, <1>4

\* One page, with nothing queued.
LEMMA DrawOnePage ==
  ASSUME NEW K \in FaceKinds, NEW w \in Walks, NEW map \in Seq(Nat), w.at \in 1..Len(map),
         map[w.at] # Missing, w.queue = <<>>, "page" \in K
  PROVE  LET v == DrawUntil(w, map, w.at + 1) IN
         /\ v \in Walks /\ v.gap = w.gap /\ v.at = w.at + 1
         /\ Seen(K, v) = Cat(Seen(K, w), <<PageSlot(map[w.at])>>) /\ v.queue = <<>>
<1> DEFINE j == w.at
           p == map[j]
           s == SubSeq(map, j, (j + 1) - 1)
           u == DrawAll(w, s)
           at == Max({j + 1, j})
<1>1. j \in Nat /\ j \in 1..Len(map) /\ p \in Nat /\ p # Missing
  BY WalkIs, ElementOfSeq
<1>2. s = Append(<<>>, p) /\ <<>> \in Seq(Nat)
  <2>1. s = SubSeq(map, j, j)
    BY <1>1
  <2>2. SubSeq(map, j, j) = Append(<<>>, p)
    BY <1>1, SubSeqOne
  <2> QED
    BY <2>1, <2>2, EmptySeq
<1>3. at = j + 1
  BY <1>1, GreaterOfTwo
<1>4. DrawUntil(w, map, w.at + 1) = [u EXCEPT !.at = at]
  BY DEF DrawUntil, DrawAll
<1>5. u = Draw(DrawAll(w, <<>>), p)
  BY <1>1, <1>2, DrawAllAppend
<1>6. u = Draw(w, p)
  BY <1>5, DrawAllEmpty
<1> HIDE DEF u, at, p
<1>7. u \in Walks /\ Seen(K, u) = Cat(Seen(K, w), <<PageSlot(p)>>) /\ u.queue = <<>> /\ u.gap = w.gap
  BY <1>1, <1>6, DrawSeen, DrawKeeps
<1>8. LET v == [u EXCEPT !.at = at] IN
      /\ v \in Walks /\ v.at = at /\ v.gap = u.gap /\ v.queue = u.queue /\ Seen(K, v) = Seen(K, u)
  <2>1. at \in Nat
    BY <1>1, <1>3
  <2> QED
    BY <1>7, <2>1, MovedTo
<1> QED
  BY <1>3, <1>4, <1>7, <1>8 DEF p

-----------------------------------------------------------------------------
(* A slot of the corrected volume, visited.                                *)

\* Where a map holds page n.
PlacesIn(map, n) == {i \in DOMAIN map : map[i] = n /\ n # Missing}

\* A gap whose page the map has lost.
GapLost(map, n) == n # 0 /\ PlacesIn(map, n) = {}

FirstWalk == [out |-> <<>>, at |-> 1, gap |-> 0, queue |-> <<>>]

LEMMA LeastIs ==
  ASSUME NEW N \in Nat, NEW T \in SUBSET (0..N), T # {}
  PROVE  Min(T) \in T /\ \A x \in T : Min(T) <= x
<1>1. \E x \in T : \A y \in T : x =< y
  BY LeastNumber
<1> QED
  BY <1>1 DEF Min

LEMMA FirstWalkIs ==
  ASSUME NEW K \in FaceKinds
  PROVE  FirstWalk \in Walks /\ FirstWalk.at = 1 /\ FirstWalk.queue = <<>> /\ Seen(K, FirstWalk) = <<>>
<1> DEFINE e == <<>>
<1>1. e \in Seq(Entries) /\ e \in Seq(Nat) /\ FacesIn(K, e) = <<>> /\ Queued(e) = <<>>
  BY EmptySeq, MappedEmpty DEF FacesIn, Queued
<1>2. FirstWalk = [out |-> e, at |-> 1, gap |-> 0, queue |-> e]
  BY DEF FirstWalk
<1> HIDE DEF e
<1>3. /\ FirstWalk \in Walks /\ FirstWalk.at = 1 /\ FirstWalk.queue = e
      /\ Seen(K, FirstWalk) = Cat(FacesIn(K, e), Queued(e))
  BY <1>1, <1>2, WalkMade
<1>4. Cat(<<>>, <<>>) = <<>>
  BY EmptySeq, ConcatEmptySeq DEF Cat
<1> QED
  BY <1>1, <1>3, <1>4 DEF e

LEMMA InsertsQueued ==
  ASSUME RowsInv, NEW a
  PROVE  Inserts(a) \in Seq(Nat) /\ Queued(Inserts(a)) = Mapped(ImageTable, Inserts(a))
<1>1. Inserts(a) \in Seq(Standing("insert"))
  BY InsertsType
<1>2. Standing("insert") \subseteq Nat
  BY InsertRow
<1>3. \A i \in DOMAIN Inserts(a) : Inserts(a)[i] \in Standing("insert")
  BY InsertFacts
<1>4. \A i \in DOMAIN Inserts(a) : ImageFace[Inserts(a)[i]] = ImageTable[Inserts(a)[i]]
  BY <1>2, <1>3 DEF ImageFace, ImageTable
<1>5. Mapped(ImageFace, Inserts(a)) = Mapped(ImageTable, Inserts(a))
  BY <1>4 DEF Mapped
<1> QED
  BY <1>1, <1>2, <1>5, SeqMonotonic DEF Queued

LEMMA VisitGap ==
  ASSUME RowsInv, NEW K \in FaceKinds, NEW w \in Walks, NEW map, NEW a \in Anchors
  PROVE  LET v == Visit(w, map, GapSlot(a)) IN
         /\ v \in Walks /\ v.at = w.at
         /\ GapLost(map, a) => Seen(K, v) = Seen(K, w)
         /\ ~GapLost(map, a) => Seen(K, v) = Cat(Seen(K, w), ItemsTable[GapSlot(a)])
<1> DEFINE q == Inserts(a)
           x == Cat(w.queue, q)
           g == [w EXCEPT !.gap = a, !.queue = x]
<1>1. GapSlot(a).is = "gap" /\ GapSlot(a).n = a
  BY DEF GapSlot
<1>2. Visit(w, map, GapSlot(a)) = IF GapLost(map, a) THEN w ELSE g
  BY <1>1 DEF Visit, GapLost, PlacesIn, Cat
<1>3. q \in Seq(Nat) /\ Queued(q) = ItemsTable[GapSlot(a)]
  <2>1. GapSlot(a) \in Slot
    BY DEF GapSlot, Slot
  <2>2. ItemsTable[GapSlot(a)] = Mapped(ImageTable, Inserts(a))
    BY <1>1, <2>1 DEF ItemsTable, ItemsOf
  <2> QED
    BY <2>2, InsertsQueued
<1>4. a \in Nat
  BY PageEditsAssumption DEF Anchors
<1> HIDE DEF q
<1>5. w.out \in Seq(Entries) /\ w.at \in Nat /\ w.gap \in Nat /\ w.queue \in Seq(Nat)
  BY WalkIs
<1>6. x \in Seq(Nat) /\ Queued(x) = Cat(Queued(w.queue), Queued(q))
  <2>1. Fills(ImageFace, Nat, Faces)
    BY FaceTablesFill
  <2> DEFINE r == w.queue
  <2>2. r \in Seq(Nat)
    BY <1>5
  <2> HIDE DEF r
  <2>3. Cat(r, q) \in Seq(Nat)
    BY <1>3, <2>2, CatIs
  <2>4. Mapped(ImageFace, Cat(r, q)) = Cat(Mapped(ImageFace, r), Mapped(ImageFace, q))
    BY <1>3, <2>1, <2>2, MappedConcat
  <2> QED
    BY <2>3, <2>4 DEF r, Queued
<1> HIDE DEF x
<1>7. g = [out |-> w.out, at |-> w.at, gap |-> a, queue |-> x]
  <2>1. w = [out |-> w.out, at |-> w.at, gap |-> w.gap, queue |-> w.queue]
    BY DEF Walks
  <2>2. DOMAIN w = {"out", "at", "gap", "queue"}
    BY <2>1
  <2>3. g = [i \in DOMAIN w |-> g[i]] /\ DOMAIN g = DOMAIN w
    OBVIOUS
  <2>4. g["out"] = w.out /\ g["queue"] = x /\ g["at"] = w.at /\ g["gap"] = a
    BY <2>1, <2>2
  <2> HIDE DEF g
  <2> QED
    BY <2>2, <2>3, <2>4
<1>8. /\ g \in Walks /\ g.at = w.at
      /\ Seen(K, g) = Cat(FacesIn(K, w.out), Queued(x))
  BY <1>4, <1>5, <1>6, <1>7, WalkMade
<1>9. Seen(K, g) = Cat(Seen(K, w), Queued(q))
  <2> DEFINE f == FacesIn(K, w.out)
             h == Queued(w.queue)
             l == Queued(q)
  <2>1. f \in Seq(Faces) /\ h \in Seq(Faces)
    BY SeenType
  <2>2. l \in Seq(Faces)
    BY <1>3, FaceTablesFill, MappedType DEF Queued
  <2>3. Seen(K, g) = Cat(f, Cat(h, l)) /\ Seen(K, w) = Cat(f, h)
    BY <1>6, <1>8 DEF Seen
  <2> HIDE DEF f, h, l
  <2>4. Cat(Cat(f, h), l) = Cat(f, Cat(h, l))
    BY <2>1, <2>2, ConcatAssociative DEF Cat
  <2> QED
    BY <2>3, <2>4 DEF l
<1> QED
  BY <1>2, <1>3, <1>8, <1>9

LEMMA VisitPage ==
  ASSUME NEW w, NEW map, NEW n
  PROVE  LET at == PlacesIn(map, n)
             m  == Min(at) IN
         Visit(w, map, PageSlot(n)) =
           IF at = {} \/ Min(at \cup {Len(map)}) < w.at THEN w
           ELSE DrawUntil(Flush(DrawUntil(w, map, m)), map, m + 1)
<1>1. PageSlot(n).is = "page" /\ PageSlot(n).n = n /\ "page" # "gap"
  BY DEF PageSlot
<1> QED
  BY <1>1 DEF Visit, PlacesIn

LEMMA PlacesAre ==
  ASSUME NEW map \in Seq(Nat), NEW n, PlacesIn(map, n) # {}
  PROVE  LET at == PlacesIn(map, n) IN
         /\ Min(at) \in at /\ Min(at) \in 1..Len(map) /\ Min(at) + 1 \in 1..(Len(map) + 1)
         /\ Min(at) \in 1..(Len(map) + 1)
<1> DEFINE at == PlacesIn(map, n)
<1>1. Len(map) \in Nat /\ DOMAIN map = 1..Len(map)
  BY LenProperties
<1>2. at \in SUBSET (1..Len(map)) /\ at \in SUBSET (0..Len(map))
  BY <1>1 DEF PlacesIn
<1> HIDE DEF at
<1>3. Min(at) \in at
  BY <1>1, <1>2, LeastIs DEF at
<1> QED
  BY <1>1, <1>2, <1>3 DEF at

-----------------------------------------------------------------------------
(* The images of a walk, whatever the map has lost.                        *)

JustImages == {"insert"}

TakenTable(map) ==
  [slot \in Slot |-> IF slot.is = "gap" /\ ~GapLost(map, slot.n) THEN ItemsTable[slot] ELSE <<>>]

LEMMA SlotIs ==
  ASSUME NEW slot \in Slot
  PROVE  \/ slot.is = "page" /\ slot.n \in Pages /\ slot = PageSlot(slot.n)
         \/ slot.is = "gap" /\ slot.n \in Anchors /\ slot = GapSlot(slot.n)
BY DEF Slot, PageSlot, GapSlot

LEMMA ItemsAreFaces == RowsInv => Items \subseteq Faces
<1> SUFFICES ASSUME RowsInv, NEW x \in Items PROVE x \in Faces
  OBVIOUS
<1>1. x = [is |-> x.is, n |-> x.n] /\ x.n \in Nat /\ x.is \in {"page", "insert"}
  BY ItemIs
<1> QED
  BY <1>1 DEF Faces

LEMMA TakenTableFills ==
  ASSUME RowsInv, NEW map
  PROVE  Fills(TakenTable(map), Slot, Seq(Items)) /\ Fills(TakenTable(map), Slot, Seq(Faces))
<1>1. Fills(ItemsTable, Slot, Seq(Items))
  BY ItemTablesTake
<1>2. \A slot \in Slot : ItemsTable[slot] \in Seq(Items)
  BY <1>1 DEF Fills
<1>3. <<>> \in Seq(Items) /\ Seq(Items) \subseteq Seq(Faces)
  BY EmptySeq, ItemsAreFaces, SeqMonotonic
<1> QED
  BY <1>2, <1>3 DEF TakenTable, Fills

LEMMA VisitImages ==
  ASSUME RowsInv, NEW w \in Walks, NEW map \in Seq(Nat), w.at \in 1..(Len(map) + 1), NEW slot \in Slot
  PROVE  LET v == Visit(w, map, slot) IN
         /\ v \in Walks /\ v.at \in 1..(Len(map) + 1)
         /\ Seen(JustImages, v) = Cat(Seen(JustImages, w), TakenTable(map)[slot])
<1> DEFINE K == JustImages
           v == Visit(w, map, slot)
<1>1. K \in FaceKinds /\ "page" \notin K
  BY DEF JustImages, FaceKinds
<1> HIDE DEF K
<1>2. Cat(Seen(K, w), <<>>) = Seen(K, w)
  BY <1>1, SeenType, ConcatEmptySeq DEF Cat
<1>3. Len(map) \in Nat /\ w.at \in Nat /\ 1 <= w.at
  BY LenProperties
<1>4. CASE slot.is = "gap"
  <2>1. slot.n \in Anchors /\ slot = GapSlot(slot.n)
    BY <1>4, SlotIs
  <2>2. /\ v \in Walks /\ v.at = w.at
        /\ GapLost(map, slot.n) => Seen(K, v) = Seen(K, w)
        /\ ~GapLost(map, slot.n) => Seen(K, v) = Cat(Seen(K, w), ItemsTable[slot])
    BY <1>1, <2>1, VisitGap
  <2> HIDE DEF v
  <2> QED
    BY <1>2, <1>4, <2>2 DEF TakenTable, v, K
<1>5. CASE slot.is = "page"
  <2> DEFINE n == slot.n
             at == PlacesIn(map, n)
             m == Min(at)
             u1 == DrawUntil(w, map, m)
             u2 == Flush(u1)
             u3 == DrawUntil(u2, map, m + 1)
  <2>1. slot = PageSlot(n) /\ TakenTable(map)[slot] = <<>>
    BY <1>5, SlotIs DEF TakenTable
  <2>2. v = IF at = {} \/ Min(at \cup {Len(map)}) < w.at THEN w ELSE u3
    BY <2>1, VisitPage
  <2>3. ASSUME at # {} PROVE u3 \in Walks /\ u3.at \in 1..(Len(map) + 1) /\ Seen(K, u3) = Seen(K, w)
    <3>1. m \in 1..Len(map) /\ m + 1 \in 1..(Len(map) + 1) /\ m \in 1..(Len(map) + 1)
      BY <2>3, PlacesAre
    <3> HIDE DEF m
    <3>2. u1 \in Walks /\ u1.at = (IF w.at < m THEN m ELSE w.at) /\ Seen(K, u1) = Seen(K, w)
      BY <1>1, <1>3, <3>1, DrawUntilSeen
    <3> HIDE DEF u1
    <3>3. u2 \in Walks /\ u2.at = u1.at /\ Seen(K, u2) = Seen(K, u1)
      BY <1>1, <3>2, FlushSeen
    <3>4. 1 <= u2.at /\ u2.at \in 1..(Len(map) + 1)
      BY <1>3, <3>1, <3>2, <3>3
    <3> HIDE DEF u2
    <3>5. u3 \in Walks /\ u3.at = (IF u2.at < m + 1 THEN m + 1 ELSE u2.at) /\ Seen(K, u3) = Seen(K, u2)
      BY <1>1, <3>1, <3>3, <3>4, DrawUntilSeen
    <3> HIDE DEF u3
    <3> QED
      BY <3>1, <3>2, <3>3, <3>4, <3>5
  <2> HIDE DEF v, u3
  <2> QED
    BY <1>2, <2>1, <2>2, <2>3 DEF v, K
<1> QED
  BY <1>4, <1>5, SlotIs

LEMMA ImagesWalked ==
  ASSUME RowsInv, NEW map \in Seq(Nat), NEW s \in Seq(Slot)
  PROVE  LET v == VisitAll(FirstWalk, map, s) IN
         /\ v \in Walks /\ v.at \in 1..(Len(map) + 1)
         /\ Seen(JustImages, v) = Joined(TakenTable(map), s)
<1> DEFINE F == TakenTable(map)
           K == JustImages
           Walked(r) == LET v == VisitAll(FirstWalk, map, r) IN
                        /\ v \in Walks /\ v.at \in 1..(Len(map) + 1)
                        /\ Seen(K, v) = Joined(F, r)
           S == {r \in Seq(Slot) : Walked(r)}
<1>1. Fills(F, Slot, Seq(Faces))
  BY TakenTableFills
<1>2. <<>> \in S
  <2>1. VisitAll(FirstWalk, map, <<>>) = FirstWalk
    BY VisitAllEmpty
  <2>2. K \in FaceKinds
    BY DEF JustImages, FaceKinds
  <2>3. FirstWalk \in Walks /\ FirstWalk.at = 1 /\ Seen(K, FirstWalk) = <<>>
    BY <2>2, FirstWalkIs
  <2>4. 1 \in 1..(Len(map) + 1) /\ <<>> \in Seq(Slot)
    BY LenProperties, EmptySeq
  <2> QED
    BY <2>1, <2>3, <2>4, MappedEmpty
<1>3. ASSUME NEW r \in S, NEW x \in Slot PROVE Append(r, x) \in S
  <2> DEFINE u == VisitAll(FirstWalk, map, r)
  <2>1. r \in Seq(Slot) /\ u \in Walks /\ u.at \in 1..(Len(map) + 1) /\ Seen(K, u) = Joined(F, r)
    OBVIOUS
  <2>2. VisitAll(FirstWalk, map, Append(r, x)) = Visit(u, map, x)
    BY <2>1, VisitAllAppend
  <2> HIDE DEF u, F
  <2>3. LET v == Visit(u, map, x) IN
        /\ v \in Walks /\ v.at \in 1..(Len(map) + 1) /\ Seen(K, v) = Cat(Seen(K, u), F[x])
    BY <2>1, VisitImages DEF F
  <2>4. Joined(F, Append(r, x)) = Cat(Joined(F, r), F[x])
    BY <1>1, <2>1, JoinedAppend
  <2>5. Append(r, x) \in Seq(Slot)
    BY <2>1, AppendProperties
  <2> QED
    BY <2>1, <2>2, <2>3, <2>4, <2>5
<1>4. S \in SUBSET Seq(Slot)
  OBVIOUS
<1> HIDE DEF S
<1>5. S = Seq(Slot)
  BY <1>2, <1>3, <1>4, SeqInductionOnSets
<1> QED
  BY <1>5 DEF S

-----------------------------------------------------------------------------
(* The members of a sequence that are in a set, and what a sequence of     *)
(* entries holds.                                                          *)

KeepTable(T, P) == [x \in T |-> IF x \in P THEN <<x>> ELSE <<>>]

LEMMA KeepTableFills ==
  ASSUME NEW T, NEW P
  PROVE  Fills(KeepTable(T, P), T, Seq(T))
<1>1. \A x \in T : <<x>> \in Seq(T) /\ <<>> \in Seq(T)
  BY EmptySeq
<1> QED
  BY <1>1 DEF KeepTable, Fills

LEMMA AmongIs ==
  ASSUME NEW T, NEW s \in Seq(T), NEW P
  PROVE  Among(s, P) = Joined(KeepTable(T, P), s)
<1>1. DOMAIN s = 1..Len(s) /\ \A i \in 1..Len(s) : s[i] \in T
  BY LenProperties, ElementOfSeq
<1>2. \A i \in DOMAIN s : KeepTable(T, P)[s[i]] = IF s[i] \in P THEN <<s[i]>> ELSE <<>>
  BY <1>1 DEF KeepTable
<1>3. [i \in DOMAIN s |-> IF s[i] \in P THEN <<s[i]>> ELSE <<>>] = Mapped(KeepTable(T, P), s)
  BY <1>2 DEF Mapped
<1> QED
  BY <1>3 DEF Among, Joined

LEMMA RangeAppend ==
  ASSUME NEW T, NEW s \in Seq(T), NEW x \in T
  PROVE  Range(Append(s, x)) = Range(s) \cup {x}
<1>1. Append(s, x) = s \o <<x>> /\ <<x>> \in Seq(T)
  BY AppendIsConcat
<1>2. Range(<<x>>) = {x}
  BY SortOne DEF InKeyOrder
<1>3. Range(s \o <<x>>) = Range(s) \cup Range(<<x>>)
  BY <1>1, RangeConcatenation
<1> QED
  BY <1>1, <1>2, <1>3

LEMMA RangeEmpty == Range(<<>>) = {}
BY SortEmpty DEF InKeyOrder

\* What is left of a sorted sequence is sorted.
LEMMA SortAmong ==
  ASSUME NEW S, NEW P, NEW key, NEW s, InKeyOrder(s, S, key)
  PROVE  InKeyOrder(Joined(KeepTable(S, P), s), S \cap P, key)
<1> DEFINE F == KeepTable(S, P)
           Rises(r) == \A i, j \in 1..Len(r) : i < j => key[r[i]] < key[r[j]]
           R == {r \in Seq(S) : Rises(r) => InKeyOrder(Joined(F, r), Range(r) \cap P, key)}
<1>1. Fills(F, S, Seq(S))
  BY KeepTableFills
<1>2. <<>> \in R
  <2>1. Joined(F, <<>>) = <<>> /\ Range(<<>>) \cap P = {}
    BY MappedEmpty, RangeEmpty
  <2> QED
    BY <2>1, EmptySeq, SortEmpty
<1>3. ASSUME NEW r \in R, NEW x \in S PROVE Append(r, x) \in R
  <2> DEFINE q == Append(r, x)
             n == Len(r)
  <2>1. /\ r \in Seq(S) /\ q \in Seq(S) /\ n \in Nat /\ Len(q) = n + 1
        /\ (\A i \in 1..n : q[i] = r[i]) /\ q[n + 1] = x
    BY AppendProperties, LenProperties
  <2>2. Range(q) = Range(r) \cup {x} /\ Range(r) = {r[i] : i \in 1..n}
    BY <2>1, RangeAppend, RangeEquality
  <2>3. Joined(F, q) = Cat(Joined(F, r), F[x])
    BY <1>1, <2>1, JoinedAppend
  <2> HIDE DEF q, n
  <2> SUFFICES ASSUME Rises(q) PROVE InKeyOrder(Joined(F, q), Range(q) \cap P, key)
    BY <2>1 DEF q
  <2>4. Rises(r)
    <3> SUFFICES ASSUME NEW i \in 1..n, NEW j \in 1..n, i < j PROVE key[r[i]] < key[r[j]]
      BY DEF n
    <3>1. i \in 1..Len(q) /\ j \in 1..Len(q) /\ q[i] = r[i] /\ q[j] = r[j]
      BY <2>1
    <3> QED
      BY <3>1
  <2>5. \A y \in Range(r) : key[y] < key[x]
    <3> SUFFICES ASSUME NEW i \in 1..n PROVE key[r[i]] < key[x]
      BY <2>2
    <3>1. i \in 1..Len(q) /\ n + 1 \in 1..Len(q) /\ i < n + 1 /\ q[i] = r[i] /\ q[n + 1] = x
      BY <2>1
    <3> QED
      BY <3>1
  <2>6. InKeyOrder(Joined(F, r), Range(r) \cap P, key)
    BY <2>4
  <2>7. CASE x \in P
    <3>1. F[x] = <<x>> /\ Range(q) \cap P = (Range(r) \cap P) \cup {x}
      BY <2>2, <2>7 DEF KeepTable
    <3>2. InKeyOrder(<<x>>, {x}, key)
      BY SortOne
    <3> DEFINE one == <<x>>
    <3> HIDE DEF one
    <3>3. InKeyOrder(Joined(F, r) \o one, (Range(r) \cap P) \cup {x}, key)
      BY <2>5, <2>6, <3>2, SortConcat DEF one
    <3> QED
      BY <2>3, <3>1, <3>3 DEF Cat, one
  <2>8. CASE x \notin P
    <3>1. F[x] = <<>> /\ Range(q) \cap P = Range(r) \cap P
      BY <2>2, <2>8 DEF KeepTable
    <3>2. Cat(Joined(F, r), <<>>) = Joined(F, r)
      BY <1>1, <2>1, JoinedType, ConcatEmptySeq DEF Cat
    <3> QED
      BY <2>3, <2>6, <3>1, <3>2
  <2> QED
    BY <2>7, <2>8
<1>4. R \in SUBSET Seq(S)
  OBVIOUS
<1> HIDE DEF R
<1>5. R = Seq(S)
  BY <1>2, <1>3, <1>4, SeqInductionOnSets
<1>6. s \in R /\ Range(s) = S /\ Rises(s)
  BY <1>5 DEF InKeyOrder
<1> QED
  BY <1>6 DEF R

LEMMA RangeFaces ==
  ASSUME NEW K \in FaceKinds, NEW out \in Seq(Entries)
  PROVE  Range(FacesIn(K, out)) = {Face(e) : e \in {d \in Range(out) : d.is \in K}}
<1> DEFINE Held(r) == {Face(e) : e \in {d \in Range(r) : d.is \in K}}
           S == {r \in Seq(Entries) : Range(FacesIn(K, r)) = Held(r)}
<1>1. <<>> \in S
  BY MappedEmpty, RangeEmpty, EmptySeq DEF FacesIn
<1>2. ASSUME NEW r \in S, NEW e \in Entries PROVE Append(r, e) \in S
  <2>1. r \in Seq(Entries) /\ Range(FacesIn(K, r)) = Held(r)
    OBVIOUS
  <2>2. Append(r, e) \in Seq(Entries)
        /\ FacesIn(K, Append(r, e))
             = IF e.is \in K THEN Cat(FacesIn(K, r), <<Face(e)>>) ELSE FacesIn(K, r)
    BY <2>1, FacesAppend
  <2>3. Range(Append(r, e)) = Range(r) \cup {e}
    BY <2>1, RangeAppend
  <2>4. CASE e.is \in K
    <3>1. FacesIn(K, r) \in Seq(Faces)
      BY <2>1, FaceTablesFill, JoinedType DEF FacesIn
    <3>2. Face(e) \in Faces
      <4>1. e.is \in {"page", "insert"} /\ e.n \in Nat
        BY <2>4 DEF FaceKinds, Entries
      <4> QED
        BY <4>1 DEF Face, Faces
    <3> DEFINE x == Face(e)
               f == FacesIn(K, r)
    <3> HIDE DEF x, f
    <3>3. Append(f, x) = Cat(f, <<x>>) /\ Range(Append(f, x)) = Range(f) \cup {x}
      BY <3>1, <3>2, AppendIsConcat, RangeAppend DEF f, x, Cat
    <3>4. Range(FacesIn(K, Append(r, e))) = Held(r) \cup {Face(e)}
      BY <2>1, <2>2, <2>4, <3>3 DEF f, x
    <3>5. Held(Append(r, e)) = Held(r) \cup {Face(e)}
      BY <2>3, <2>4
    <3> QED
      BY <2>2, <3>4, <3>5
  <2>5. CASE e.is \notin K
    <3>1. Held(Append(r, e)) = Held(r)
      BY <2>3, <2>5
    <3> QED
      BY <2>1, <2>2, <2>5, <3>1
  <2> QED
    BY <2>4, <2>5
<1>3. S \in SUBSET Seq(Entries)
  OBVIOUS
<1> HIDE DEF S
<1>4. S = Seq(Entries)
  BY <1>1, <1>2, <1>3, SeqInductionOnSets
<1> QED
  BY <1>4 DEF S

\* The entries of some kinds are as many as their faces.
LEMMA AmongFaces ==
  ASSUME NEW K \in FaceKinds, NEW out \in Seq(Entries), NEW P,
         \A e \in Range(out) : e \in P <=> e.is \in K
  PROVE  LET kept == Among(out, P) IN
         /\ kept \in Seq(Entries) /\ Len(kept) = Len(FacesIn(K, out))
         /\ [i \in DOMAIN kept |-> Face(kept[i])] = FacesIn(K, out)
<1> DEFINE Q == {e \in Entries : e.is \in K}
           F == KeepTable(Entries, Q)
           G == [e \in Entries |-> [is |-> e.is, n |-> e.n]]
           kept == Among(out, P)
           W == [is : {"page", "insert", "missing"}, n : Nat]
<1>1. kept = Joined(F, out)
  <2>1. \A i \in DOMAIN out : out[i] \in P <=> out[i] \in Q
    <3>1. \A i \in DOMAIN out : out[i] \in Range(out) /\ out[i] \in Entries
      BY LenProperties, ElementOfSeq DEF Range
    <3> QED
      BY <3>1
  <2>2. Among(out, P) = Among(out, Q)
    BY <2>1 DEF Among
  <2> QED
    BY <2>2, AmongIs
<1>2. Fills(F, Entries, Seq(Entries)) /\ Fills(G, Entries, W) /\ Fills(FaceTable(K), Entries, Seq(W))
  <2>1. \A e \in Entries : [is |-> e.is, n |-> e.n] \in W
    BY DEF Entries
  <2>2. \A e \in Entries : (IF e.is \in K THEN <<Face(e)>> ELSE <<>>) \in Seq(W)
    <3> TAKE e \in Entries
    <3> DEFINE x == Face(e)
    <3>1. x \in W
      BY <2>1 DEF Face
    <3> HIDE DEF x, W
    <3>2. <<x>> \in Seq(W) /\ <<>> \in Seq(W)
      BY <3>1, EmptySeq
    <3> QED
      BY <3>2 DEF x
  <2> QED
    BY <2>1, <2>2, KeepTableFills DEF Fills, FaceTable
<1>3. \A e \in Entries : Mapped(G, F[e]) = FaceTable(K)[e]
  <2> TAKE e \in Entries
  <2>1. CASE e.is \in K
    <3>1. F[e] = <<e>> /\ FaceTable(K)[e] = <<Face(e)>> /\ G[e] = Face(e)
      BY <2>1 DEF KeepTable, FaceTable, Face
    <3> HIDE DEF F, G
    <3>2. Mapped(G, <<e>>) = <<G[e]>>
      BY <1>2, MappedOne
    <3> QED
      BY <3>1, <3>2
  <2>2. CASE e.is \notin K
    <3>1. F[e] = <<>> /\ FaceTable(K)[e] = <<>>
      BY <2>2 DEF KeepTable, FaceTable
    <3> HIDE DEF F, G
    <3> QED
      BY <3>1, MappedEmpty
  <2> QED
    BY <2>1, <2>2
<1> DEFINE H == FaceTable(K)
<1> HIDE DEF F, kept, H, W
<1>4. kept \in Seq(Entries)
  BY <1>1, <1>2, JoinedType
<1>5. Mapped(G, Joined(F, out)) = Joined(H, out)
  <2> HIDE DEF G
  <2> QED
    BY <1>2, <1>3, MappedJoined DEF H
<1>6. Mapped(G, kept) = FacesIn(K, out)
  BY <1>1, <1>5 DEF FacesIn, H
<1>7. Len(Mapped(G, kept)) = Len(kept)
  <2> HIDE DEF G
  <2> QED
    BY <1>2, <1>4, MappedType DEF IsMapped
<1>8. \A i \in DOMAIN kept : kept[i] \in Entries /\ G[kept[i]] = Face(kept[i])
  <2>1. \A i \in DOMAIN kept : kept[i] \in Entries
    BY <1>4, LenProperties, ElementOfSeq
  <2> QED
    BY <2>1 DEF Face
<1>9. Mapped(G, kept) = [i \in DOMAIN kept |-> Face(kept[i])]
  <2> HIDE DEF G
  <2> QED
    BY <1>8 DEF Mapped
<1> QED
  BY <1>4, <1>6, <1>7, <1>9 DEF kept

-----------------------------------------------------------------------------
(* What the viewer draws: the walk, and the images the walk has not drawn. *)

SlotsOver(map) == SlotOrder(Max(Range(map) \cup {0}), {})
DrawnOver(map) ==
  Flush(DrawUntil(VisitAll(FirstWalk, map, SlotsOver(map)), map, Len(map) + 1)).out
PlacedIn(out) == {e.n : e \in {d \in Range(out) : d.is = "insert"}}
Unplaced(out) == Ascending(Standing("insert") \ PlacedIn(out))
WithTheRest(out) == Cat(out, Mapped(EntryOf, Unplaced(out)))

LEMMA StandingFinite ==
  ASSUME RowsInv
  PROVE  IsFiniteSet(Standing("insert")) /\ Standing("insert") \in SUBSET Nat
<1>1. Standing("insert") \subseteq Pks /\ Standing("insert") \in SUBSET (0..MaxRows)
  BY RowFacts DEF Pks
<1> QED
  BY <1>1, SubsetOfInterval, PageEditsAssumption

LEMMA UnplacedSorted ==
  ASSUME RowsInv, NEW out
  PROVE  /\ InKeyOrder(Unplaced(out), Standing("insert") \ PlacedIn(out), Count)
         /\ Unplaced(out) \in Seq(Nat)
<1> DEFINE S == Standing("insert") \ PlacedIn(out)
<1>1. S \in SUBSET Nat /\ IsFiniteSet(S)
  BY StandingFinite, FS_Subset
<1> HIDE DEF S
<1>2. InKeyOrder(Ascending(S), S, Count)
  BY <1>1, AscendingSorts
<1>3. Ascending(S) \in Seq(Nat)
  BY <1>1, <1>2, SeqMonotonic DEF InKeyOrder
<1> QED
  BY <1>2, <1>3 DEF S, Unplaced

LEMMA ProjectInsertsIs ==
  ASSUME RowsInv, NEW map
  PROVE  ProjectInserts(map) = WithTheRest(DrawnOver(map))
<1> DEFINE out == DrawnOver(map)
           u == Unplaced(out)
<1>1. ProjectInserts(map) = out \o [i \in DOMAIN u |-> Image(u[i])]
  BY DEF ProjectInserts, DrawnOver, SlotsOver, VisitAll, FirstWalk, Unplaced, PlacedIn
<1>2. u \in Seq(Nat)
  BY UnplacedSorted
<1> HIDE DEF out, u
<1>3. \A i \in DOMAIN u : Image(u[i]) = EntryOf[u[i]]
  <2>1. \A i \in DOMAIN u : u[i] \in Nat
    BY <1>2, LenProperties, ElementOfSeq
  <2> QED
    BY <2>1 DEF EntryOf
<1>4. [i \in DOMAIN u |-> Image(u[i])] = Mapped(EntryOf, u)
  BY <1>3 DEF Mapped
<1> QED
  BY <1>1, <1>4 DEF WithTheRest, Cat, out, u

\* As many images as numbers.
LEMMA ImagesCounted ==
  ASSUME NEW P \in SUBSET Nat, IsFiniteSet(P)
  PROVE  /\ IsFiniteSet({ImageItem(pk) : pk \in P})
         /\ Cardinality({ImageItem(pk) : pk \in P}) = Cardinality(P)
<1> DEFINE D == {ImageItem(pk) : pk \in P}
           F == [pk \in P |-> ImageItem(pk)]
           G == [x \in D |-> x.n]
           s == Ascending(P)
<1>1. InKeyOrder(s, P, Count) /\ IsKey(Count, P)
  BY AscendingSorts, CountIsKey
<1>2. Fills(F, P, D)
  BY DEF Fills
<1>3. \A pk \in P : G[F[pk]] = pk /\ F[pk] = ImageItem(pk) /\ pk \in Nat
  BY DEF ImageItem
<1>4. \A y \in D : \E x \in P : F[x] = y
  BY <1>3
<1>5. \A x, y \in P : Count[x] < Count[y] => G[F[x]] < G[F[y]]
  BY <1>3 DEF Count
<1>6. IsKey(G, D)
  <2>1. \A y \in D : \E pk \in P : y = ImageItem(pk) /\ G[y] = pk /\ G[y] \in Nat
    <3> SUFFICES ASSUME NEW pk \in P PROVE G[ImageItem(pk)] = pk /\ pk \in Nat
      OBVIOUS
    <3> QED
      BY <1>3
  <2> HIDE DEF D, G
  <2> QED
    BY <2>1 DEF IsKey
<1> HIDE DEF D, F, G, s
<1>7. InKeyOrder(Mapped(F, s), D, G)
  BY <1>1, <1>2, <1>4, <1>5, SortMapped
<1>8. IsFiniteSet(D) /\ Len(Mapped(F, s)) = Cardinality(D)
  BY <1>6, <1>7, SortLen
<1>9. Len(s) = Cardinality(P)
  BY <1>1, SortLen
<1>10. Len(Mapped(F, s)) = Len(s)
  <2>1. s \in Seq(P)
    BY <1>1 DEF InKeyOrder
  <2> QED
    BY <1>2, <2>1, MappedType DEF IsMapped
<1> QED
  BY <1>8, <1>9, <1>10 DEF D

\* With the rest of the images every image is drawn, and drawn once.
LEMMA EveryImageOnce ==
  ASSUME RowsInv, NEW out \in Seq(Entries), NEW D \in SUBSET AllImages,
         InKeyOrder(FacesIn(JustImages, out), D, PlaceTable)
  PROVE  LET res == WithTheRest(out) IN
         /\ {e.n : e \in ImagesIn(res)} = Standing("insert")
         /\ Len(Among(res, ImagesIn(res))) = Cardinality(Standing("insert"))
<1> DEFINE K == JustImages
           P == PlacedIn(out)
           St == Standing("insert")
           u == Unplaced(out)
           v == Mapped(EntryOf, u)
           res == Cat(out, v)
<1>1. K \in FaceKinds /\ \A x : x \in K <=> x = "insert"
  BY DEF JustImages, FaceKinds
<1> HIDE DEF K
<1>2. Range(FacesIn(K, out)) = D
  BY DEF InKeyOrder, K
<1>3. D = {ImageItem(pk) : pk \in P} /\ P \in SUBSET St
  <2>1. D = {Face(e) : e \in {d \in Range(out) : d.is = "insert"}}
    BY <1>1, <1>2, RangeFaces
  <2>2. \A e \in Range(out) : e.is = "insert" => Face(e) = ImageItem(e.n)
    BY DEF Face, ImageItem
  <2>3. D = {ImageItem(pk) : pk \in P}
    BY <2>1, <2>2 DEF PlacedIn
  <2>4. \A pk : ImageItem(pk) \in AllImages => pk \in St
    BY DEF ImageItem, AllImages
  <2> QED
    BY <2>3, <2>4
<1>4. InKeyOrder(u, St \ P, Count) /\ u \in Seq(Nat)
  BY UnplacedSorted
<1> HIDE DEF u
<1>5. v \in Seq(Entries) /\ FacesIn(K, v) = Queued(u)
  BY <1>1, <1>4, FacesOfImages
<1>6. St \in SUBSET Nat /\ IsFiniteSet(St)
  BY StandingFinite
<1>7. Range(v) = {Image(pk) : pk \in St \ P}
  <2>1. Range(u) = St \ P
    BY <1>4 DEF InKeyOrder
  <2>2. DOMAIN v = DOMAIN u /\ \A i \in DOMAIN u : v[i] = Image(u[i])
    <3>1. \A i \in DOMAIN u : u[i] \in Nat
      BY <1>4, LenProperties, ElementOfSeq
    <3> QED
      BY <3>1 DEF Mapped, EntryOf
  <2> QED
    BY <2>1, <2>2 DEF Range
<1> HIDE DEF v
<1>8. res \in Seq(Entries) /\ Range(res) = Range(out) \cup Range(v)
  BY <1>5, CatIs, RangeConcatenation DEF Cat
<1>9. FacesIn(K, res) = Cat(FacesIn(K, out), Queued(u))
  BY <1>1, <1>5, FacesConcat
<1> HIDE DEF res
<1>10. ImagesIn(res) = {d \in Range(out) : d.is = "insert"} \cup Range(v)
  <2>1. \A e \in Range(v) : e.is = "insert"
    BY <1>7 DEF Image, Shown
  <2> QED
    BY <1>8, <2>1 DEF ImagesIn
<1>11. {e.n : e \in ImagesIn(res)} = St
  <2>1. {e.n : e \in Range(v)} = St \ P
    <3>1. \A pk : Image(pk).n = pk
      BY DEF Image, Shown
    <3> QED
      BY <1>7, <3>1
  <2>2. {e.n : e \in ImagesIn(res)} = P \cup {e.n : e \in Range(v)}
    BY <1>10 DEF PlacedIn
  <2> QED
    BY <1>3, <2>1, <2>2
<1>12. Len(Among(res, ImagesIn(res))) = Len(FacesIn(K, res))
  <2>1. \A e \in Range(res) : e \in ImagesIn(res) <=> e.is \in K
    BY <1>1 DEF ImagesIn
  <2> QED
    BY <1>1, <1>8, <2>1, AmongFaces
<1>13. Len(FacesIn(K, res)) = Cardinality(P) + Cardinality(St \ P)
  <2> DEFINE q == FacesIn(K, out)
             r == Queued(u)
  <2>1. q \in Seq(Faces)
    BY <1>1, FaceTablesFill, JoinedType DEF FacesIn
  <2>2. r \in Seq(Faces) /\ Len(r) = Len(u)
    <3>1. Fills(ImageFace, Nat, Faces)
      BY <1>1, FaceTablesFill
    <3> QED
      BY <1>4, <3>1, MappedType DEF Queued, IsMapped
  <2>3. IsKey(PlaceTable, D)
    <3>1. D \subseteq Items
      BY DEF Items
    <3> QED
      BY <3>1, PlaceIsKey DEF IsKey
  <2>4. InKeyOrder(q, D, PlaceTable)
    BY DEF K
  <2>5. Len(q) = Cardinality(P)
    <3>1. Len(q) = Cardinality(D)
      <4> HIDE DEF q
      <4> QED
        BY <2>3, <2>4, SortLen
    <3>2. P \in SUBSET Nat /\ IsFiniteSet(P)
      BY <1>3, <1>6, FS_Subset
    <3> QED
      BY <1>3, <3>1, <3>2, ImagesCounted
  <2>6. Len(u) = Cardinality(St \ P)
    <3>1. St \ P \in SUBSET Nat
      BY <1>6
    <3> QED
      BY <1>4, <3>1, CountIsKey, SortLen
  <2> HIDE DEF q, r
  <2>7. Len(Cat(q, r)) = Len(q) + Len(r)
    BY <2>1, <2>2, CatIs DEF IsCat
  <2> QED
    BY <1>9, <2>2, <2>5, <2>6, <2>7 DEF q, r
<1>14. Cardinality(P) + Cardinality(St \ P) = Cardinality(St)
  <2>1. St \cap P = P /\ IsFiniteSet(P) /\ IsFiniteSet(St \ P)
    BY <1>3, <1>6, FS_Subset
  <2>2. Cardinality(St \ P) = Cardinality(St) - Cardinality(St \cap P)
    BY <1>6, FS_Difference
  <2>3. Cardinality(P) \in Nat /\ Cardinality(St) \in Nat
    BY <1>6, <2>1, FS_CardinalityType
  <2>4. Cardinality(St \cap P) = Cardinality(P)
    BY <2>1
  <2> HIDE DEF St, P
  <2> QED
    BY <2>2, <2>3, <2>4
<1> QED
  BY <1>11, <1>12, <1>13, <1>14 DEF res, v, u, WithTheRest

-----------------------------------------------------------------------------
(* The slots of a shorter volume: the gaps past its end come last.         *)

PastAnchors(c) == {a \in Range(Moves) : a > c}
Past(c)        == Ascending(PastAnchors(c))
GapTable       == [a \in Anchors |-> Gap(a)]

LEMMA GapTableFills == RowsInv => Fills(GapTable, Anchors, Seq(Slot))
BY GapType DEF GapTable, Fills

LEMMA PastSorted ==
  ASSUME RowsInv, NEW c
  PROVE  /\ PastAnchors(c) \subseteq Anchors /\ InKeyOrder(Past(c), PastAnchors(c), Count)
         /\ Past(c) \in Seq(Anchors) /\ IsKey(Count, PastAnchors(c))
<1>1. PastAnchors(c) \subseteq Anchors
  BY MovesType DEF Range, PastAnchors
<1>2. Anchors = 0..PageCount /\ PageCount \in Nat /\ Anchors \subseteq Nat
  BY PageEditsAssumption DEF Anchors
<1>3. IsFiniteSet(PastAnchors(c)) /\ PastAnchors(c) \in SUBSET Nat
  BY <1>1, <1>2, SubsetOfInterval
<1>4. InKeyOrder(Past(c), PastAnchors(c), Count)
  BY <1>3, AscendingSorts DEF Past
<1> QED
  BY <1>1, <1>3, <1>4, SeqMonotonic, CountIsKey DEF InKeyOrder

LEMMA SlotOrderIs ==
  ASSUME RowsInv, NEW c \in 0..PageCount
  PROVE  /\ SlotOrder(c, {}) = Cat(Upto(c), Joined(GapTable, Past(c)))
         /\ Upto(c) \in Seq(Slot) /\ Joined(GapTable, Past(c)) \in Seq(Slot)
         /\ SlotOrder(c, {}) \in Seq(Slot)
<1> DEFINE past == Past(c)
<1>1. past \in Seq(Anchors)
  BY PastSorted
<1>2. {a \in Range(Moves) \cup {} : a > c} = PastAnchors(c)
  BY DEF PastAnchors
<1>3. SlotOrder(c, {})
        = Gap(0) \o FlattenSeq([p \in 1..c |-> Block(p)])
          \o FlattenSeq([i \in DOMAIN past |-> Gap(past[i])])
  BY <1>2 DEF SlotOrder, Block, Past
<1> HIDE DEF past
<1>4. [i \in DOMAIN past |-> Gap(past[i])] = Mapped(GapTable, past)
  <2>1. \A i \in DOMAIN past : past[i] \in Anchors
    BY <1>1, LenProperties, ElementOfSeq
  <2>2. \A i \in DOMAIN past : GapTable[past[i]] = Gap(past[i])
    BY <2>1 DEF GapTable
  <2> QED
    BY <2>2 DEF Mapped
<1>5. SlotOrder(c, {}) = Cat(Upto(c), Joined(GapTable, past))
  BY <1>3, <1>4 DEF Upto, Cat, Joined
<1>6. Upto(c) \in Seq(Slot)
  BY UptoType
<1>7. Joined(GapTable, past) \in Seq(Slot)
  BY <1>1, GapTableFills, JoinedType
<1>8. Cat(Upto(c), Joined(GapTable, past)) \in Seq(Slot)
  BY <1>6, <1>7, CatIs
<1> QED
  BY <1>5, <1>6, <1>7, <1>8 DEF past

\* The places of a volume that has lost its last page, or another, are in order.
LEMMA ShorterSorted ==
  ASSUME RowsInv, NEW c \in {PageCount - 1, PageCount}
  PROVE  /\ c \in 0..PageCount
         /\ \E S \in SUBSET Items : InKeyOrder(ItemsAlong(SlotOrder(c, {})), S, PlaceTable)
<1>1. PageCount \in Nat \ {0} /\ c \in 0..PageCount /\ c \in Nat
  BY PageEditsAssumption
<1> DEFINE q == Upto(c)
           r == Joined(GapTable, Past(c))
           X == Ranked(0, c * 3 + 3)
<1>2. SlotOrder(c, {}) = Cat(q, r) /\ q \in Seq(Slot) /\ r \in Seq(Slot)
  BY <1>1, SlotOrderIs
<1>3. InKeyOrder(ItemsAlong(q), X, PlaceTable)
  BY <1>1, ItemsUpto
<1>4. PastAnchors(c) \in SUBSET {PageCount}
  <2>1. PastAnchors(c) \subseteq Anchors
    BY PastSorted
  <2>2. \A a \in Anchors : a > c => a = PageCount
    BY <1>1 DEF Anchors
  <2> QED
    BY <2>1, <2>2 DEF PastAnchors
<1>5. X \in SUBSET Items
  BY DEF Ranked
<1>6. CASE PastAnchors(c) = {}
  <2>1. Past(c) = <<>>
    <3>1. InKeyOrder(Past(c), {}, Count) /\ IsKey(Count, {})
      BY <1>6, PastSorted
    <3>2. InKeyOrder(<<>>, {}, Count)
      BY SortEmpty
    <3> QED
      BY <3>1, <3>2, SortUnique
  <2>2. r = <<>>
    BY <2>1, MappedEmpty
  <2>3. Cat(q, <<>>) = q
    BY <1>2, ConcatEmptySeq DEF Cat
  <2> QED
    BY <1>1, <1>2, <1>3, <1>5, <2>2, <2>3
<1>7. CASE PastAnchors(c) # {}
  <2> DEFINE g == Gap(PageCount)
             Y == Ranked(PageCount * 3 + 1, PageCount * 3 + 3)
  <2>1. PastAnchors(c) = {PageCount} /\ PageCount > c /\ PageCount \in Anchors
    <3>1. PastAnchors(c) = {PageCount}
      BY <1>4, <1>7
    <3> QED
      BY <1>1, <3>1 DEF PastAnchors, Anchors
  <2>2. Past(c) = <<PageCount>>
    <3> DEFINE one == <<PageCount>>
               S == {PageCount}
    <3>1. InKeyOrder(Past(c), S, Count) /\ IsKey(Count, S)
      BY <2>1, PastSorted
    <3>2. InKeyOrder(one, S, Count)
      BY SortOne
    <3> HIDE DEF one, S
    <3>3. Past(c) = one
      BY <3>1, <3>2, SortUnique
    <3> QED
      BY <3>3 DEF one
  <2>3. r = g
    <3>1. Joined(GapTable, <<PageCount>>) = GapTable[PageCount]
      BY <2>1, GapTableFills, JoinedOne
    <3> QED
      BY <2>1, <2>2, <3>1 DEF GapTable
  <2>4. InKeyOrder(ItemsAlong(g), Y, PlaceTable) /\ g \in Seq(Slot)
    BY <2>1, ItemsGap, GapType
  <2>5. \A x \in X, y \in Y : PlaceTable[x] < PlaceTable[y]
    <3> TAKE x \in X, y \in Y
    <3>1. x \in Items /\ y \in Items /\ Rank(x) < c * 3 + 3 /\ PageCount * 3 + 1 <= Rank(y)
      BY DEF Ranked
    <3>2. Rank(x) \in Nat /\ Rank(y) \in Nat
      BY <3>1, ItemIs
    <3>3. c + 1 = PageCount
      BY <1>1, <2>1
    <3>4. Rank(x) < Rank(y)
      BY <1>1, <3>1, <3>2, <3>3
    <3> QED
      BY <3>1, <3>4, PlaceByRank
  <2> HIDE DEF q, r, g, X, Y
  <2>6. InKeyOrder(ItemsAlong(q) \o ItemsAlong(g), X \cup Y, PlaceTable)
    BY <1>3, <2>4, <2>5, SortConcat
  <2>7. ItemsAlong(q \o g) = ItemsAlong(q) \o ItemsAlong(g)
    BY <1>2, <2>4, ItemsAlongConcat
  <2>8. ItemsAlong(SlotOrder(c, {})) = ItemsAlong(q \o g)
    BY <1>2, <2>3 DEF Cat
  <2>9. X \cup Y \in SUBSET Items
    BY DEF X, Y, Ranked
  <2> QED
    BY <1>1, <2>6, <2>7, <2>8, <2>9
<1> QED
  BY <1>6, <1>7

-----------------------------------------------------------------------------
(* The maps the viewer may be given.                                       *)

LEMMA RangeKept ==
  ASSUME NEW T, NEW P, NEW s \in Seq(T)
  PROVE  /\ Joined(KeepTable(T, P), s) \in Seq(T)
         /\ Range(Joined(KeepTable(T, P), s)) = Range(s) \cap P
<1> DEFINE F == KeepTable(T, P)
           S == {r \in Seq(T) : Range(Joined(F, r)) = Range(r) \cap P}
<1>1. Fills(F, T, Seq(T))
  BY KeepTableFills
<1>2. <<>> \in S
  BY EmptySeq, MappedEmpty, RangeEmpty
<1>3. ASSUME NEW r \in S, NEW x \in T PROVE Append(r, x) \in S
  <2>1. r \in Seq(T) /\ Range(Joined(F, r)) = Range(r) \cap P
    OBVIOUS
  <2>2. Joined(F, Append(r, x)) = Cat(Joined(F, r), F[x]) /\ Joined(F, r) \in Seq(T)
    BY <1>1, <2>1, JoinedAppend, JoinedType
  <2>3. Range(Append(r, x)) = Range(r) \cup {x} /\ Append(r, x) \in Seq(T)
    BY <2>1, RangeAppend, AppendProperties
  <2>4. Range(Cat(Joined(F, r), F[x])) = Range(Joined(F, r)) \cup Range(F[x])
    BY <1>1, <2>2, RangeConcatenation DEF Cat, Fills
  <2>5. Range(F[x]) = {x} \cap P
    <3>1. CASE x \in P
      <4>1. F[x] = <<x>>
        BY <3>1 DEF KeepTable
      <4>2. Range(<<x>>) = {x}
        BY SortOne DEF InKeyOrder
      <4> QED
        BY <3>1, <4>1, <4>2
    <3>2. CASE x \notin P
      BY <3>2, RangeEmpty DEF KeepTable
    <3> QED
      BY <3>1, <3>2
  <2> QED
    BY <2>1, <2>2, <2>3, <2>4, <2>5
<1>4. S \in SUBSET Seq(T)
  OBVIOUS
<1> HIDE DEF S
<1>5. S = Seq(T)
  BY <1>2, <1>3, <1>4, SeqInductionOnSets
<1> QED
  BY <1>1, <1>5, JoinedType DEF S

PageSlots(read) == {PageSlot(p) : p \in read}
NumberOf        == [slot \in Slot |-> slot.n]

\* The slots of the pages that were read, in order.
HeldSlots(read) ==
  Joined(KeepTable(Slot, PageSlots(read)), SlotOrder(IF read = {} THEN 0 ELSE Max(read), {}))

LEMMA LastOf ==
  ASSUME NEW read \in SUBSET Pages
  PROVE  (IF read = {} THEN 0 ELSE Max(read)) \in 0..PageCount
<1>1. PageCount \in Nat /\ read \in SUBSET (0..PageCount)
  BY PageEditsAssumption DEF Pages
<1>2. CASE read = {}
  BY <1>1, <1>2
<1>3. CASE read # {}
  <2>1. Max(read) \in read
    BY <1>1, <1>3, GreatestNumber
  <2> QED
    BY <1>1, <1>3, <2>1
<1> QED
  BY <1>2, <1>3

LEMMA PagesInOrderIs ==
  ASSUME RowsInv, NEW read \in SUBSET Pages
  PROVE  LET held == HeldSlots(read) IN
         /\ held \in Seq(Slot) /\ Range(held) \subseteq PageSlots(read)
         /\ PagesInOrder(read)
              = Cat(Mapped(NumberOf, held), Ascending(read \ {slot.n : slot \in Range(held)}))
<1> DEFINE slots == SlotOrder(IF read = {} THEN 0 ELSE Max(read), {})
           held == HeldSlots(read)
<1>1. slots \in Seq(Slot)
  BY LastOf, SlotOrderIs
<1> HIDE DEF slots
<1>2. held = Among(slots, PageSlots(read)) /\ held \in Seq(Slot) /\ Range(held) \subseteq PageSlots(read)
  BY <1>1, AmongIs, RangeKept DEF HeldSlots, slots
<1>3. PagesInOrder(read)
        = [i \in DOMAIN held |-> held[i].n] \o Ascending(read \ {slot.n : slot \in Range(held)})
  BY <1>2 DEF PagesInOrder, PageSlots, slots
<1> HIDE DEF held
<1>4. [i \in DOMAIN held |-> held[i].n] = Mapped(NumberOf, held)
  <2>1. \A i \in DOMAIN held : held[i] \in Slot
    BY <1>2, LenProperties, ElementOfSeq
  <2>2. \A i \in DOMAIN held : NumberOf[held[i]] = held[i].n
    BY <2>1 DEF NumberOf
  <2> QED
    BY <2>2 DEF Mapped
<1> QED
  BY <1>2, <1>3, <1>4 DEF held, Cat

LEMMA OrderOfPages ==
  ASSUME RowsInv, NEW read \in SUBSET Pages
  PROVE  PagesInOrder(read) \in Seq(Nat) /\ Range(PagesInOrder(read)) = read
<1> DEFINE held == HeldSlots(read)
           N == {slot.n : slot \in Range(held)}
           a == Mapped(NumberOf, held)
           b == Ascending(read \ N)
<1>1. /\ held \in Seq(Slot) /\ Range(held) \subseteq PageSlots(read)
      /\ PagesInOrder(read) = Cat(a, b)
  BY PagesInOrderIs
<1> HIDE DEF held
<1>2. N \subseteq read
  BY <1>1 DEF PageSlots, PageSlot
<1>3. PageCount \in Nat /\ read \in SUBSET (0..PageCount) /\ read \in SUBSET Nat
  BY PageEditsAssumption DEF Pages
<1>4. b \in Seq(Nat) /\ Range(b) = read \ N
  <2> DEFINE R == read \ N
  <2>1. R \in SUBSET Nat /\ IsFiniteSet(R)
    BY <1>3, SubsetOfInterval
  <2> HIDE DEF R
  <2>2. InKeyOrder(Ascending(R), R, Count)
    BY <2>1, AscendingSorts
  <2>3. Ascending(R) \in Seq(Nat) /\ Range(Ascending(R)) = R
    BY <2>1, <2>2, SeqMonotonic DEF InKeyOrder
  <2> QED
    BY <2>3 DEF R
<1>5. a \in Seq(Nat) /\ Range(a) = N
  <2>1. Fills(NumberOf, Slot, Nat)
    <3>1. Pages \subseteq Nat /\ Anchors \subseteq Nat
      BY PageEditsAssumption DEF Pages, Anchors
    <3> QED
      BY <3>1, SlotIs DEF NumberOf, Fills
  <2>2. DOMAIN a = DOMAIN held /\ \A i \in DOMAIN held : a[i] = held[i].n
    <3>1. \A i \in DOMAIN held : held[i] \in Slot
      BY <1>1, LenProperties, ElementOfSeq
    <3> QED
      BY <3>1 DEF Mapped, NumberOf
  <2>3. Range(a) = N
    BY <2>2 DEF Range
  <2> QED
    BY <1>1, <2>1, <2>3, MappedType
<1> HIDE DEF a, b, N
<1>6. Cat(a, b) \in Seq(Nat) /\ Range(Cat(a, b)) = N \cup (read \ N)
  BY <1>4, <1>5, CatIs, RangeConcatenation DEF Cat
<1> QED
  BY <1>1, <1>2, <1>6

\* One more member, at an index.
LEMMA InsertAtIs ==
  ASSUME NEW s \in Seq(Nat), NEW x \in Nat, NEW j \in 1..(Len(s) + 1)
  PROVE  LET r == InsertAt(s, j, x) IN
         /\ r \in Seq(Nat) /\ Len(r) = Len(s) + 1
         /\ \A i \in 1..(Len(s) + 1) :
              r[i] = IF i < j THEN s[i] ELSE IF i = j THEN x ELSE s[i - 1]
<1> DEFINE T == Nat
           n == Len(s)
           a == SubSeq(s, 1, j - 1)
           b == <<x>>
           c == SubSeq(s, j, n)
           d == Cat(a, b)
           r == Cat(d, c)
<1>1. n \in Nat /\ j \in Nat /\ 1 <= j /\ j <= n + 1 /\ j - 1 \in Int
  BY LenProperties
<1>2. InsertAt(s, j, x) = r
  BY DEF InsertAt, Cat
<1>3. s \in Seq(T) /\ \A i \in 1..n : s[i] \in T
  BY LenProperties, ElementOfSeq
<1>4. b \in Seq(T) /\ Len(b) = 1 /\ b[1] = x
  OBVIOUS
<1> HIDE DEF T, b
<1>5. /\ a \in Seq(T) /\ Len(a) = j - 1 /\ \A i \in 1..(j - 1) : a[i] = s[i]
  <2>1. \A i \in 1..(j - 1) : s[i] \in T
    BY <1>1, <1>3
  <2>2. /\ a \in Seq(T) /\ Len(a) = (IF 1 <= j - 1 THEN j - 1 - 1 + 1 ELSE 0)
        /\ \A i \in 1..(j - 1 - 1 + 1) : a[i] = s[1 + i - 1]
    BY <1>1, <2>1, SubSeqProperties
  <2>3. j - 1 - 1 + 1 = j - 1 /\ \A i \in 1..(j - 1) : 1 + i - 1 = i
    BY <1>1
  <2> HIDE DEF a
  <2> QED
    BY <1>1, <2>2, <2>3
<1>6. /\ c \in Seq(T) /\ Len(c) = n - j + 1 /\ \A i \in 1..(n - j + 1) : c[i] = s[j + i - 1]
  <2>1. \A i \in j..n : s[i] \in T
    BY <1>1, <1>3
  <2>2. /\ c \in Seq(T) /\ Len(c) = (IF j <= n THEN n - j + 1 ELSE 0)
        /\ \A i \in 1..(n - j + 1) : c[i] = s[j + i - 1]
    BY <1>1, <2>1, SubSeqProperties
  <2> HIDE DEF c
  <2> QED
    BY <1>1, <2>2
<1> HIDE DEF a, c
<1>7. IsCat(d, a, b, T) /\ d \in Seq(T)
  BY <1>4, <1>5, CatIs
<1>8. Len(d) = j /\ \A i \in 1..j : d[i] = IF i < j THEN s[i] ELSE x
  <2>1. Len(d) = (j - 1) + 1 /\ \A i \in 1..((j - 1) + 1) : d[i] = IF i <= j - 1 THEN a[i] ELSE b[i - (j - 1)]
    BY <1>4, <1>5, <1>7 DEF IsCat
  <2>2. (j - 1) + 1 = j /\ \A i \in 1..j : (i <= j - 1 <=> i < j) /\ (~(i < j) => i - (j - 1) = 1)
    BY <1>1
  <2> HIDE DEF d
  <2>3. ASSUME NEW i \in 1..j PROVE d[i] = IF i < j THEN s[i] ELSE x
    <3>1. d[i] = IF i <= j - 1 THEN a[i] ELSE b[i - (j - 1)]
      BY <2>1, <2>2
    <3>2. CASE i < j
      <4>1. i <= j - 1 /\ i \in 1..(j - 1)
        BY <1>1, <3>2
      <4>2. d[i] = a[i] /\ a[i] = s[i]
        BY <1>5, <3>1, <4>1
      <4> QED
        BY <3>2, <4>2
    <3>3. CASE ~(i < j)
      <4>1. ~(i <= j - 1) /\ i - (j - 1) = 1
        BY <1>1, <3>3
      <4>2. d[i] = b[1]
        BY <3>1, <4>1
      <4> QED
        BY <1>4, <3>3, <4>2
    <3> QED
      BY <3>2, <3>3
  <2> QED
    BY <2>1, <2>2, <2>3
<1> HIDE DEF d
<1>9. IsCat(r, d, c, T) /\ r \in Seq(T)
  BY <1>6, <1>7, CatIs
<1> HIDE DEF r
<1>10. Len(r) = n + 1
  BY <1>1, <1>6, <1>8, <1>9 DEF IsCat
<1>11. ASSUME NEW i \in 1..(n + 1)
       PROVE  r[i] = IF i < j THEN s[i] ELSE IF i = j THEN x ELSE s[i - 1]
  <2>1. i \in 1..(Len(d) + Len(c)) /\ r[i] = IF i <= j THEN d[i] ELSE c[i - j]
    BY <1>1, <1>6, <1>8, <1>9 DEF IsCat
  <2>2. CASE i <= j
    BY <1>1, <1>8, <2>1, <2>2
  <2>3. CASE ~(i <= j)
    <3>1. i - j \in 1..(n - j + 1) /\ j + (i - j) - 1 = i - 1 /\ ~(i < j) /\ i # j
      BY <1>1, <2>3
    <3> QED
      BY <1>6, <2>1, <2>3, <3>1
  <2> QED
    BY <2>2, <2>3
<1> QED
  BY <1>2, <1>9, <1>10, <1>11 DEF T

LEMMA MapsAre ==
  ASSUME RowsInv, NEW read \in SUBSET Pages, NEW map \in MapsOf(read)
  PROVE  map \in Seq(Nat) /\ Range(map) \cup {0} = read \cup {0}
<1> DEFINE s == PagesInOrder(read)
<1>1. s \in Seq(Nat) /\ Range(s) = read
  BY OrderOfPages
<1> HIDE DEF s
<1>2. map = s \/ \E j \in 1..(Len(s) + 1) : map = InsertAt(s, j, Missing)
  BY DEF MapsOf, s
<1>3. ASSUME NEW j \in 1..(Len(s) + 1), map = InsertAt(s, j, Missing)
      PROVE  map \in Seq(Nat) /\ Range(map) \cup {0} = read \cup {0}
  <2>1. /\ map \in Seq(Nat) /\ Len(map) = Len(s) + 1
        /\ \A i \in 1..(Len(s) + 1) :
             map[i] = IF i < j THEN s[i] ELSE IF i = j THEN 0 ELSE s[i - 1]
    <3>1. Missing = 0 /\ Missing \in Nat
      BY DEF Missing
    <3> DEFINE r == InsertAt(s, j, Missing)
    <3>2. /\ r \in Seq(Nat) /\ Len(r) = Len(s) + 1
          /\ \A i \in 1..(Len(s) + 1) :
               r[i] = IF i < j THEN s[i] ELSE IF i = j THEN Missing ELSE s[i - 1]
      BY <1>1, <3>1, InsertAtIs
    <3> HIDE DEF r
    <3>3. map = r
      BY <1>3 DEF r
    <3> QED
      BY <3>1, <3>2, <3>3
  <2>2. Len(s) \in Nat /\ Range(map) = {map[i] : i \in 1..(Len(s) + 1)} /\ read = {s[i] : i \in 1..Len(s)}
    BY <1>1, <2>1, RangeEquality, LenProperties
  <2>3. \A i \in 1..(Len(s) + 1) : map[i] \in read \cup {0}
    <3> TAKE i \in 1..(Len(s) + 1)
    <3>1. (i < j => i \in 1..Len(s)) /\ (~(i < j) /\ i # j => i - 1 \in 1..Len(s))
      BY <2>2
    <3> QED
      BY <2>1, <2>2, <3>1
  <2>4. \A i \in 1..Len(s) : s[i] \in Range(map)
    <3> TAKE i \in 1..Len(s)
    <3>1. CASE i < j
      <4>1. i \in 1..(Len(s) + 1)
        BY <2>2
      <4> QED
        BY <2>1, <2>2, <3>1, <4>1
    <3>2. CASE ~(i < j)
      <4>1. i + 1 \in 1..(Len(s) + 1) /\ ~(i + 1 < j) /\ i + 1 # j /\ (i + 1) - 1 = i
        BY <2>2, <3>2
      <4> QED
        BY <2>1, <2>2, <4>1
    <3> QED
      BY <3>1, <3>2
  <2> QED
    BY <2>1, <2>2, <2>3, <2>4
<1> QED
  BY <1>1, <1>2, <1>3

-----------------------------------------------------------------------------
(* Over a map that has lost a page.                                        *)

LEMMA KeepAll ==
  ASSUME NEW T, NEW P, NEW s \in Seq(T), \A x \in Range(s) : x \in P
  PROVE  Joined(KeepTable(T, P), s) = s
<1> DEFINE F == KeepTable(T, P)
           U == T \cap P
           S == {r \in Seq(U) : Joined(F, r) = r}
<1>1. Fills(F, T, Seq(T)) /\ Seq(U) \subseteq Seq(T)
  BY KeepTableFills, SeqMonotonic
<1>2. <<>> \in S
  BY EmptySeq, MappedEmpty
<1>3. ASSUME NEW r \in S, NEW x \in U PROVE Append(r, x) \in S
  <2>1. r \in Seq(U) /\ r \in Seq(T) /\ Joined(F, r) = r /\ x \in T /\ F[x] = <<x>>
    BY <1>1 DEF KeepTable
  <2> HIDE DEF F
  <2>2. Joined(F, Append(r, x)) = Cat(Joined(F, r), F[x])
    BY <1>1, <2>1, JoinedAppend
  <2>3. Append(r, x) = r \o <<x>> /\ Append(r, x) \in Seq(U)
    BY <2>1, AppendIsConcat, AppendProperties
  <2> QED
    BY <2>1, <2>2, <2>3 DEF Cat
<1>4. S \in SUBSET Seq(U)
  OBVIOUS
<1> HIDE DEF S
<1>5. S = Seq(U)
  BY <1>2, <1>3, <1>4, SeqInductionOnSets
<1>6. s \in Seq(U)
  <2>1. \A i \in 1..Len(s) : s[i] \in U
    BY RangeEquality, LenProperties, ElementOfSeq
  <2>2. Len(s) \in Nat /\ s = [i \in 1..Len(s) |-> s[i]]
    BY LenProperties
  <2> QED
    BY <2>1, <2>2
<1> QED
  BY <1>5, <1>6 DEF S

LEMMA KeepNone ==
  ASSUME NEW T, NEW P, NEW s \in Seq(T), \A x \in Range(s) : x \notin P
  PROVE  Joined(KeepTable(T, P), s) = <<>>
<1> DEFINE q == Joined(KeepTable(T, P), s)
<1>1. q \in Seq(T) /\ Range(q) = {}
  BY RangeKept
<1> HIDE DEF q
<1>2. Len(q) = 0
  <2>1. Len(q) \in Nat /\ Range(q) = {q[i] : i \in 1..Len(q)}
    BY <1>1, LenProperties, RangeEquality
  <2>2. ~(1 \in 1..Len(q))
    BY <1>1, <2>1
  <2> QED
    BY <2>1, <2>2
<1> QED
  BY <1>1, <1>2, EmptySeq DEF q

\* The images whose gap the map still has.
TakenImages(map) == {x \in AllImages : ~GapLost(map, rows[x.n].anchor)}

LEMMA TakenKept ==
  ASSUME RowsInv, NEW map, NEW slot \in Slot
  PROVE  Joined(KeepTable(Items, TakenImages(map)), ItemsTable[slot]) = TakenTable(map)[slot]
<1> DEFINE P == TakenImages(map)
           s == ItemsTable[slot]
<1>1. s \in Seq(Items) /\ s = ItemsOf(slot)
  BY ItemsOfType DEF ItemsTable
<1>2. CASE slot.is = "page"
  <2>1. s = <<PageSlot(slot.n)>> /\ TakenTable(map)[slot] = <<>>
    BY <1>1, <1>2 DEF ItemsOf, TakenTable
  <2>2. Range(s) = {PageSlot(slot.n)}
    BY <2>1, SortOne DEF InKeyOrder
  <2>3. PageSlot(slot.n) \notin P
    BY DEF PageSlot, TakenImages, AllImages
  <2> HIDE DEF s, P
  <2>4. Joined(KeepTable(Items, P), s) = <<>>
    BY <1>1, <2>2, <2>3, KeepNone
  <2> QED
    BY <2>1, <2>4 DEF s, P
<1>3. CASE slot.is = "gap"
  <2> DEFINE a == slot.n
             q == Inserts(a)
  <2>1. s = Mapped(ImageTable, q)
    BY <1>1, <1>3 DEF ItemsOf
  <2>2. \A x \in Range(s) : x \in AllImages /\ rows[x.n].anchor = a
    <3>1. DOMAIN s = DOMAIN q /\ \A i \in DOMAIN q : s[i] = ImageTable[q[i]]
      BY <2>1 DEF Mapped
    <3>2. \A i \in DOMAIN q : q[i] \in Standing("insert") /\ rows[q[i]].anchor = a
      BY InsertFacts
    <3>3. \A i \in DOMAIN q : s[i] = ImageItem(q[i])
      BY <3>1, <3>2 DEF ImageTable
    <3>4. \A i \in DOMAIN q : s[i] \in AllImages /\ s[i].n = q[i]
      <4>1. \A pk \in Standing("insert") : ImageItem(pk) \in AllImages /\ ImageItem(pk).n = pk
        BY DEF ImageItem, AllImages
      <4> HIDE DEF s, q
      <4> QED
        BY <3>2, <3>3, <4>1
    <3> HIDE DEF s, q
    <3> QED
      BY <3>1, <3>2, <3>4 DEF Range
  <2>3. CASE GapLost(map, a)
    <3>1. \A x \in Range(s) : x \notin P
      BY <2>2, <2>3 DEF TakenImages
    <3>2. TakenTable(map)[slot] = <<>>
      BY <2>3 DEF TakenTable
    <3> HIDE DEF s, P
    <3> QED
      BY <1>1, <3>1, <3>2, KeepNone DEF s, P
  <2>4. CASE ~GapLost(map, a)
    <3>1. \A x \in Range(s) : x \in P
      BY <2>2, <2>4 DEF TakenImages
    <3>2. TakenTable(map)[slot] = s
      BY <1>3, <2>4 DEF TakenTable
    <3> HIDE DEF s, P
    <3>3. Joined(KeepTable(Items, P), s) = s
      BY <1>1, <3>1, KeepAll
    <3> QED
      BY <3>2, <3>3 DEF s, P
  <2> QED
    BY <2>3, <2>4
<1> QED
  BY <1>2, <1>3, SlotIs

\* The images a walk over sorted slots takes are sorted.
LEMMA TakenSorted ==
  ASSUME RowsInv, NEW map, NEW slots \in Seq(Slot), NEW S \in SUBSET Items,
         InKeyOrder(ItemsAlong(slots), S, PlaceTable)
  PROVE  InKeyOrder(Joined(TakenTable(map), slots), S \cap TakenImages(map), PlaceTable)
<1> DEFINE P == TakenImages(map)
           s == ItemsAlong(slots)
           F == ItemsTable
           G == KeepTable(Items, P)
           H == TakenTable(map)
<1>1. Fills(F, Slot, Seq(Items)) /\ Fills(G, Items, Seq(Items)) /\ Fills(H, Slot, Seq(Items))
  BY ItemTablesTake, KeepTableFills, TakenTableFills
<1>2. \A x \in Slot : Joined(G, F[x]) = H[x]
  BY TakenKept
<1> HIDE DEF F, G, H
<1>3. Joined(G, Joined(F, slots)) = Joined(H, slots)
  BY <1>1, <1>2, JoinedTwice
<1>4. s \in Seq(S) /\ s \in Seq(Items) /\ s = Joined(F, slots)
  BY SeqMonotonic DEF InKeyOrder, ItemsAlong, F
<1> HIDE DEF s, P
<1>5. Joined(G, s) = Joined(KeepTable(S, P), s)
  BY <1>4, AmongIs DEF G
<1>6. InKeyOrder(Joined(KeepTable(S, P), s), S \cap P, PlaceTable)
  BY SortAmong DEF s
<1> QED
  BY <1>3, <1>4, <1>5, <1>6 DEF H, P

LEMMA LostPage ==
  ASSUME RowsInv, NEW p \in Pages, NEW map \in MapsOf(Pages \ {p})
  PROVE  LET out == ProjectInserts(map) IN
         /\ {e.n : e \in ImagesIn(out)} = Standing("insert")
         /\ Len(Among(out, ImagesIn(out))) = Cardinality(Standing("insert"))
<1> DEFINE read == Pages \ {p}
           c == Max(Range(map) \cup {0})
           slots == SlotsOver(map)
           K == JustImages
           v == VisitAll(FirstWalk, map, slots)
           n == Len(map)
           u == DrawUntil(v, map, n + 1)
           out == DrawnOver(map)
           f == FacesIn(K, out)
<1>1. map \in Seq(Nat) /\ Range(map) \cup {0} = read \cup {0}
  <2>1. read \in SUBSET Pages
    OBVIOUS
  <2> QED
    BY <2>1, MapsAre
<1>2. c \in {PageCount - 1, PageCount}
  <2>1. PageCount \in Nat \ {0} /\ Pages = 1..PageCount
    BY PageEditsAssumption DEF Pages
  <2> DEFINE R == read \cup {0}
  <2>2. R \in SUBSET (0..PageCount) /\ R # {} /\ PageCount \in Nat
    BY <2>1
  <2>3. Max(R) \in R /\ \A x \in R : x <= Max(R)
    <3> HIDE DEF R
    <3> QED
      BY <2>2, GreatestNumber
  <2>4. PageCount \in R \/ PageCount - 1 \in R
    BY <2>1
  <2>5. c = Max(R)
    BY <1>1
  <2> HIDE DEF R, c
  <2>6. c \in 0..PageCount
    BY <2>2, <2>3, <2>5
  <2> QED
    BY <2>1, <2>3, <2>4, <2>5, <2>6
<1>3. c \in 0..PageCount /\ \E S \in SUBSET Items : InKeyOrder(ItemsAlong(slots), S, PlaceTable)
  <2> HIDE DEF c
  <2>1. c \in 0..PageCount /\ \E S \in SUBSET Items : InKeyOrder(ItemsAlong(SlotOrder(c, {})), S, PlaceTable)
    BY <1>2, ShorterSorted
  <2> QED
    BY <2>1 DEF c, SlotsOver
<1>4. slots \in Seq(Slot)
  <2> HIDE DEF c
  <2>1. SlotOrder(c, {}) \in Seq(Slot)
    BY <1>3, SlotOrderIs
  <2> QED
    BY <2>1 DEF c, SlotsOver
<1> HIDE DEF c, slots
<1>5. PICK S \in SUBSET Items : InKeyOrder(ItemsAlong(slots), S, PlaceTable)
  BY <1>3
<1>6. K \in FaceKinds /\ "page" \notin K
  BY DEF JustImages, FaceKinds
<1>7. v \in Walks /\ v.at \in 1..(n + 1) /\ Seen(K, v) = Joined(TakenTable(map), slots)
  BY <1>1, <1>4, ImagesWalked
<1>8. n \in Nat /\ n + 1 \in 1..(n + 1) /\ 1 <= v.at
  BY <1>1, <1>7, LenProperties
<1> HIDE DEF v, n, K
<1>9. u \in Walks /\ Seen(K, u) = Seen(K, v)
  BY <1>1, <1>6, <1>7, <1>8, DrawUntilSeen DEF n
<1> HIDE DEF u
<1>10. Flush(u) \in Walks /\ FacesIn(K, Flush(u).out) = Seen(K, u)
  BY <1>6, <1>9, FlushSeen
<1>11. out = Flush(u).out
  BY DEF DrawnOver, u, v, n, slots
<1>12. out \in Seq(Entries)
  BY <1>10, <1>11, WalkIs
<1> HIDE DEF out
<1>13. InKeyOrder(f, S \cap TakenImages(map), PlaceTable)
  <2>1. InKeyOrder(Joined(TakenTable(map), slots), S \cap TakenImages(map), PlaceTable)
    BY <1>4, <1>5, TakenSorted
  <2> QED
    BY <1>7, <1>9, <1>10, <1>11, <2>1
<1>14. S \cap TakenImages(map) \in SUBSET AllImages
  BY DEF TakenImages
<1>15. LET res == WithTheRest(out) IN
       /\ {e.n : e \in ImagesIn(res)} = Standing("insert")
       /\ Len(Among(res, ImagesIn(res))) = Cardinality(Standing("insert"))
  BY <1>12, <1>13, <1>14, EveryImageOnce DEF K
<1>16. ProjectInserts(map) = WithTheRest(out)
  BY ProjectInsertsIs DEF out
<1> QED
  BY <1>15, <1>16

-----------------------------------------------------------------------------
(* Over a map of all the pages.                                            *)

PageTable    == KeepTable(Slot, PageSlots(Pages))
HeldPages(s) == Joined(PageTable, s)
HeldNow      == HeldPages(SlotsNow)
PageOrder    == PagesInOrder(Pages)

LEMMA PageTableIs ==
  ASSUME RowsInv, NEW slot \in Slot
  PROVE  /\ PageTable[slot] = IF slot.is = "page" THEN <<slot>> ELSE <<>>
         /\ Fills(PageTable, Slot, Seq(Slot)) /\ Fills(PageTable, Slot, Seq(Items))
<1>1. AllPages = PageSlots(Pages)
  BY DEF AllPages, PageSlots, PageSlot
<1>2. \A x \in Slot : x \in PageSlots(Pages) <=> x.is = "page"
  <2> TAKE x \in Slot
  <2>1. CASE x.is = "page"
    BY <2>1, SlotIs DEF PageSlots
  <2>2. CASE x.is # "page"
    BY <2>2 DEF PageSlots, PageSlot
  <2> QED
    BY <2>1, <2>2
<1>3. \A x \in Slot : PageTable[x] = IF x.is = "page" THEN <<x>> ELSE <<>>
  BY <1>2 DEF PageTable, KeepTable
<1>4. Fills(PageTable, Slot, Seq(Slot))
  BY KeepTableFills DEF PageTable
<1>5. \A x \in Slot : PageTable[x] \in Seq(Items)
  <2> TAKE x \in Slot
  <2>1. CASE x.is = "page"
    <3>1. x \in Items
      BY <1>1, <1>2, <2>1 DEF Items
    <3>2. <<x>> \in Seq(Items)
      BY <3>1
    <3>3. PageTable[x] = <<x>>
      BY <1>3, <2>1
    <3> QED
      BY <3>2, <3>3
  <2>2. CASE x.is # "page"
    BY <1>3, <2>2, EmptySeq
  <2> QED
    BY <2>1, <2>2
<1>6. Fills(PageTable, Slot, Seq(Items))
  BY <1>5 DEF Fills, PageTable, KeepTable
<1> QED
  BY <1>3, <1>4, <1>6

LEMMA SlotsNowType ==
  ASSUME RowsInv
  PROVE  /\ SlotsNow \in Seq(Slot) /\ SlotsNow = SlotOrder(PageCount, {})
         /\ PageCount \in Pages /\ Max(Pages) = PageCount /\ Max(Pages \cup {0}) = PageCount
<1>1. PageCount \in Nat \ {0} /\ PageCount \in 0..PageCount /\ {} \in SUBSET Anchors
  BY PageEditsAssumption
<1>2. SlotsNow = SlotOrder(PageCount, {})
  BY <1>1, SlotOrderIsUpto DEF SlotsNow
<1>3. SlotsNow \in Seq(Slot)
  BY <1>1, UptoType DEF SlotsNow
<1>4. PageCount \in Pages /\ Pages = 1..PageCount
  BY <1>1 DEF Pages
<1>5. Max(Pages) = PageCount
  <2>1. Pages \in SUBSET (0..PageCount) /\ Pages # {}
    BY <1>4
  <2>2. Max(Pages) \in Pages /\ PageCount <= Max(Pages)
    BY <1>1, <1>4, <2>1, GreatestNumber
  <2> QED
    BY <1>1, <1>4, <2>2
<1>6. Max(Pages \cup {0}) = PageCount
  <2> DEFINE R == Pages \cup {0}
  <2>1. R \in SUBSET (0..PageCount) /\ R # {} /\ PageCount \in R
    BY <1>1, <1>4
  <2>2. Max(R) \in R /\ PageCount <= Max(R)
    BY <1>1, <2>1, GreatestNumber
  <2> HIDE DEF R
  <2>3. Max(R) = PageCount
    <3>1. Max(R) \in 0..PageCount
      BY <2>1, <2>2
    <3> QED
      BY <1>1, <2>2, <3>1
  <2> QED
    BY <2>3 DEF R
<1> QED
  BY <1>2, <1>3, <1>4, <1>5, <1>6

LEMMA HeldSorted ==
  ASSUME RowsInv
  PROVE  InKeyOrder(HeldNow, AllPages, PlaceTable)
<1> DEFINE F == ItemsTable
           G == KeepTable(Items, AllPages)
           H == PageTable
           s == ItemsAlong(SlotsNow)
<1>1. Fills(F, Slot, Seq(Items)) /\ Fills(G, Items, Seq(Items))
  BY ItemTablesTake, KeepTableFills
<1>2. SlotsNow \in Seq(Slot)
  BY SlotsNowType
<1>3. Fills(H, Slot, Seq(Items))
  <2>1. PageSlot(PageCount) \in Slot
    BY SlotsNowType DEF PageSlot, Slot
  <2> QED
    BY <2>1, PageTableIs
<1>4. \A x \in Slot : Joined(G, F[x]) = H[x]
  <2> TAKE x \in Slot
  <2>1. F[x] \in Seq(Items) /\ F[x] = ItemsOf(x)
    BY ItemsOfType DEF ItemsTable
  <2>2. H[x] = IF x.is = "page" THEN <<x>> ELSE <<>>
    BY PageTableIs
  <2>3. CASE x.is = "page"
    <3>1. F[x] = <<x>> /\ x \in AllPages
      BY <2>1, <2>3, SlotIs DEF ItemsOf, PageSlot, AllPages
    <3>2. Range(F[x]) = {x}
      BY <3>1, SortOne DEF InKeyOrder
    <3> HIDE DEF F
    <3>3. \A y \in Range(F[x]) : y \in AllPages
      BY <3>1, <3>2
    <3>4. Joined(G, F[x]) = F[x]
      BY <2>1, <3>3, KeepAll
    <3> QED
      BY <2>2, <2>3, <3>1, <3>4
  <2>4. CASE x.is = "gap"
    <3>1. F[x] = Mapped(ImageTable, Inserts(x.n))
      BY <2>1, <2>4 DEF ItemsOf
    <3>2. \A y \in Range(F[x]) : y \notin AllPages
      <4> DEFINE q == Inserts(x.n)
      <4>1. DOMAIN F[x] = DOMAIN q /\ \A i \in DOMAIN q : F[x][i] = ImageTable[q[i]]
        BY <3>1 DEF Mapped
      <4>2. \A i \in DOMAIN q : q[i] \in Standing("insert")
        BY InsertFacts
      <4>3. \A pk \in Standing("insert") : ImageTable[pk] \notin AllPages
        BY DEF ImageTable, ImageItem, AllPages
      <4> HIDE DEF F, q
      <4> QED
        BY <4>1, <4>2, <4>3 DEF Range
    <3> HIDE DEF F
    <3>3. Joined(G, F[x]) = <<>>
      BY <2>1, <3>2, KeepNone
    <3> QED
      BY <2>2, <2>4, <3>3
  <2> QED
    BY <2>3, <2>4, SlotIs
<1> HIDE DEF F, G, H
<1>5. Joined(G, Joined(F, SlotsNow)) = Joined(H, SlotsNow)
  BY <1>1, <1>2, <1>3, <1>4, JoinedTwice
<1>6. InKeyOrder(Joined(G, s), Items \cap AllPages, PlaceTable)
  <2>1. InKeyOrder(s, Items, PlaceTable)
    BY ItemsInOrder
  <2> HIDE DEF s
  <2> QED
    BY <2>1, SortAmong DEF G
<1>7. Items \cap AllPages = AllPages
  BY DEF Items
<1> QED
  BY <1>5, <1>6, <1>7 DEF s, F, H, HeldNow, HeldPages, ItemsAlong

\* The pages in order: all of them, each once, as the slots hold them.
LEMMA PageOrderIs ==
  ASSUME RowsInv
  PROVE  /\ PageOrder \in Seq(Nat) /\ Len(PageOrder) = Len(HeldNow) /\ Len(PageOrder) \in Nat
         /\ \A i \in 1..Len(PageOrder) : PageOrder[i] \in Pages /\ HeldNow[i] = PageSlot(PageOrder[i])
         /\ \A i, j \in 1..Len(PageOrder) : PageOrder[i] = PageOrder[j] => i = j
         /\ \A p \in Pages : \E i \in 1..Len(PageOrder) : PageOrder[i] = p
<1> DEFINE held == HeldNow
           n == Len(held)
           N == {slot.n : slot \in Range(held)}
<1>1. held = HeldSlots(Pages)
  <2>1. Pages # {} /\ Max(Pages) = PageCount /\ SlotsNow = SlotOrder(PageCount, {})
    BY SlotsNowType
  <2> QED
    BY <2>1 DEF HeldSlots, HeldNow, HeldPages, PageTable
<1>2. held \in Seq(Slot) /\ PageOrder = Cat(Mapped(NumberOf, held), Ascending(Pages \ N))
  <2>1. Pages \in SUBSET Pages
    OBVIOUS
  <2> QED
    BY <1>1, <2>1, PagesInOrderIs DEF PageOrder
<1>3. InKeyOrder(held, AllPages, PlaceTable)
  BY HeldSorted
<1>4. IsKey(PlaceTable, AllPages)
  <2>1. AllPages \subseteq Items
    BY DEF Items
  <2> QED
    BY <2>1, PlaceIsKey DEF IsKey
<1> HIDE DEF held
<1>5. /\ n \in Nat /\ Range(held) = AllPages /\ \A i \in 1..n : held[i] \in AllPages
      /\ \A x \in AllPages : \E i \in 1..n : held[i] = x
      /\ \A i, j \in 1..n : held[i] = held[j] => i = j
  <2>1. /\ n \in Nat /\ held \in [1..n -> AllPages]
        /\ \A x \in AllPages : \E i \in 1..n : held[i] = x
        /\ \A i, j \in 1..n : held[i] = held[j] => i = j
    BY <1>3, <1>4, SortInjective
  <2> QED
    BY <1>3, <2>1 DEF InKeyOrder
<1>6. \A x \in AllPages : x.n \in Pages /\ x = PageSlot(x.n)
  BY DEF AllPages, PageSlot
<1>7. N = Pages
  <2>1. N = {x.n : x \in AllPages}
    BY <1>5
  <2>2. {x.n : x \in AllPages} = Pages
    <3>1. \A p \in Pages : PageSlot(p) \in AllPages /\ PageSlot(p).n = p
      BY DEF AllPages, PageSlot
    <3> QED
      BY <1>6, <3>1
  <2> QED
    BY <2>1, <2>2
<1>8. Ascending(Pages \ N) = <<>>
  <2>1. Pages \ N = {}
    BY <1>7
  <2>2. InKeyOrder(Ascending({}), {}, Count) /\ InKeyOrder(<<>>, {}, Count) /\ IsKey(Count, {})
    BY AscendingSorts, FS_EmptySet, SortEmpty, CountIsKey
  <2> QED
    BY <2>1, <2>2, SortUnique
<1>9. Fills(NumberOf, Slot, Nat)
  <2>1. Pages \subseteq Nat /\ Anchors \subseteq Nat
    BY PageEditsAssumption DEF Pages, Anchors
  <2> QED
    BY <2>1, SlotIs DEF NumberOf, Fills
<1>10. /\ Mapped(NumberOf, held) \in Seq(Nat) /\ Len(Mapped(NumberOf, held)) = n
       /\ \A i \in 1..n : Mapped(NumberOf, held)[i] = NumberOf[held[i]] /\ held[i] \in Slot
  BY <1>2, <1>9, MappedType DEF IsMapped
<1>11. PageOrder = Mapped(NumberOf, held)
  BY <1>2, <1>8, <1>10, ConcatEmptySeq DEF Cat
<1>12. \A i \in 1..n : PageOrder[i] = held[i].n
  BY <1>10, <1>11 DEF NumberOf
<1>13. \A i \in 1..n : PageOrder[i] \in Pages /\ held[i] = PageSlot(PageOrder[i])
  BY <1>5, <1>6, <1>12
<1>14. \A p \in Pages : \E i \in 1..n : PageOrder[i] = p
  <2> TAKE p \in Pages
  <2>1. PageSlot(p) \in AllPages /\ PageSlot(p).n = p
    BY DEF PageSlot, AllPages
  <2> QED
    BY <1>5, <1>12, <2>1
<1> QED
  BY <1>5, <1>10, <1>11, <1>13, <1>14 DEF held

-----------------------------------------------------------------------------
(* Where a map of all the pages holds each, and the walk over it.          *)

\* pos takes the pages in order to their indices in the map; the rest is placeholders.
PlacedAt(map, pos) ==
  LET n == Len(PageOrder) IN
  /\ \A i \in 1..n : pos[i] \in 1..Len(map) /\ map[pos[i]] = PageOrder[i]
  /\ \A i, j \in 1..n : i < j => pos[i] < pos[j]
  /\ \A k \in 1..Len(map) : map[k] # Missing => \E i \in 1..n : k = pos[i]

\* Where the walk is after k pages.
WalkAt(pos, k) == IF k = 0 THEN 1 ELSE pos[k] + 1

LEMMA MapPlaces ==
  ASSUME RowsInv, NEW map \in MapsOf(Pages)
  PROVE  map \in Seq(Nat) /\ Range(map) \cup {0} = Pages \cup {0} /\ \E pos : PlacedAt(map, pos)
<1> DEFINE s == PageOrder
           n == Len(s)
<1>1. s \in Seq(Nat) /\ n \in Nat
  BY PageOrderIs
<1>2. map \in Seq(Nat) /\ Range(map) \cup {0} = Pages \cup {0}
  <2>1. Pages \in SUBSET Pages
    OBVIOUS
  <2> QED
    BY <2>1, MapsAre
<1>3. map = s \/ \E j \in 1..(n + 1) : map = InsertAt(s, j, Missing)
  BY DEF MapsOf, PageOrder
<1> HIDE DEF s, n
<1>4. CASE map = s
  <2> DEFINE pos == [i \in 1..n |-> i]
  <2>1. \A i \in 1..n : pos[i] = i
    OBVIOUS
  <2> HIDE DEF pos
  <2>2. Len(map) = n /\ \A i \in 1..n : map[i] = s[i]
    BY <1>4 DEF n
  <2>3. PlacedAt(map, pos)
    BY <1>1, <2>1, <2>2 DEF PlacedAt, s, n
  <2> QED
    BY <1>2, <2>3
<1>5. ASSUME NEW j \in 1..(n + 1), map = InsertAt(s, j, Missing)
      PROVE  \E pos : PlacedAt(map, pos)
  <2> DEFINE r == InsertAt(s, j, Missing)
             pos == [i \in 1..n |-> IF i < j THEN i ELSE i + 1]
  <2>1. /\ Len(r) = n + 1
        /\ \A i \in 1..(n + 1) :
             r[i] = IF i < j THEN s[i] ELSE IF i = j THEN Missing ELSE s[i - 1]
    <3>1. Missing \in Nat
      BY DEF Missing
    <3> QED
      BY <1>1, <3>1, InsertAtIs DEF n
  <2> HIDE DEF r
  <2>2. map = r
    BY <1>5 DEF r
  <2>3. \A i \in 1..n : pos[i] = IF i < j THEN i ELSE i + 1
    OBVIOUS
  <2> HIDE DEF pos
  <2>4. \A i \in 1..n : pos[i] \in 1..Len(map) /\ map[pos[i]] = s[i]
    <3> TAKE i \in 1..n
    <3>1. CASE i < j
      <4>1. i \in 1..(n + 1) /\ pos[i] = i
        BY <1>1, <2>3, <3>1
      <4> QED
        BY <2>1, <2>2, <3>1, <4>1
    <3>2. CASE ~(i < j)
      <4>1. i + 1 \in 1..(n + 1) /\ pos[i] = i + 1 /\ ~(i + 1 < j) /\ i + 1 # j /\ (i + 1) - 1 = i
        BY <1>1, <2>3, <3>2
      <4> QED
        BY <2>1, <2>2, <4>1
    <3> QED
      BY <3>1, <3>2
  <2>5. \A i, k \in 1..n : i < k => pos[i] < pos[k]
    BY <1>1, <2>3
  <2>6. \A k \in 1..Len(map) : map[k] # Missing => \E i \in 1..n : k = pos[i]
    <3> SUFFICES ASSUME NEW k \in 1..(n + 1), map[k] # Missing PROVE \E i \in 1..n : k = pos[i]
      BY <2>1, <2>2
    <3>1. CASE k < j
      <4>1. k \in 1..n /\ pos[k] = k
        BY <1>1, <2>3, <3>1
      <4> QED
        BY <4>1
    <3>2. CASE k = j
      BY <2>1, <2>2, <3>2
    <3>3. CASE ~(k < j) /\ k # j
      <4>1. k - 1 \in 1..n /\ ~(k - 1 < j) /\ (k - 1) + 1 = k
        BY <1>1, <3>3
      <4>2. pos[k - 1] = k
        BY <2>3, <4>1
      <4> QED
        BY <4>1, <4>2
    <3> QED
      BY <3>1, <3>2, <3>3
  <2>7. PlacedAt(map, pos)
    BY <2>4, <2>5, <2>6 DEF PlacedAt, s, n
  <2> QED
    BY <2>7
<1> QED
  BY <1>2, <1>3, <1>4, <1>5

LEMMA PlaceOnMap ==
  ASSUME RowsInv, NEW map \in Seq(Nat), NEW pos, PlacedAt(map, pos), NEW i \in 1..Len(PageOrder)
  PROVE  PlacesIn(map, PageOrder[i]) = {pos[i]} /\ PageOrder[i] # Missing
<1>1. PageOrder[i] \in Pages /\ \A j \in 1..Len(PageOrder) : PageOrder[i] = PageOrder[j] => i = j
  BY PageOrderIs
<1>2. PageOrder[i] # Missing
  BY <1>1 DEF Pages, Missing
<1>3. DOMAIN map = 1..Len(map)
  BY LenProperties
<1>4. \A k \in 1..Len(map) : map[k] = PageOrder[i] => k = pos[i]
  BY <1>1, <1>2 DEF PlacedAt
<1>5. pos[i] \in 1..Len(map) /\ map[pos[i]] = PageOrder[i]
  BY DEF PlacedAt
<1> QED
  BY <1>2, <1>3, <1>4, <1>5 DEF PlacesIn

LEMMA NoGapLost ==
  ASSUME RowsInv, NEW map \in Seq(Nat), NEW pos, PlacedAt(map, pos), NEW a \in Anchors
  PROVE  ~GapLost(map, a)
<1> SUFFICES ASSUME a # 0 PROVE PlacesIn(map, a) # {}
  BY DEF GapLost
<1>1. a \in Pages
  BY PageEditsAssumption DEF Anchors, Pages
<1>2. PICK i \in 1..Len(PageOrder) : PageOrder[i] = a
  BY <1>1, PageOrderIs
<1> QED
  BY <1>2, PlaceOnMap

\* Between two pages there are placeholders only, and after the last.
LEMMA BetweenPages ==
  ASSUME RowsInv, NEW map \in Seq(Nat), NEW pos, PlacedAt(map, pos), NEW k \in 0..Len(PageOrder)
  PROVE  /\ WalkAt(pos, k) \in 1..(Len(map) + 1)
         /\ \A i \in WalkAt(pos, k)..Len(map) :
              map[i] # Missing => k < Len(PageOrder) /\ pos[k + 1] <= i
         /\ k < Len(PageOrder) =>
              /\ pos[k + 1] \in 1..Len(map) /\ WalkAt(pos, k) <= pos[k + 1]
              /\ WalkAt(pos, k + 1) = pos[k + 1] + 1
<1> DEFINE n == Len(PageOrder)
           w == WalkAt(pos, k)
<1>1. n \in Nat /\ k \in Nat /\ k <= n /\ Len(map) \in Nat
  BY PageOrderIs, LenProperties
<1>2. /\ \A i \in 1..n : pos[i] \in 1..Len(map)
      /\ \A i, j \in 1..n : i < j => pos[i] < pos[j]
      /\ \A j \in 1..Len(map) : map[j] # Missing => \E i \in 1..n : j = pos[i]
  BY DEF PlacedAt
<1>3. k # 0 => k \in 1..n
  BY <1>1
<1>4. w = (IF k = 0 THEN 1 ELSE pos[k] + 1)
  BY DEF WalkAt
<1> HIDE DEF n, w
<1>5. w \in 1..(Len(map) + 1)
  BY <1>1, <1>2, <1>3, <1>4
<1>6. ASSUME NEW i \in w..Len(map), map[i] # Missing PROVE k < n /\ pos[k + 1] <= i
  <2>1. i \in 1..Len(map)
    BY <1>1, <1>5
  <2>2. PICK m \in 1..n : i = pos[m]
    BY <1>2, <1>6, <2>1
  <2>3. k < m
    <3> SUFFICES ASSUME ~(k < m) PROVE FALSE
      OBVIOUS
    <3>1. k \in 1..n /\ (m < k \/ m = k)
      BY <1>1
    <3>2. pos[m] <= pos[k]
      <4>1. pos[m] \in Nat /\ pos[k] \in Nat
        BY <1>2, <3>1
      <4> QED
        BY <1>2, <3>1, <4>1
    <3>3. pos[k] + 1 <= i /\ pos[k] \in Nat /\ i \in Nat
      BY <1>1, <1>2, <1>4, <1>5, <2>1, <3>1
    <3> QED
      BY <2>2, <3>2, <3>3
  <2>4. k + 1 \in 1..n /\ (k + 1 < m \/ k + 1 = m)
    BY <1>1, <2>3
  <2>5. pos[k + 1] \in Nat /\ pos[m] \in Nat
    BY <1>2, <2>4
  <2>6. pos[k + 1] <= pos[m]
    BY <1>2, <2>4, <2>5
  <2> QED
    BY <1>1, <2>2, <2>4, <2>6
<1>7. ASSUME k < n
      PROVE  /\ pos[k + 1] \in 1..Len(map) /\ w <= pos[k + 1]
             /\ WalkAt(pos, k + 1) = pos[k + 1] + 1
  <2>1. k + 1 \in 1..n /\ k + 1 # 0
    BY <1>1, <1>7
  <2>2. pos[k + 1] \in 1..Len(map)
    BY <1>2, <2>1
  <2>3. w <= pos[k + 1]
    <3>1. CASE k = 0
      BY <1>4, <2>2, <3>1
    <3>2. CASE k # 0
      <4>1. k \in 1..n /\ k < k + 1
        BY <1>1, <3>2
      <4>2. pos[k] < pos[k + 1] /\ pos[k] \in Nat /\ pos[k + 1] \in Nat
        BY <1>2, <2>1, <4>1
      <4> QED
        BY <1>4, <3>2, <4>2
    <3> QED
      BY <3>1, <3>2
  <2> QED
    BY <2>1, <2>2, <2>3 DEF WalkAt
<1> QED
  BY <1>5, <1>6, <1>7 DEF n, w

BothKinds == {"page", "insert"}

LEMMA VisitNextPage ==
  ASSUME RowsInv, NEW map \in Seq(Nat), NEW pos, PlacedAt(map, pos),
         NEW k \in Nat, k < Len(PageOrder), NEW w \in Walks, w.at = WalkAt(pos, k)
  PROVE  LET p == PageOrder[k + 1]
             v == Visit(w, map, PageSlot(p)) IN
         /\ v \in Walks /\ v.at = WalkAt(pos, k + 1)
         /\ Seen(BothKinds, v) = Cat(Seen(BothKinds, w), <<PageSlot(p)>>)
<1> DEFINE K == BothKinds
           n == Len(PageOrder)
           p == PageOrder[k + 1]
           m == pos[k + 1]
           at == PlacesIn(map, p)
           u1 == DrawUntil(w, map, m)
           u2 == Flush(u1)
           u3 == DrawUntil(u2, map, m + 1)
           l == Len(map)
<1>1. n \in Nat /\ l \in Nat /\ k \in 0..n /\ k + 1 \in 1..n
  BY PageOrderIs, LenProperties
<1>2. /\ w.at \in 1..(l + 1) /\ m \in 1..l /\ w.at <= m /\ WalkAt(pos, k + 1) = m + 1
      /\ \A i \in w.at..l : map[i] # Missing => m <= i
  BY <1>1, BetweenPages
<1>3. at = {m} /\ p # Missing /\ map[m] = p
  <2>1. \A i \in 1..n : PlacesIn(map, PageOrder[i]) = {pos[i]} /\ PageOrder[i] # Missing
    BY PlaceOnMap
  <2>2. map[m] = p
    BY <1>1 DEF PlacedAt
  <2> QED
    BY <1>1, <2>1, <2>2
<1>4. K \in FaceKinds /\ "page" \in K
  BY DEF BothKinds, FaceKinds
<1> HIDE DEF K, n, l, at, m, p
<1>5. Min(at) = m
  <2>1. {m} \in SUBSET (0..l) /\ {m} # {}
    BY <1>1, <1>2
  <2>2. Min({m}) \in {m}
    BY <1>1, <2>1, LeastIs
  <2> QED
    BY <1>3, <2>2
<1>6. Min(at \cup {l}) = m
  <2>1. {m, l} \in SUBSET (0..l) /\ {m, l} # {}
    BY <1>1, <1>2
  <2>2. Min({m, l}) \in {m, l} /\ Min({m, l}) <= m
    BY <1>1, <2>1, LeastIs
  <2>3. Min({m, l}) = m
    BY <1>1, <1>2, <2>2
  <2>4. at \cup {l} = {m, l}
    BY <1>3
  <2> QED
    BY <2>3, <2>4
<1>7. Visit(w, map, PageSlot(p)) = u3
  <2>1. Visit(w, map, PageSlot(p)) =
          IF at = {} \/ Min(at \cup {l}) < w.at THEN w
          ELSE DrawUntil(Flush(DrawUntil(w, map, Min(at))), map, Min(at) + 1)
    BY VisitPage DEF at, l
  <2>2. ~(at = {}) /\ ~(m < w.at)
    BY <1>1, <1>2, <1>3
  <2> QED
    BY <1>5, <1>6, <2>1, <2>2
<1>8. /\ u1 \in Walks /\ u1.at = m /\ Seen(K, u1) = Seen(K, w)
  <2>1. m \in 1..(l + 1) /\ 1 <= w.at /\ w.at \in Nat /\ m \in Nat
    BY <1>1, <1>2
  <2>2. \A i \in w.at..(m - 1) : map[i] = Missing
    <3> TAKE i \in w.at..(m - 1)
    <3>1. i \in w.at..l /\ ~(m <= i)
      BY <1>1, <1>2, <2>1
    <3> QED
      BY <1>2, <3>1
  <2>3. /\ u1 \in Walks /\ u1.at = (IF w.at < m THEN m ELSE w.at) /\ Seen(K, u1) = Seen(K, w)
    BY <1>4, <2>1, <2>2, DrawUntilSeen DEF l
  <2> HIDE DEF u1
  <2> QED
    BY <1>2, <2>1, <2>3
<1> HIDE DEF u1
<1>9. u2 \in Walks /\ u2.at = m /\ u2.queue = <<>> /\ Seen(K, u2) = Seen(K, w)
  BY <1>4, <1>8, FlushSeen
<1> HIDE DEF u2
<1>10. /\ u3 \in Walks /\ u3.at = m + 1 /\ Seen(K, u3) = Cat(Seen(K, u2), <<PageSlot(p)>>)
  <2>1. u2.at \in 1..l /\ map[u2.at] = p /\ p # Missing
    BY <1>2, <1>3, <1>9
  <2>2. LET v == DrawUntil(u2, map, u2.at + 1) IN
        /\ v \in Walks /\ v.at = u2.at + 1
        /\ Seen(K, v) = Cat(Seen(K, u2), <<PageSlot(map[u2.at])>>)
    BY <1>4, <1>9, <2>1, DrawOnePage DEF l
  <2> QED
    BY <1>9, <2>1, <2>2
<1> HIDE DEF u3
<1> QED
  BY <1>2, <1>7, <1>9, <1>10 DEF K, p

-----------------------------------------------------------------------------
(* The whole walk over a map of all the pages.                             *)

LEMMA HeldAppend ==
  ASSUME RowsInv, NEW s \in Seq(Slot), NEW x \in Slot, NEW r \in Seq(Slot),
         Cat(Append(s, x), r) = SlotsNow
  PROVE  /\ Cat(s, Cat(<<x>>, r)) = SlotsNow /\ Cat(<<x>>, r) \in Seq(Slot)
         /\ HeldPages(s) \in Seq(Slot) /\ Len(HeldPages(s)) \in Nat
         /\ x.is = "gap" => Len(HeldPages(Append(s, x))) = Len(HeldPages(s))
         /\ x.is = "page" =>
              LET k == Len(HeldPages(s)) IN
              /\ Len(HeldPages(Append(s, x))) = k + 1
              /\ k < Len(PageOrder) /\ x = PageSlot(PageOrder[k + 1])
<1> DEFINE one == <<x>>
           t == Cat(one, r)
           h == HeldPages(s)
           k == Len(h)
           F == PageTable
<1>1. one \in Seq(Slot) /\ Append(s, x) = s \o one /\ Append(s, x) \in Seq(Slot)
  BY AppendIsConcat, AppendProperties
<1>2. F[x] = (IF x.is = "page" THEN <<x>> ELSE <<>>) /\ Fills(F, Slot, Seq(Slot))
  BY PageTableIs
<1> HIDE DEF one, F
<1>3. t \in Seq(Slot) /\ Cat(s, t) = SlotsNow
  <2>1. (s \o one) \o r = s \o (one \o r)
    BY <1>1, ConcatAssociative
  <2>2. t \in Seq(Slot)
    BY <1>1, CatIs
  <2> QED
    BY <1>1, <2>1, <2>2 DEF Cat
<1>4. h \in Seq(Slot) /\ k \in Nat
  BY <1>2, JoinedType, LenProperties DEF HeldPages, F
<1>5. HeldPages(Append(s, x)) = Cat(h, F[x])
  BY <1>2, JoinedAppend DEF HeldPages, F
<1> HIDE DEF h, k, t
<1>6. CASE x.is = "gap"
  <2>1. Cat(h, <<>>) = h
    BY <1>4, ConcatEmptySeq DEF Cat
  <2>2. HeldPages(Append(s, x)) = h
    BY <1>2, <1>5, <1>6, <2>1
  <2> QED
    BY <1>3, <1>4, <1>6, <2>2 DEF h, k, t, one
<1>7. CASE x.is = "page"
  <2>1. HeldPages(Append(s, x)) = Cat(h, one) /\ Len(one) = 1 /\ one[1] = x
    BY <1>2, <1>5, <1>7 DEF one
  <2>2. IsCat(Cat(h, one), h, one, Slot) /\ Cat(h, one) \in Seq(Slot)
    BY <1>1, <1>4, CatIs
  <2>3. Len(Cat(h, one)) = k + 1
    BY <2>1, <2>2 DEF IsCat, k
  <2> DEFINE a == Append(s, x)
             b == HeldPages(a)
             c == HeldPages(r)
  <2>4. HeldNow = Cat(b, c) /\ b = Cat(h, one)
    <3>1. a \in Seq(Slot) /\ Cat(a, r) = SlotsNow
      BY <1>1
    <3> HIDE DEF a
    <3>2. Joined(F, Cat(a, r)) = Cat(Joined(F, a), Joined(F, r))
      BY <1>2, <3>1, JoinedConcat
    <3>3. HeldNow = Cat(b, c)
      BY <3>1, <3>2 DEF HeldNow, HeldPages, F
    <3> QED
      BY <2>1, <3>3 DEF a
  <2>5. c \in Seq(Slot) /\ Len(c) \in Nat
    BY <1>2, JoinedType, LenProperties DEF HeldPages, F
  <2> HIDE DEF b, c
  <2>6. b \in Seq(Slot) /\ Len(b) = k + 1 /\ b[k + 1] = x
    <3>1. k + 1 \in 1..(Len(h) + Len(one)) /\ ~(k + 1 <= Len(h)) /\ (k + 1) - Len(h) = 1
      BY <1>4, <2>1 DEF k
    <3>2. Cat(h, one)[k + 1] = one[1]
      BY <2>2, <3>1 DEF IsCat
    <3> QED
      BY <2>1, <2>2, <2>3, <2>4, <3>2
  <2>7. IsCat(Cat(b, c), b, c, Slot)
    BY <2>5, <2>6, CatIs
  <2>8. Len(HeldNow) = Len(b) + Len(c) /\ HeldNow[k + 1] = x
    <3>1. k + 1 \in 1..(Len(b) + Len(c)) /\ k + 1 <= Len(b)
      BY <1>4, <2>5, <2>6
    <3>2. Cat(b, c)[k + 1] = b[k + 1] /\ Len(Cat(b, c)) = Len(b) + Len(c)
      BY <2>7, <3>1 DEF IsCat
    <3> QED
      BY <2>4, <2>6, <3>2
  <2>9. Len(PageOrder) = Len(HeldNow) /\ k < Len(PageOrder) /\ k + 1 \in 1..Len(PageOrder)
    <3>1. Len(PageOrder) = Len(HeldNow)
      BY PageOrderIs
    <3> QED
      BY <1>4, <2>5, <2>6, <2>8, <3>1
  <2>10. HeldNow[k + 1] = PageSlot(PageOrder[k + 1])
    BY <2>9, PageOrderIs
  <2>11. Len(HeldPages(Append(s, x))) = k + 1
    BY <2>1, <2>3
  <2> QED
    BY <1>3, <1>4, <1>7, <2>8, <2>9, <2>10, <2>11 DEF h, k, t, one
<1> QED
  BY <1>6, <1>7, SlotIs

LEMMA BothWalked ==
  ASSUME RowsInv, NEW map \in Seq(Nat), NEW pos, PlacedAt(map, pos)
  PROVE  LET v == VisitAll(FirstWalk, map, SlotsNow) IN
         /\ v \in Walks /\ v.at = WalkAt(pos, Len(PageOrder))
         /\ Seen(BothKinds, v) = ItemsAlong(SlotsNow)
<1> DEFINE K == BothKinds
           Walked(s) == LET v == VisitAll(FirstWalk, map, s) IN
                        /\ v \in Walks /\ v.at = WalkAt(pos, Len(HeldPages(s)))
                        /\ Seen(K, v) = ItemsAlong(s)
           Begins(s) == \E r \in Seq(Slot) : Cat(s, r) = SlotsNow
           S == {s \in Seq(Slot) : Begins(s) => Walked(s)}
<1>1. K \in FaceKinds
  BY DEF BothKinds, FaceKinds
<1>2. <<>> \in S
  <2>1. VisitAll(FirstWalk, map, <<>>) = FirstWalk
    BY VisitAllEmpty
  <2>2. FirstWalk \in Walks /\ FirstWalk.at = 1 /\ Seen(K, FirstWalk) = <<>>
    BY <1>1, FirstWalkIs
  <2>3. ItemsAlong(<<>>) = <<>> /\ HeldPages(<<>>) = <<>> /\ Len(<<>>) = 0
    BY MappedEmpty DEF ItemsAlong, HeldPages
  <2>4. WalkAt(pos, 0) = 1
    BY DEF WalkAt
  <2> QED
    BY <2>1, <2>2, <2>3, <2>4, EmptySeq
<1>3. ASSUME NEW s \in S, NEW x \in Slot PROVE Append(s, x) \in S
  <2>1. s \in Seq(Slot) /\ Append(s, x) \in Seq(Slot)
    BY AppendProperties
  <2> SUFFICES ASSUME NEW r \in Seq(Slot), Cat(Append(s, x), r) = SlotsNow
               PROVE  Walked(Append(s, x))
    BY <2>1
  <2> DEFINE u == VisitAll(FirstWalk, map, s)
             k == Len(HeldPages(s))
             v == Visit(u, map, x)
  <2>2. /\ Begins(s) /\ k \in Nat
        /\ x.is = "gap" => Len(HeldPages(Append(s, x))) = k
        /\ x.is = "page" => /\ Len(HeldPages(Append(s, x))) = k + 1
                            /\ k < Len(PageOrder) /\ x = PageSlot(PageOrder[k + 1])
    <3> DEFINE t == Cat(<<x>>, r)
    <3>1. Cat(s, t) = SlotsNow /\ t \in Seq(Slot)
      BY <2>1, HeldAppend
    <3>2. Begins(s)
      <4> HIDE DEF t
      <4> QED
        BY <3>1
    <3> HIDE DEF Begins
    <3> QED
      BY <2>1, <3>2, HeldAppend
  <2>3. u \in Walks /\ u.at = WalkAt(pos, k) /\ Seen(K, u) = ItemsAlong(s)
    BY <2>2
  <2>4. VisitAll(FirstWalk, map, Append(s, x)) = v
    BY <2>1, VisitAllAppend
  <2>5. ItemsAlong(Append(s, x)) = Cat(ItemsAlong(s), ItemsTable[x])
    BY <2>1, ItemTablesTake, JoinedAppend DEF ItemsAlong
  <2> HIDE DEF u, k
  <2>6. CASE x.is = "gap"
    <3>1. x = GapSlot(x.n) /\ x.n \in Anchors
      BY <2>6, SlotIs
    <3>2. ~GapLost(map, x.n)
      BY <3>1, NoGapLost
    <3>3. v \in Walks /\ v.at = u.at /\ Seen(K, v) = Cat(Seen(K, u), ItemsTable[x])
      BY <1>1, <2>3, <3>1, <3>2, VisitGap
    <3> HIDE DEF v
    <3> QED
      BY <2>2, <2>3, <2>4, <2>5, <2>6, <3>3
  <2>7. CASE x.is = "page"
    <3>1. k < Len(PageOrder) /\ x = PageSlot(PageOrder[k + 1])
      BY <2>2, <2>7
    <3>2. v \in Walks /\ v.at = WalkAt(pos, k + 1) /\ Seen(K, v) = Cat(Seen(K, u), <<x>>)
      BY <2>2, <2>3, <3>1, VisitNextPage
    <3>3. ItemsTable[x] = <<x>>
      BY <2>7, SlotIs DEF ItemsTable, ItemsOf
    <3> HIDE DEF v
    <3> QED
      BY <2>2, <2>3, <2>4, <2>5, <2>7, <3>2, <3>3
  <2> QED
    BY <2>6, <2>7, SlotIs
<1>4. S \in SUBSET Seq(Slot)
  OBVIOUS
<1> HIDE DEF S
<1>5. S = Seq(Slot)
  BY <1>2, <1>3, <1>4, SeqInductionOnSets
<1>6. SlotsNow \in Seq(Slot)
  BY SlotsNowType
<1>7. Begins(SlotsNow)
  <2>1. Cat(SlotsNow, <<>>) = SlotsNow /\ <<>> \in Seq(Slot)
    BY <1>6, ConcatEmptySeq, EmptySeq DEF Cat
  <2> QED
    BY <2>1
<1>8. Walked(SlotsNow)
  BY <1>5, <1>6, <1>7 DEF S
<1>9. Len(HeldPages(SlotsNow)) = Len(PageOrder)
  BY PageOrderIs DEF HeldNow
<1> QED
  BY <1>8, <1>9

LEMMA AllPagesShown ==
  ASSUME RowsInv, NEW map \in MapsOf(Pages)
  PROVE  LET out == WithoutMissing(ProjectInserts(map)) IN
         [i \in DOMAIN out |-> [is |-> out[i].is, n |-> out[i].n]] = InPlaceOrder(Items)
<1> DEFINE K == BothKinds
           n == Len(PageOrder)
           l == Len(map)
           v == VisitAll(FirstWalk, map, SlotsNow)
           u == DrawUntil(v, map, l + 1)
           out == DrawnOver(map)
           rest == Unplaced(out)
<1>1. map \in Seq(Nat) /\ Range(map) \cup {0} = Pages \cup {0}
  BY MapPlaces
<1>2. PICK pos : PlacedAt(map, pos)
  BY MapPlaces
<1>3. SlotsOver(map) = SlotsNow
  BY <1>1, SlotsNowType DEF SlotsOver
<1>4. K \in FaceKinds /\ \A x : x \in K <=> (x = "page" \/ x = "insert")
  BY DEF BothKinds, FaceKinds
<1>5. v \in Walks /\ v.at = WalkAt(pos, n) /\ Seen(K, v) = ItemsAlong(SlotsNow)
  BY <1>1, <1>2, BothWalked
<1>6. n \in Nat /\ l \in Nat /\ n \in 0..n
  BY <1>1, PageOrderIs, LenProperties
<1>7. v.at \in 1..(l + 1) /\ \A i \in v.at..l : map[i] = Missing
  <2>1. /\ WalkAt(pos, n) \in 1..(l + 1)
        /\ \A i \in WalkAt(pos, n)..l : map[i] # Missing => n < n /\ pos[n + 1] <= i
    BY <1>1, <1>2, <1>6, BetweenPages
  <2>2. ~(n < n)
    BY <1>6
  <2> HIDE DEF v, n, l
  <2> QED
    BY <1>5, <2>1, <2>2
<1> HIDE DEF v, K
<1>8. u \in Walks /\ Seen(K, u) = Seen(K, v)
  <2>1. l + 1 \in 1..(l + 1) /\ 1 <= v.at /\ (l + 1) - 1 = l
    BY <1>6, <1>7
  <2>2. \A i \in v.at..((l + 1) - 1) : map[i] = Missing
    BY <1>7, <2>1
  <2> QED
    BY <1>1, <1>4, <1>5, <2>1, <2>2, DrawUntilSeen
<1>9. out = Flush(u).out
  BY <1>3 DEF DrawnOver, v
<1> HIDE DEF u, l
<1>10. out \in Seq(Entries) /\ FacesIn(K, out) = ItemsAlong(SlotsNow)
  <2>1. Flush(u) \in Walks /\ FacesIn(K, Flush(u).out) = Seen(K, u)
    BY <1>4, <1>8, FlushSeen
  <2> QED
    BY <1>5, <1>8, <1>9, <2>1, WalkIs
<1> HIDE DEF out
<1>11. Range(FacesIn(K, out)) = Items
  BY <1>10, ItemsInOrder DEF InKeyOrder
<1>12. PlacedIn(out) = Standing("insert")
  <2>1. Items = {Face(e) : e \in {d \in Range(out) : d.is \in K}}
    BY <1>4, <1>10, <1>11, RangeFaces
  <2>2. ASSUME NEW e \in Range(out), e.is = "insert" PROVE e.n \in Standing("insert")
    <3>1. Face(e) \in Items /\ Face(e) = ImageItem(e.n)
      BY <1>4, <2>1, <2>2 DEF Face, ImageItem
    <3>2. ImageItem(e.n).is = "insert" /\ ImageItem(e.n).n = e.n
      BY DEF ImageItem
    <3> QED
      BY <3>1, <3>2, ItemIs
  <2>3. ASSUME NEW pk \in Standing("insert") PROVE \E e \in Range(out) : e.is = "insert" /\ e.n = pk
    <3>1. ImageItem(pk) \in Items
      BY DEF ImageItem, Items, AllImages
    <3>2. PICK e \in Range(out) : Face(e) = ImageItem(pk)
      BY <2>1, <3>1
    <3>3. Face(e).is = e.is /\ Face(e).n = e.n /\ ImageItem(pk).is = "insert" /\ ImageItem(pk).n = pk
      BY DEF Face, ImageItem
    <3> QED
      BY <3>2, <3>3
  <2> QED
    BY <2>2, <2>3 DEF PlacedIn
<1>13. Mapped(EntryOf, rest) = <<>>
  <2>1. Standing("insert") \ PlacedIn(out) = {}
    BY <1>12
  <2>2. InKeyOrder(rest, {}, Count) /\ InKeyOrder(<<>>, {}, Count) /\ IsKey(Count, {})
    BY <2>1, UnplacedSorted, SortEmpty, CountIsKey
  <2>3. rest = <<>>
    BY <2>2, SortUnique
  <2> QED
    BY <2>3, MappedEmpty
<1>14. ProjectInserts(map) = out
  <2>1. Cat(out, <<>>) = out
    BY <1>10, ConcatEmptySeq DEF Cat
  <2>2. ProjectInserts(map) = Cat(out, Mapped(EntryOf, rest))
    BY ProjectInsertsIs DEF WithTheRest, out
  <2> QED
    BY <1>13, <2>1, <2>2
<1> DEFINE P == {e \in Range(out) : e.is # "missing"}
           kept == Among(out, P)
<1>15. \A e \in Range(out) : e \in P <=> e.is \in K
  <2>1. \A e \in Range(out) : e \in Entries
    BY <1>10, RangeOfSeq
  <2>2. \A e \in Entries : e.is # "missing" <=> e.is \in K
    BY <1>4 DEF Entries
  <2> QED
    BY <2>1, <2>2
<1> HIDE DEF P
<1>16. [i \in DOMAIN kept |-> Face(kept[i])] = FacesIn(K, out)
  BY <1>4, <1>10, <1>15, AmongFaces
<1>17. WithoutMissing(ProjectInserts(map)) = kept
  BY <1>14 DEF WithoutMissing, P
<1> HIDE DEF kept
<1>18. [i \in DOMAIN kept |-> [is |-> kept[i].is, n |-> kept[i].n]] = ItemsAlong(SlotsNow)
  BY <1>10, <1>16 DEF Face
<1> QED
  BY <1>17, <1>18, OrderOfItems

\* The viewer shows the volume the apply would build, whatever was decided, over every map
\* of the pages and over one that has lost a page.
THEOREM ViewerShowsWhatIsBuilt == EditsSpec => []ViewerShowsThePlan
<1>1. RowsInv => ViewerShowsThePlan
  <2> SUFFICES ASSUME RowsInv PROVE ViewerShowsThePlan
    OBVIOUS
  <2>1. \A map \in MapsOf(Pages) :
          LET out == WithoutMissing(ProjectInserts(map)) IN
          [i \in DOMAIN out |-> [is |-> out[i].is, n |-> out[i].n]] = InPlaceOrder(AllPages \cup AllImages)
    BY AllPagesShown DEF Items
  <2>2. \A p \in Pages : \A map \in MapsOf(Pages \ {p}) :
          LET out == ProjectInserts(map) IN
          /\ {e.n : e \in ImagesIn(out)} = Standing("insert")
          /\ Len(Among(out, ImagesIn(out))) = Cardinality(Standing("insert"))
    BY LostPage
  <2> QED
    BY <2>1, <2>2 DEF ViewerShowsThePlan
<1>2. TypeInv => RowsInv
  BY DEF TypeInv
<1> QED
  BY <1>1, <1>2, TypeInvHolds, PTL
=============================================================================
