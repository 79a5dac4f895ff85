------------------------- MODULE VolumeReads_proofs -------------------------
(***************************************************************************)
(* Proofs about VolumePipeline and about its composition VolumeReads, for  *)
(* any number of workers, shards, runs, presses, kills, faults, signals    *)
(* and re-queues.                                                          *)
(*                                                                         *)
(* First the queue of VolumePipeline.  ClaimsBounded is not inductive: it  *)
(* says nothing of how many claims the interruption counter still allows.  *)
(* HandedOut does.  Every claim so far and the one a QUEUED scan is        *)
(* waiting for is paid for by the first queueing, by an interruption, or   *)
(* by an admin's re-queue, which is worth a whole new count of             *)
(* interruptions and pays only once its update, which resets the counter,  *)
(* is made.  Then ParkedIsWhole, where no two pipelines meet.              *)
(*                                                                         *)
(* The read never writes what the conversion reads: the composition        *)
(* implements VolumePipeline, and its theorems hold here as well.          *)
(*                                                                         *)
(* What is carried and what is reviewed rest on one invariant, RInv: a row *)
(* that has a result keeps it, and holds the hole its part deserves; what  *)
(* is on S3 is of such a row, and so is what a creator is about to carry;  *)
(* the pass holds a run that is glued, the numbers are of one, and while   *)
(* an apply is on its way the live run is not stamped.                     *)
(***************************************************************************)
EXTENDS VolumeReads, WellFoundedInduction, FiniteSetTheorems, TLAPS

Round == MaxInterruptions + 1

Waiting     == IF status = "queued" THEN 1 ELSE 0
Counted     == IF interruptions <= MaxInterruptions
               THEN interruptions ELSE MaxInterruptions
Reset       == IF admin = "idle" THEN requeues ELSE requeues - 1

CountersOK ==
  /\ interruptions \in Nat /\ claims \in Nat /\ requeues \in Nat
  /\ admin # "idle" => requeues > 0

HandedOut == claims + Waiting <= Reset * Round + Counted + 1

IInv == CountersOK /\ HandedOut

-----------------------------------------------------------------------------
\* One more round: the product grows by a round.
LEMMA OneMore == ASSUME NEW n \in Nat PROVE (n + 1) * Round = n * Round + Round
BY VolumeAssumption DEF Round

LEMMA RoundNat == Round \in Nat /\ Round = MaxInterruptions + 1 /\ \A n \in Nat : n * Round \in Nat
BY VolumeAssumption DEF Round

LEMMA PaidFor ==
  ASSUME NEW c \in Nat, NEW w \in Nat, NEW p \in Nat, NEW n \in Nat, NEW m \in Nat,
         c <= p + n + 1, n + w <= m
  PROVE  c + w <= p + m + 1
OBVIOUS

LEMMA ResetNat == ASSUME CountersOK PROVE Reset \in Nat
BY DEF CountersOK, Reset

\* A step that leaves the queue, its counters and the admin alone, or moves the
\* scan to a status that is not QUEUED.
Quiet ==
  /\ UNCHANGED <<interruptions, claims, requeues, admin>>
  /\ status' = status \/ status' # "queued"

LEMMA QuietStep == ASSUME IInv, Quiet PROVE IInv'
<1>1. CountersOK'
  BY DEF IInv, Quiet, CountersOK
<1>2. Reset' = Reset /\ Counted' = Counted /\ Waiting' <= Waiting /\ Waiting \in Nat /\ Waiting' \in Nat
  BY DEF Quiet, Reset, Counted, Waiting
<1>3. Counted \in Nat /\ Reset * Round \in Nat
  BY VolumeAssumption, ResetNat, RoundNat DEF IInv, CountersOK, Counted
<1>4. claims' = claims /\ claims \in Nat /\ Round' = Round
  BY DEF IInv, CountersOK, Quiet, Round
<1>5. HandedOut'
  BY <1>2, <1>3, <1>4 DEF IInv, HandedOut
<1> QED
  BY <1>1, <1>5 DEF IInv

LEMMA ClaimStep == ASSUME IInv, NEW w \in Workers, Claim(w) PROVE IInv'
<1>1. /\ status = "queued" /\ status' = "processing" /\ claims' = claims + 1
      /\ UNCHANGED <<interruptions, requeues, admin>>
  BY DEF Claim
<1>2. CountersOK'
  BY <1>1 DEF IInv, CountersOK
<1>3. Waiting = 1 /\ Waiting' = 0 /\ Reset' = Reset /\ Counted' = Counted
  BY <1>1 DEF Waiting, Reset, Counted
<1>4. Counted \in Nat /\ Reset * Round \in Nat /\ claims \in Nat /\ Round' = Round
  BY VolumeAssumption, ResetNat, RoundNat DEF IInv, CountersOK, Counted, Round
<1>5. HandedOut'
  BY <1>1, <1>3, <1>4 DEF IInv, HandedOut
<1> QED
  BY <1>2, <1>5 DEF IInv

\* An interruption pays for the claim it queues; past the ceiling none is queued.
LEMMA InterruptedStep == ASSUME IInv, Interrupted PROVE IInv'
<1>1. /\ status = "processing" /\ interruptions' = interruptions + 1
      /\ status' = IF interruptions >= MaxInterruptions THEN "interrupted" ELSE "queued"
      /\ UNCHANGED <<claims, requeues, admin>>
  BY DEF Interrupted, countVars
<1>2. CountersOK'
  BY <1>1 DEF IInv, CountersOK
<1>3. Waiting = 0 /\ Reset' = Reset
  BY <1>1 DEF Waiting, Reset
<1>4. Counted' \in Nat /\ Counted \in Nat /\ Counted + Waiting' <= Counted'
  BY <1>1, VolumeAssumption DEF Counted, Waiting, IInv, CountersOK
<1>5. Waiting' \in Nat /\ claims \in Nat /\ claims' = claims /\ Round' = Round
  BY <1>1 DEF IInv, CountersOK, Round, Waiting
<1> DEFINE paid == Reset * Round
<1>6. paid \in Nat /\ claims <= paid + Counted + 1
  BY <1>3, <1>5, ResetNat, RoundNat DEF IInv, HandedOut
<1>7. paid' = paid
  BY <1>3, <1>5
<1>8. ASSUME claims' + Waiting' <= paid' + Counted' + 1 PROVE HandedOut'
  BY <1>8 DEF HandedOut
<1> HIDE DEF paid
<1>9. claims' + Waiting' <= paid' + Counted' + 1
  <2>1. claims + Waiting' <= paid + Counted' + 1
    BY <1>4, <1>5, <1>6, PaidFor
  <2> QED
    BY <2>1, <1>5, <1>7
<1> QED
  BY <1>2, <1>8, <1>9 DEF IInv

\* A re-queue that is asked for pays nothing yet.
LEMMA AdminPickStep == ASSUME IInv, AdminPick PROVE IInv'
<1>1. /\ admin = "idle" /\ admin' = "picked" /\ requeues' = requeues + 1
      /\ UNCHANGED <<status, interruptions, claims>>
  BY DEF AdminPick, scanVars
<1>2. CountersOK'
  BY <1>1 DEF IInv, CountersOK
<1>3. Waiting' = Waiting /\ Reset' = Reset /\ Counted' = Counted
  BY <1>1 DEF Waiting, Reset, Counted, IInv, CountersOK
<1>4. HandedOut'
  BY <1>1, <1>3 DEF IInv, HandedOut, Round
<1> QED
  BY <1>2, <1>4 DEF IInv

LEMMA AdminAbandonStep == ASSUME IInv, AdminAbandon PROVE IInv'
<1>1. /\ admin = "picked" /\ admin' = "abandoned"
      /\ UNCHANGED <<status, interruptions, claims, requeues>>
  BY DEF AdminAbandon, scanVars, countVars
<1>2. CountersOK'
  BY <1>1 DEF IInv, CountersOK
<1>3. Waiting' = Waiting /\ Reset' = Reset /\ Counted' = Counted
  BY <1>1 DEF Waiting, Reset, Counted
<1>4. HandedOut'
  BY <1>1, <1>3 DEF IInv, HandedOut, Round
<1> QED
  BY <1>2, <1>4 DEF IInv

\* The update pays a whole round, for the counter it resets and for the claim it
\* queues.
LEMMA AdminUpdateStep == ASSUME IInv, AdminUpdate PROVE IInv'
<1>1. /\ admin = "abandoned" /\ admin' = "idle"
      /\ UNCHANGED <<claims, requeues>>
      /\ \/ status' = "queued" /\ interruptions' = 0
         \/ status' = status /\ interruptions' = interruptions
  BY DEF AdminUpdate, countVars
<1>2. CountersOK'
  BY <1>1 DEF IInv, CountersOK
<1>3. Reset \in Nat /\ Reset' = Reset + 1
  BY <1>1 DEF Reset, IInv, CountersOK
<1>4. Reset' * Round = Reset * Round + Round
  BY <1>3, OneMore
<1>5. /\ Counted \in Nat /\ Counted' \in Nat /\ Waiting \in Nat /\ Waiting' \in 0..1
      /\ Counted <= MaxInterruptions
      /\ Counted' = 0 \/ (Counted' = Counted /\ Waiting' = Waiting)
  BY <1>1, VolumeAssumption DEF Counted, Waiting, IInv, CountersOK
<1>6. Reset * Round \in Nat /\ claims \in Nat /\ Round' = Round /\ Round = MaxInterruptions + 1
  BY <1>3, RoundNat DEF IInv, CountersOK, Round
<1>7. HandedOut'
  BY <1>1, <1>4, <1>5, <1>6, VolumeAssumption DEF IInv, HandedOut
<1> QED
  BY <1>2, <1>7 DEF IInv

-----------------------------------------------------------------------------
LEMMA InitInv == Init => IInv
<1> SUFFICES ASSUME Init PROVE IInv
  OBVIOUS
<1>1. CountersOK
  BY DEF Init, CountersOK
<1>2. Reset = 0 /\ Counted = 0 /\ Waiting = 1 /\ claims = 0
  BY VolumeAssumption DEF Init, Reset, Counted, Waiting
<1>3. 0 * Round = 0
  BY RoundNat
<1> QED
  BY <1>1, <1>2, <1>3 DEF IInv, HandedOut

LEMMA NextInv == IInv /\ [Next]_vars => IInv'
<1> SUFFICES ASSUME IInv, [Next]_vars PROVE IInv'
  OBVIOUS
<1>1. ASSUME NEW w \in Workers, Claim(w) PROVE IInv'
  BY <1>1, ClaimStep
<1>2. ASSUME NEW w \in Workers, WorkerNext(w) PROVE Quiet
  BY <1>2 DEF WorkerNext, ParkUnconverted, EnsureRead, EnsureNumber, EnsureInsert, Advance,
              AbandonLost, SwapStatus, Quiet, scanVars, countVars
<1>3. ASSUME NEW w \in Workers, Raise(w) PROVE Quiet
  BY <1>3 DEF Raise, SwapStatus, Quiet, countVars
<1>4. ASSUME RecoverStale \/ Sigterm PROVE IInv'
  BY <1>4, InterruptedStep DEF RecoverStale, Sigterm
<1>5. ASSUME GrowsStale \/ Kill PROVE Quiet
  BY <1>5 DEF GrowsStale, Kill, Quiet, scanVars, countVars
<1>6. ASSUME AdminNext PROVE IInv'
  BY <1>6, AdminPickStep, AdminAbandonStep, AdminUpdateStep DEF AdminNext
<1>7. ASSUME MergeNext PROVE Quiet
  BY <1>7 DEF MergeNext, MergePick, MergeRead, Download, Park, Finish, Delete,
              SwapStatus, Quiet, scanVars, countVars
<1>8. ASSUME NEW n \in Runs, NEW s \in Shards, Converts(n, s) \/ ConvertFails(n, s)
      PROVE Quiet
  BY <1>8 DEF Converts, ConvertFails, SetRow, Quiet, scanVars, countVars
<1>9. ASSUME UNCHANGED vars PROVE Quiet
  BY <1>9 DEF vars, Quiet, scanVars, countVars
<1> QED
  BY <1>1, <1>2, <1>3, <1>4, <1>5, <1>6, <1>7, <1>8, <1>9, QuietStep DEF Next

LEMMA HandedOutBounds == IInv => ClaimsBounded
<1> SUFFICES ASSUME IInv PROVE ClaimsBounded
  OBVIOUS
<1>1. Reset \in Nat /\ requeues \in Nat /\ (Reset = requeues \/ requeues = Reset + 1)
  BY DEF IInv, CountersOK, Reset
<1>2. /\ (Reset + 1) * Round = Reset * Round + Round
      /\ (requeues + 1) * Round = requeues * Round + Round
  BY <1>1, OneMore
<1>3. Reset * Round \in Nat /\ requeues * Round \in Nat /\ Round \in Nat
  BY <1>1, RoundNat
<1>4. Reset * Round <= requeues * Round
  BY <1>1, <1>2, <1>3
<1>5. /\ Counted \in Nat /\ Counted + 1 <= Round /\ Waiting \in Nat /\ claims \in Nat
  BY VolumeAssumption, RoundNat DEF Counted, Waiting, IInv, CountersOK
<1>6. claims <= (requeues + 1) * Round
  BY <1>2, <1>3, <1>4, <1>5 DEF IInv, HandedOut
<1>7. (requeues + 1) * Round = Round * (requeues + 1)
  BY <1>1, RoundNat
<1> QED
  BY <1>6, <1>7 DEF ClaimsBounded, Round

\* A scan is handed to a worker at most MaxInterruptions + 1 times for its first
\* queueing and for each re-queue an admin asks for, whatever is killed,
\* signalled, raised or raced (requeue_or_flag_interrupted, _requeue).
THEOREM HandedOutBoundedly == Spec => []ClaimsBounded
<1>1. Init => IInv
  BY InitInv
<1>2. IInv /\ [Next]_vars => IInv'
  BY NextInv
<1>3. IInv => ClaimsBounded
  BY HandedOutBounds
<1> QED
  BY <1>1, <1>2, <1>3, PTL DEF Spec

-----------------------------------------------------------------------------
(* The live run is the newest one.                                         *)

LEMMA LeastOfNat ==
  ASSUME NEW T, T \subseteq Nat, T # {}
  PROVE  \E x \in T : \A y \in T : x <= y
<1> DEFINE R == OpToRel(<, Nat)
<1>1. IsWellFoundedOn(R, Nat)
  BY NatLessThanWellFounded
<1>2. \A x, y \in Nat : x < y => <<x, y>> \in R
  BY DEF OpToRel
<1> HIDE DEF R
<1>3. PICK x \in T : \A y \in T : ~(<<y, x>> \in R)
  BY <1>1, WFMin
<1>4. \A y \in T : ~(y < x)
  BY <1>2, <1>3
<1>5. \A y \in T : x <= y
  BY <1>4
<1> QED
  BY <1>5

LEMMA GreatestOfRange ==
  ASSUME NEW N \in Nat, NEW T, T \subseteq 1..N, T # {}
  PROVE  \E x \in T : \A y \in T : y <= x
<1> DEFINE U == {n \in Nat : \A y \in T : y <= n}
<1>1. PICK u \in U : \A v \in U : u <= v
  <2>1. N \in U /\ U \subseteq Nat
    OBVIOUS
  <2> HIDE DEF U
  <2> QED
    BY <2>1, LeastOfNat
<1>2. u \in T
  <2> SUFFICES ASSUME u \notin T PROVE FALSE
    OBVIOUS
  <2>1. u \in Nat /\ \A y \in T : y <= u
    OBVIOUS
  <2>2. PICK z \in T : TRUE
    OBVIOUS
  <2>3. \A y \in T : y < u /\ y \in Nat
    BY <2>1
  <2>4. u >= 1
    BY <2>1, <2>2, <2>3
  <2>5. u - 1 \in U
    BY <2>1, <2>3, <2>4
  <2> QED
    BY <2>1, <2>5, <1>1
<1> QED
  BY <1>1, <1>2

LEMMA NewestIs ==
  ASSUME NEW N \in Nat, NEW T, T \subseteq 1..N
  PROVE  /\ Newest(T) \in 0..N
         /\ T = {} => Newest(T) = 0
         /\ T # {} => Newest(T) \in T /\ \A m \in T : m <= Newest(T)
<1>1. CASE T = {}
  BY <1>1 DEF Newest
<1>2. CASE T # {}
  <2>1. \E n \in T : \A m \in T : m <= n
    BY <1>2, GreatestOfRange
  <2>2. Newest(T) = CHOOSE n \in T : \A m \in T : m <= n
    BY <1>2 DEF Newest
  <2>3. Newest(T) \in T /\ \A m \in T : m <= Newest(T)
    BY <2>1, <2>2
  <2>4. Newest(T) \in 1..N
    BY <2>3
  <2> QED
    BY <1>2, <2>3, <2>4
<1> QED
  BY <1>1, <1>2

LEMMA NewestOnly ==
  ASSUME NEW N \in Nat, NEW T, T \subseteq 1..N, NEW n \in T, \A m \in T : m <= n
  PROVE  Newest(T) = n
<1>1. Newest(T) \in T /\ n <= Newest(T) /\ Newest(T) <= n
  BY NewestIs
<1>2. \A k \in T : k \in Nat
  OBVIOUS
<1>3. n \in Nat /\ Newest(T) \in Nat
  BY <1>1, <1>2
<1> QED
  BY <1>1, <1>3

RowsType == rows \in [Runs -> [Shards -> RowState]]

\* What LiveRun says: the newest run that was made, or 0.
LEMMA LiveRunIs ==
  /\ LiveRun \in 0..MaxClaims
  /\ LiveRun = 0 => \A n \in Runs : ~Made(n)
  /\ LiveRun # 0 => LiveRun \in Runs /\ Made(LiveRun)
  /\ \A n \in Runs : Made(n) => n <= LiveRun
<1> DEFINE made == {n \in Runs : Made(n)}
<1>1. made \subseteq 1..MaxClaims /\ MaxClaims \in Nat
  BY VolumeAssumption DEF Runs
<1>2. LiveRun = Newest(made)
  BY DEF LiveRun
<1>3. /\ Newest(made) \in 0..MaxClaims
      /\ made = {} => Newest(made) = 0
      /\ made # {} => Newest(made) \in made /\ \A m \in made : m <= Newest(made)
  <2> HIDE DEF made
  <2> QED
    BY <1>1, NewestIs
<1> QED
  BY <1>1, <1>2, <1>3

-----------------------------------------------------------------------------
(* What a parked volume waits for is whole, where no claim is taken away   *)
(* from a worker that goes on while another may claim the scan: there is   *)
(* one worker, or no shut-down handler, and no admin.                      *)

NobodyMeets ==
  /\ "admin" \notin Events
  /\ "sigterm" \notin Events \/ \A w, v \in Workers : w = v

Busy(w) == pipeline[w].step # "idle"

\* One worker at most is inside run_full_pipeline, its claim is fresh, and the scan
\* is not parked: it is held, or was handed back or flagged under it.
OneHolder ==
  /\ admin = "idle"
  /\ \A w, v \in Workers : Busy(w) /\ Busy(v) => w = v
  /\ \A w \in Workers : Busy(w) =>
       /\ stamp = "fresh" /\ status \in {"processing", "queued", "interrupted"}
       /\ "sigterm" \notin Events => status = "processing"

\* A claim starts at most one run, and none it has not started yet is there.
RunsFit(w) ==
  /\ pipeline[w].step \in {"sharding", "number", "insert"} => LiveRun < claims
  /\ pipeline[w].step = "insert" => pipeline[w].run = LiveRun + 1 /\ ~pipeline[w].applied
  /\ pipeline[w].step = "advance" =>
       /\ LiveRun # 0 /\ ~InRun(LiveRun, {"cancelled"})
       /\ pipeline[w].applied => AllIn(LiveRun, {"consumed"})

\* The merge holds the live run of a parked scan, and what it read of it stays.
MergeFits ==
  /\ merge.step \notin {"idle", "delete"} => status = "awaiting"
  /\ merge.step \notin {"idle", "delete", "picked"} => merge.run = LiveRun
  /\ merge.step = "park" => AllIn(LiveRun, {"consumed"})
  /\ merge.step \in {"download", "finish"} => AllIn(LiveRun, {"completed", "consumed"})

ParkedFits ==
  /\ status = "awaiting" => LiveRun # 0 /\ ~InRun(LiveRun, {"cancelled"})
  /\ status = "validation" /\ ~bitonal => LiveRun # 0 /\ AllIn(LiveRun, {"consumed"})

ParkedTypes ==
  /\ RowsType /\ claims \in 0..MaxClaims /\ LiveRun <= claims
  /\ pipeline \in [Workers -> PipelineSlot] /\ merge \in MergeSlot

PInv ==
  /\ ParkedTypes /\ OneHolder /\ MergeFits /\ ParkedFits
  /\ \A w \in Workers : RunsFit(w)

-----------------------------------------------------------------------------
LEMMA SameRows ==
  ASSUME rows' = rows
  PROVE  /\ LiveRun' = LiveRun
         /\ \A n, S : (InRun(n, S)' <=> InRun(n, S)) /\ (AllIn(n, S)' <=> AllIn(n, S))
BY DEF LiveRun, Made, InRun, AllIn, Runs

LEMMA SameMade ==
  ASSUME \A n \in Runs : Made(n)' <=> Made(n)
  PROVE  LiveRun' = LiveRun
<1>1. {n \in Runs : Made(n)'} = {n \in Runs : Made(n)}
  OBVIOUS
<1>2. LiveRun' = Newest({n \in Runs : Made(n)'})
  BY DEF LiveRun, Runs
<1> QED
  BY <1>1, <1>2 DEF LiveRun

LEMMA IdleSlot == PipelineIdle \in PipelineSlot /\ PipelineIdle.step = "idle"
BY VolumeAssumption DEF PipelineIdle, PipelineSlot

LEMMA SetStep ==
  ASSUME NEW slot \in PipelineSlot,
         NEW step \in {"idle", "sharding", "number", "insert", "advance", "abandon"}
  PROVE  /\ [slot EXCEPT !.step = step] \in PipelineSlot
         /\ [slot EXCEPT !.step = step].step = step
         /\ [slot EXCEPT !.step = step].run = slot.run
         /\ [slot EXCEPT !.step = step].applied = slot.applied
BY DEF PipelineSlot

\* A worker inside its action moves on or leaves; the rows stay, and so do the scan,
\* its claim and the other workers.
LEMMA WorkerMoves ==
  ASSUME PInv, NEW w \in Workers, Busy(w), NEW slot \in PipelineSlot, Step(w, slot),
         UNCHANGED <<scanVars, rows, merge, admin, claims>>, RunsFit(w)'
  PROVE  PInv'
<1>1. /\ UNCHANGED <<status, stamp, bitonal, admin, merge, claims, rows>>
      /\ pipeline' = [pipeline EXCEPT ![w] = slot]
  BY DEF scanVars, Step
<1>2. LiveRun' = LiveRun /\ \A n, S : (InRun(n, S)' <=> InRun(n, S)) /\ (AllIn(n, S)' <=> AllIn(n, S))
  BY <1>1, SameRows
<1>3. ParkedTypes'
  BY <1>1, <1>2 DEF PInv, ParkedTypes, RowsType
<1>4. OneHolder'
  BY <1>1 DEF PInv, ParkedTypes, OneHolder, Busy
<1>5. MergeFits' /\ ParkedFits'
  BY <1>1, <1>2 DEF PInv, MergeFits, ParkedFits
<1>6. ASSUME NEW v \in Workers, v # w PROVE RunsFit(v)'
  BY <1>1, <1>2, <1>6 DEF PInv, ParkedTypes, RunsFit
<1> QED
  BY <1>3, <1>4, <1>5, <1>6 DEF PInv

\* A worker leaves, and the scan goes where it may go.
LEMMA WorkerLeaves ==
  ASSUME PInv, NEW w \in Workers, Busy(w), Step(w, PipelineIdle),
         UNCHANGED <<stamp, bitonal, rows, merge, admin, claims>>,
         ParkedFits', merge.step \in {"idle", "delete"}
  PROVE  PInv'
<1>1. pipeline' = [pipeline EXCEPT ![w] = PipelineIdle] /\ PipelineIdle \in PipelineSlot
  BY VolumeAssumption DEF Step, PipelineIdle, PipelineSlot
<1>2. LiveRun' = LiveRun
  BY SameRows
<1>3. ParkedTypes'
  BY <1>1, <1>2 DEF PInv, ParkedTypes, RowsType
<1>4. \A v \in Workers : ~Busy(v)'
  BY <1>1 DEF PInv, ParkedTypes, OneHolder, Busy, PipelineIdle
<1>5. OneHolder'
  BY <1>4 DEF PInv, OneHolder
<1>6. MergeFits'
  BY DEF MergeFits
<1>7. \A v \in Workers : RunsFit(v)'
  BY <1>4 DEF Busy, RunsFit
<1> QED
  BY <1>3, <1>5, <1>6, <1>7 DEF PInv

\* While a worker is inside its action the merge has nothing to park.
LEMMA BusyMeansNoMerge ==
  ASSUME PInv, NEW w \in Workers, Busy(w)
  PROVE  status \notin {"awaiting", "validation"} /\ merge.step \in {"idle", "delete"}
BY DEF PInv, OneHolder, MergeFits

LEMMA ClaimParks ==
  ASSUME PInv, NobodyMeets, NEW w \in Workers, Claim(w)
  PROVE  PInv'
<1> DEFINE slot == [PipelineIdle EXCEPT !.step = "sharding"]
<1>1. /\ pipeline[w].step = "idle" /\ status = "queued" /\ claims < MaxClaims
      /\ claims' = claims + 1 /\ status' = "processing" /\ stamp' = "fresh"
      /\ pipeline' = [pipeline EXCEPT ![w] = slot]
      /\ UNCHANGED <<bitonal, rows, merge, admin>>
  BY DEF Claim, Step, workVars
<1>2. slot.step = "sharding" /\ slot \in PipelineSlot
  BY IdleSlot, SetStep
<1> HIDE DEF slot
<1>3. \A v \in Workers : ~Busy(v)
  BY <1>1 DEF PInv, OneHolder, NobodyMeets, Busy
<1>4. LiveRun' = LiveRun /\ LiveRun \in Nat /\ claims \in Nat
  BY <1>1, SameRows, LiveRunIs, VolumeAssumption DEF PInv, ParkedTypes
<1>5. ParkedTypes'
  BY <1>1, <1>2, <1>4, VolumeAssumption DEF PInv, ParkedTypes, RowsType
<1>6. \A v \in Workers : v # w => ~Busy(v)'
  BY <1>1, <1>3 DEF PInv, ParkedTypes, Busy
<1>7. OneHolder'
  BY <1>1, <1>6 DEF PInv, OneHolder
<1>8. MergeFits' /\ ParkedFits'
  BY <1>1 DEF PInv, MergeFits, ParkedFits
<1>9. pipeline[w]' = slot
  BY <1>1 DEF PInv, ParkedTypes
<1>10. RunsFit(w)'
  BY <1>1, <1>2, <1>4, <1>9 DEF RunsFit, PInv, ParkedTypes
<1>11. \A v \in Workers : RunsFit(v)'
  BY <1>6, <1>10 DEF RunsFit, Busy
<1> QED
  BY <1>5, <1>7, <1>8, <1>11 DEF PInv

LEMMA ParkUnconvertedParks ==
  ASSUME PInv, NEW w \in Workers, ParkUnconverted(w)
  PROVE  PInv'
<1>1. /\ Busy(w) /\ bitonal /\ Step(w, PipelineIdle)
      /\ UNCHANGED <<stamp, bitonal, rows, merge, admin, claims>>
      /\ status' = IF status = "processing" THEN "validation" ELSE status
  BY DEF ParkUnconverted, SwapStatus, Busy, workVars, countVars
<1>2. ParkedFits' /\ merge.step \in {"idle", "delete"}
  BY <1>1, BusyMeansNoMerge DEF ParkedFits
<1> QED
  BY <1>1, <1>2, WorkerLeaves

LEMMA EnsureReadParks ==
  ASSUME PInv, NEW w \in Workers, EnsureRead(w)
  PROVE  PInv'
<1>1. /\ pipeline[w].step = "sharding" /\ Busy(w)
      /\ UNCHANGED <<scanVars, rows, merge, admin, claims>>
      /\ LiveRun' = LiveRun /\ LiveRun \in 0..MaxClaims /\ LiveRun < claims
      /\ claims' = claims
      /\ \A n, S : (InRun(n, S)' <=> InRun(n, S)) /\ (AllIn(n, S)' <=> AllIn(n, S))
  BY SameRows, LiveRunIs DEF EnsureRead, Busy, workVars, countVars, PInv, RunsFit
<1>2. CASE LiveRun # 0 /\ Reusable(LiveRun)
  <2> DEFINE slot == [step |-> "advance", run |-> LiveRun,
                      applied |-> AllIn(LiveRun, {"consumed"})]
  <2>1. slot \in PipelineSlot /\ Step(w, slot)
    BY <1>1, <1>2 DEF PipelineSlot, EnsureRead, AllIn
  <2>2. ~InRun(LiveRun, {"cancelled"})
    BY <1>2 DEF Reusable, InRun, DeadRow
  <2>3. slot.step = "advance" /\ (slot.applied => AllIn(LiveRun, {"consumed"}))
    OBVIOUS
  <2> HIDE DEF slot
  <2>4. pipeline[w]' = slot
    BY <2>1 DEF Step, PInv, ParkedTypes
  <2>5. RunsFit(w)'
    BY <1>1, <1>2, <2>2, <2>3, <2>4 DEF RunsFit
  <2> QED
    BY <1>1, <2>1, <2>5, WorkerMoves
<1>3. CASE ~(LiveRun # 0 /\ Reusable(LiveRun))
  <2> DEFINE slot == [PipelineIdle EXCEPT !.step = "number"]
  <2>1. slot \in PipelineSlot /\ slot.step = "number" /\ Step(w, slot)
    BY <1>3, IdleSlot, SetStep DEF EnsureRead
  <2> HIDE DEF slot
  <2>2. pipeline[w]' = slot
    BY <2>1 DEF Step, PInv, ParkedTypes
  <2>3. RunsFit(w)'
    BY <1>1, <2>1, <2>2 DEF RunsFit
  <2> QED
    BY <1>1, <2>1, <2>3, WorkerMoves
<1> QED
  BY <1>2, <1>3

LEMMA EnsureNumberParks ==
  ASSUME PInv, NEW w \in Workers, EnsureNumber(w)
  PROVE  PInv'
<1> DEFINE slot == [PipelineIdle EXCEPT !.step = "insert", !.run = LiveRun + 1]
<1>1. /\ pipeline[w].step = "number" /\ Busy(w) /\ Step(w, slot)
      /\ UNCHANGED <<scanVars, rows, merge, admin, claims>>
      /\ LiveRun' = LiveRun /\ LiveRun \in 0..MaxClaims /\ LiveRun < claims
      /\ claims' = claims
  BY SameRows, LiveRunIs DEF EnsureNumber, Busy, workVars, countVars, PInv, RunsFit
<1>2. LiveRun + 1 \in 0..MaxClaims
  BY <1>1, VolumeAssumption DEF PInv, ParkedTypes
<1>3. slot \in PipelineSlot /\ slot.step = "insert" /\ slot.run = LiveRun + 1 /\ ~slot.applied
  <2>1. PipelineIdle \in PipelineSlot /\ ~PipelineIdle.applied
    BY IdleSlot DEF PipelineIdle
  <2> QED
    BY <1>2, <2>1 DEF PipelineSlot
<1> HIDE DEF slot
<1>4. pipeline[w]' = slot
  BY <1>1 DEF Step, PInv, ParkedTypes
<1>5. RunsFit(w)'
  BY <1>1, <1>3, <1>4 DEF RunsFit
<1> QED
  BY <1>1, <1>3, <1>5, WorkerMoves

\* No other worker is there to have made the run.
LEMMA EnsureInsertParks ==
  ASSUME PInv, NEW w \in Workers, EnsureInsert(w)
  PROVE  PInv'
<1> SUFFICES ASSUME NEW n, n = LiveRun + 1 PROVE PInv'
  OBVIOUS
<1> DEFINE born == [s \in Shards |-> "open"]
           slot == [pipeline[w] EXCEPT !.step = "advance"]
<1>1. /\ pipeline[w].step = "insert" /\ pipeline[w].run = n /\ Busy(w)
      /\ LiveRun \in 0..MaxClaims /\ LiveRun < claims /\ claims \in 0..MaxClaims
  BY LiveRunIs DEF EnsureInsert, Busy, PInv, RunsFit, ParkedTypes
<1>2. n \in Runs /\ ~Made(n)
  BY <1>1, LiveRunIs, VolumeAssumption DEF Runs
<1>3. /\ rows' = [rows EXCEPT ![n] = born] /\ Step(w, slot)
      /\ UNCHANGED <<status, stamp, bitonal, merge, admin, claims>>
  BY <1>1, <1>2 DEF EnsureInsert, scanVars, countVars
<1>4. slot \in PipelineSlot /\ slot.step = "advance" /\ slot.applied = pipeline[w].applied
  BY SetStep DEF PInv, ParkedTypes
<1> HIDE DEF slot
<1>5. rows' \in [Runs -> [Shards -> RowState]] /\ rows'[n] = born
  BY <1>2, <1>3 DEF PInv, ParkedTypes, RowsType, RowState
<1>6. Made(n)' /\ \A m \in Runs : m # n => (Made(m)' <=> Made(m))
  <2>1. Made(n)'
    BY <1>5 DEF Made
  <2>2. \A m \in Runs : m # n => rows'[m] = rows[m]
    BY <1>3 DEF PInv, ParkedTypes, RowsType
  <2> QED
    BY <2>1, <2>2 DEF Made
<1>7. LiveRun' = n
  <2> DEFINE made == {m \in Runs : Made(m)'}
  <2>1. \A m \in Runs : Made(m)' => m <= n
    BY <1>1, <1>6, LiveRunIs DEF Runs
  <2>2. n \in made /\ made \subseteq 1..MaxClaims /\ \A m \in made : m <= n
    BY <1>2, <1>6, <2>1 DEF Runs
  <2>3. LiveRun' = Newest(made)
    BY DEF LiveRun, Runs
  <2> HIDE DEF made
  <2> QED
    BY <2>2, <2>3, NewestOnly, VolumeAssumption
<1>8. ~InRun(n, {"cancelled"})'
  BY <1>5 DEF InRun
<1>9. ParkedTypes'
  BY <1>1, <1>3, <1>4, <1>5, <1>7 DEF PInv, ParkedTypes, RowsType, Step
<1>10. OneHolder'
  BY <1>1, <1>3 DEF PInv, ParkedTypes, OneHolder, Busy, Step
<1>11. MergeFits' /\ ParkedFits'
  BY <1>1, <1>3, BusyMeansNoMerge DEF MergeFits, ParkedFits
<1>12. pipeline[w]' = slot
  BY <1>3 DEF Step, PInv, ParkedTypes
<1>13. RunsFit(w)'
  BY <1>1, <1>2, <1>4, <1>7, <1>8, <1>12, VolumeAssumption DEF RunsFit, PInv, Runs
<1>14. \A v \in Workers : v # w => ~Busy(v)'
  BY <1>1, <1>3 DEF PInv, ParkedTypes, OneHolder, Busy, Step
<1>15. \A v \in Workers : RunsFit(v)'
  BY <1>13, <1>14 DEF RunsFit, Busy
<1> QED
  BY <1>9, <1>10, <1>11, <1>15 DEF PInv

LEMMA AdvanceParks ==
  ASSUME PInv, NEW w \in Workers, Advance(w)
  PROVE  PInv'
<1>1. /\ pipeline[w].step = "advance" /\ Busy(w)
      /\ UNCHANGED <<stamp, bitonal, rows, merge, admin, claims>>
      /\ status \in {"processing", "queued", "interrupted"}
      /\ LiveRun # 0 /\ ~InRun(LiveRun, {"cancelled"})
      /\ pipeline[w].applied => AllIn(LiveRun, {"consumed"})
  BY DEF Advance, SwapStatus, workVars, countVars, Busy, PInv, OneHolder, RunsFit
<1>2. LiveRun' = LiveRun /\ \A n, S : (InRun(n, S)' <=> InRun(n, S)) /\ (AllIn(n, S)' <=> AllIn(n, S))
  BY <1>1, SameRows
<1>3. CASE status = "processing" \/ pipeline[w].applied
  <2>1. Step(w, PipelineIdle)
    BY <1>1, <1>3 DEF Advance
  <2>2. \/ status' = "validation" /\ pipeline[w].applied
        \/ status' = "awaiting"
        \/ status' = status
    BY DEF Advance, SwapStatus
  <2>3. ParkedFits'
    BY <1>1, <1>2, <2>2 DEF ParkedFits
  <2> QED
    BY <1>1, <2>1, <2>3, BusyMeansNoMerge, WorkerLeaves
<1>4. CASE ~(status = "processing" \/ pipeline[w].applied)
  <2> DEFINE slot == [pipeline[w] EXCEPT !.step = "abandon"]
  <2>1. Step(w, slot) /\ UNCHANGED <<scanVars, rows, merge, admin, claims>>
    BY <1>1, <1>4 DEF Advance, SwapStatus, scanVars
  <2>2. slot \in PipelineSlot /\ slot.step = "abandon"
    BY SetStep DEF PInv, ParkedTypes
  <2> HIDE DEF slot
  <2>3. pipeline[w]' = slot
    BY <2>1 DEF Step, PInv, ParkedTypes
  <2>4. RunsFit(w)'
    BY <2>2, <2>3 DEF RunsFit
  <2> QED
    BY <1>1, <2>1, <2>2, <2>4, WorkerMoves
<1> QED
  BY <1>3, <1>4

\* The rows go back while the scan is parked nowhere.
LEMMA AbandonLostParks ==
  ASSUME PInv, NEW w \in Workers, AbandonLost(w)
  PROVE  PInv'
<1>1. /\ Busy(w) /\ rows' = Abandoned /\ Step(w, PipelineIdle)
      /\ UNCHANGED <<status, stamp, bitonal, merge, admin, claims>>
  BY DEF AbandonLost, Busy, scanVars, countVars
<1>2. rows' \in [Runs -> [Shards -> RowState]]
  BY <1>1 DEF Abandoned, PInv, ParkedTypes, RowsType, RowState
<1>3. \A n \in Runs : Made(n)' <=> Made(n)
  BY <1>1 DEF Made, Abandoned
<1>4. LiveRun' = LiveRun
  BY <1>3, SameMade
<1>5. pipeline' = [pipeline EXCEPT ![w] = PipelineIdle]
  BY <1>1 DEF Step
<1>6. ParkedTypes'
  BY <1>1, <1>2, <1>4, <1>5, IdleSlot DEF PInv, ParkedTypes, RowsType
<1>7. \A v \in Workers : ~Busy(v)'
  BY <1>1, <1>5, IdleSlot DEF PInv, ParkedTypes, OneHolder, Busy
<1>8. OneHolder'
  BY <1>1, <1>7 DEF PInv, OneHolder
<1>9. MergeFits' /\ ParkedFits'
  BY <1>1, BusyMeansNoMerge DEF MergeFits, ParkedFits
<1>10. \A v \in Workers : RunsFit(v)'
  BY <1>7 DEF Busy, RunsFit
<1> QED
  BY <1>6, <1>8, <1>9, <1>10 DEF PInv

LEMMA RaiseParks ==
  ASSUME PInv, NEW w \in Workers, Raise(w)
  PROVE  PInv'
<1>1. /\ Busy(w) /\ Step(w, PipelineIdle)
      /\ UNCHANGED <<stamp, bitonal, rows, merge, admin, claims>>
      /\ status' \in {status, "error"}
  BY DEF Raise, SwapStatus, Busy, workVars, countVars
<1>2. ParkedFits' /\ merge.step \in {"idle", "delete"}
  BY <1>1, BusyMeansNoMerge DEF ParkedFits
<1> QED
  BY <1>1, <1>2, WorkerLeaves

\* A claim is taken away by a sweep that found it stale, so that nobody holds it, or
\* by the handler of the one worker there is.
LEMMA InterruptedParks ==
  ASSUME PInv, Interrupted, "sigterm" \in Events \/ \A w \in Workers : ~Busy(w)
  PROVE  PInv'
<1>1. /\ status = "processing" /\ status' \in {"queued", "interrupted"}
      /\ UNCHANGED <<stamp, bitonal, rows, pipeline, merge, admin, claims>>
  BY DEF Interrupted, workVars, countVars
<1>2. LiveRun' = LiveRun /\ \A n, S : (InRun(n, S)' <=> InRun(n, S)) /\ (AllIn(n, S)' <=> AllIn(n, S))
  BY <1>1, SameRows
<1>3. ParkedTypes' /\ MergeFits' /\ ParkedFits'
  BY <1>1, <1>2 DEF PInv, ParkedTypes, RowsType, MergeFits, ParkedFits
<1>4. OneHolder'
  BY <1>1 DEF PInv, OneHolder, Busy
<1>5. \A w \in Workers : RunsFit(w)'
  BY <1>1, <1>2 DEF PInv, RunsFit
<1> QED
  BY <1>3, <1>4, <1>5 DEF PInv

LEMMA LostClaimParks ==
  ASSUME PInv, NobodyMeets, RecoverStale \/ Sigterm
  PROVE  PInv'
<1>1. Interrupted
  BY DEF RecoverStale, Sigterm
<1>2. "sigterm" \in Events \/ \A w \in Workers : ~Busy(w)
  BY DEF RecoverStale, Sigterm, PInv, OneHolder
<1> QED
  BY <1>1, <1>2, InterruptedParks

LEMMA GrowsStaleParks ==
  ASSUME PInv, GrowsStale
  PROVE  PInv'
<1>1. /\ \A w \in Workers : ~Busy(w)
      /\ UNCHANGED <<status, bitonal, rows, pipeline, merge, admin, claims>>
  BY DEF GrowsStale, Beating, Busy, workVars, countVars
<1>2. LiveRun' = LiveRun /\ \A n, S : (InRun(n, S)' <=> InRun(n, S)) /\ (AllIn(n, S)' <=> AllIn(n, S))
  BY <1>1, SameRows
<1>3. ParkedTypes' /\ MergeFits' /\ ParkedFits'
  BY <1>1, <1>2 DEF PInv, ParkedTypes, RowsType, MergeFits, ParkedFits
<1>4. OneHolder' /\ \A w \in Workers : RunsFit(w)'
  BY <1>1, <1>2 DEF PInv, OneHolder, Busy, RunsFit
<1> QED
  BY <1>3, <1>4 DEF PInv

LEMMA KillParks ==
  ASSUME PInv, Kill
  PROVE  PInv'
<1>1. UNCHANGED <<status, stamp, bitonal, rows, admin, claims>>
  BY DEF Kill, scanVars, workVars
<1>2. LiveRun' = LiveRun /\ \A n, S : (InRun(n, S)' <=> InRun(n, S)) /\ (AllIn(n, S)' <=> AllIn(n, S))
  BY <1>1, SameRows
<1>3. ParkedFits'
  BY <1>1, <1>2 DEF PInv, ParkedFits
<1>4. ASSUME NEW w \in Workers, Busy(w), Step(w, PipelineIdle), UNCHANGED merge PROVE PInv'
  BY <1>1, <1>3, <1>4, BusyMeansNoMerge, WorkerLeaves
<1>5. ASSUME merge' = MergeIdle, UNCHANGED pipeline PROVE PInv'
  <2>1. MergeIdle \in MergeSlot /\ MergeIdle.step = "idle"
    BY VolumeAssumption DEF MergeIdle, MergeSlot
  <2>2. ParkedTypes' /\ MergeFits'
    BY <1>1, <1>2, <1>5, <2>1 DEF PInv, ParkedTypes, RowsType, MergeFits
  <2>3. OneHolder' /\ \A w \in Workers : RunsFit(w)'
    BY <1>1, <1>2, <1>5 DEF PInv, OneHolder, Busy, RunsFit
  <2> QED
    BY <1>3, <2>2, <2>3 DEF PInv
<1> QED
  BY <1>4, <1>5 DEF Kill, Busy

-----------------------------------------------------------------------------
(* The merge, and the rows that end.                                       *)

LEMMA MergeSlots ==
  ASSUME NEW m \in MergeSlot,
         NEW step \in {"idle", "picked", "download", "finish", "park", "fail", "delete"}
  PROVE  /\ [m EXCEPT !.step = step] \in MergeSlot
         /\ [m EXCEPT !.step = step].step = step
         /\ [m EXCEPT !.step = step].run = m.run
         /\ MergeIdle \in MergeSlot /\ MergeIdle.step = "idle"
BY VolumeAssumption DEF MergeSlot, MergeIdle

\* The merge takes a step and the scan stays where it is.
LEMMA MergeMoves ==
  ASSUME PInv, merge' \in MergeSlot, UNCHANGED <<scanVars, rows, pipeline, admin, claims>>,
         MergeFits'
  PROVE  PInv'
<1>1. UNCHANGED <<status, stamp, bitonal, rows, pipeline, admin, claims>>
  BY DEF scanVars
<1>2. LiveRun' = LiveRun /\ \A n, S : (InRun(n, S)' <=> InRun(n, S)) /\ (AllIn(n, S)' <=> AllIn(n, S))
  BY <1>1, SameRows
<1>3. ParkedTypes' /\ ParkedFits'
  BY <1>1, <1>2 DEF PInv, ParkedTypes, RowsType, ParkedFits
<1>4. OneHolder' /\ \A w \in Workers : RunsFit(w)'
  BY <1>1, <1>2 DEF PInv, OneHolder, Busy, RunsFit
<1> QED
  BY <1>3, <1>4 DEF PInv

\* A run without an open or a dead row that was made is converted.
LEMMA ConvertedRun ==
  ASSUME PInv, LiveRun # 0, ~InRun(LiveRun, {"open"}), ~InRun(LiveRun, DeadRow)
  PROVE  AllIn(LiveRun, {"completed", "consumed"})
<1>1. LiveRun \in Runs /\ Made(LiveRun)
  BY LiveRunIs
<1>2. \A s \in Shards : rows[LiveRun][s] \in RowState
  BY <1>1 DEF PInv, ParkedTypes, RowsType
<1> QED
  BY <1>1, <1>2 DEF InRun, AllIn, Made, RowState, DeadRow

LEMMA MergeReadParks ==
  ASSUME PInv, MergeRead
  PROVE  PInv'
<1>1. /\ merge.step = "picked" /\ status = "awaiting"
      /\ UNCHANGED <<scanVars, rows, pipeline, admin, claims>> /\ status' = status
      /\ LiveRun # 0 /\ LiveRun \in 0..MaxClaims
      /\ merge' = [step |-> Verdict(LiveRun),
                   run  |-> IF Verdict(LiveRun) = "idle" THEN 0 ELSE LiveRun]
  BY LiveRunIs DEF MergeRead, workVars, countVars, scanVars, PInv, MergeFits, ParkedFits
<1>2. LiveRun' = LiveRun /\ \A n, S : (InRun(n, S)' <=> InRun(n, S)) /\ (AllIn(n, S)' <=> AllIn(n, S))
  BY <1>1, SameRows
<1>3. /\ Verdict(LiveRun) \in {"idle", "park", "fail", "download"}
      /\ Verdict(LiveRun) = "park" => AllIn(LiveRun, {"consumed"})
      /\ Verdict(LiveRun) = "download" => AllIn(LiveRun, {"completed", "consumed"})
  BY <1>1, ConvertedRun DEF Verdict
<1>4. merge' \in MergeSlot
  BY <1>1, <1>3, VolumeAssumption DEF MergeSlot
<1>5. MergeFits'
  BY <1>1, <1>2, <1>3 DEF MergeFits
<1> QED
  BY <1>1, <1>4, <1>5, MergeMoves

LEMMA MergePickParks == ASSUME PInv, MergePick PROVE PInv'
<1>1. /\ status = "awaiting" /\ status' = status
      /\ UNCHANGED <<scanVars, rows, pipeline, admin, claims>>
      /\ merge' = [merge EXCEPT !.step = "picked"]
  BY DEF MergePick, MergeStep, workVars, countVars, scanVars
<1>2. merge' \in MergeSlot /\ merge'.step = "picked"
  BY <1>1, MergeSlots DEF PInv, ParkedTypes
<1>3. MergeFits'
  BY <1>1, <1>2 DEF MergeFits
<1> QED
  BY <1>1, <1>2, <1>3, MergeMoves

LEMMA DownloadParks == ASSUME PInv, Download PROVE PInv'
<1>1. /\ merge.step = "download"
      /\ UNCHANGED <<scanVars, rows, pipeline, admin, claims>> /\ status' = status
      /\ \/ merge' = [merge EXCEPT !.step = "finish"]
         \/ merge' = [merge EXCEPT !.step = "fail"]
  BY DEF Download, MergeStep, workVars, countVars, scanVars
<1>2. merge' \in MergeSlot /\ merge'.step \in {"finish", "fail"} /\ merge'.run = merge.run
  <2>1. merge \in MergeSlot
    BY DEF PInv, ParkedTypes
  <2>2. CASE merge' = [merge EXCEPT !.step = "finish"]
    BY <2>1, <2>2, MergeSlots
  <2>3. CASE merge' = [merge EXCEPT !.step = "fail"]
    BY <2>1, <2>3, MergeSlots
  <2> QED
    BY <1>1, <2>2, <2>3
<1>3. LiveRun' = LiveRun /\ \A n, S : AllIn(n, S)' <=> AllIn(n, S)
  BY <1>1, SameRows
<1>4. MergeFits'
  BY <1>1, <1>2, <1>3 DEF MergeFits, PInv
<1> QED
  BY <1>1, <1>2, <1>4, MergeMoves

LEMMA DeleteParks == ASSUME PInv, Delete PROVE PInv'
<1>1. UNCHANGED <<scanVars, rows, pipeline, admin, claims>> /\ merge' = MergeIdle
  BY DEF Delete, countVars
<1>2. merge' \in MergeSlot /\ MergeFits'
  BY <1>1, MergeSlots DEF MergeFits, PInv, ParkedTypes
<1> QED
  BY <1>1, <1>2, MergeMoves

\* Only an awaiting scan is parked: nobody is inside the pipeline.
LEMMA AwaitingMeansNobody ==
  ASSUME PInv, status = "awaiting"
  PROVE  \A w \in Workers : ~Busy(w)
BY DEF PInv, OneHolder

LEMMA ParkParks == ASSUME PInv, Park PROVE PInv'
<1>1. /\ merge.step \in {"park", "fail"} /\ status = "awaiting" /\ merge' = MergeIdle
      /\ UNCHANGED <<stamp, bitonal, rows, pipeline, admin, claims>>
      /\ \/ status' = "validation" /\ merge.step = "park"
         \/ status' = "error"
  BY DEF Park, SwapStatus, workVars, countVars, PInv, MergeFits
<1>2. LiveRun' = LiveRun /\ \A n, S : (InRun(n, S)' <=> InRun(n, S)) /\ (AllIn(n, S)' <=> AllIn(n, S))
  BY <1>1, SameRows
<1>3. \A w \in Workers : ~Busy(w) /\ ~Busy(w)'
  BY <1>1, AwaitingMeansNobody DEF Busy
<1>4. merge' \in MergeSlot /\ MergeFits'
  BY <1>1, MergeSlots DEF MergeFits, PInv, ParkedTypes
<1>5. ParkedTypes' /\ OneHolder' /\ \A w \in Workers : RunsFit(w)'
  BY <1>1, <1>2, <1>3, <1>4 DEF PInv, ParkedTypes, RowsType, OneHolder, RunsFit, Busy
<1>6. ParkedFits'
  BY <1>1, <1>2 DEF ParkedFits, PInv, MergeFits
<1> QED
  BY <1>4, <1>5, <1>6 DEF PInv

LEMMA FinishParks == ASSUME PInv, Finish PROVE PInv'
<1> SUFFICES ASSUME NEW n, n = merge.run PROVE PInv'
  OBVIOUS
<1> DEFINE end == [s \in Shards |-> IF rows[n][s] = "completed" THEN "consumed" ELSE rows[n][s]]
<1>1. /\ status = "awaiting" /\ n = LiveRun /\ AllIn(n, {"completed", "consumed"})
      /\ n \in Runs /\ Made(n)
  BY LiveRunIs DEF Finish, PInv, MergeFits, ParkedFits
<1>2. /\ rows' = [rows EXCEPT ![n] = end] /\ status' = "validation"
      /\ merge' = [merge EXCEPT !.step = "delete"]
      /\ UNCHANGED <<stamp, bitonal, pipeline, admin, claims>>
  BY <1>1 DEF Finish, SwapStatus, MergeStep, countVars
<1>3. \A s \in Shards : end[s] = "consumed"
  BY <1>1 DEF AllIn
<1> HIDE DEF end
<1>4. end \in [Shards -> RowState]
  BY <1>1 DEF end, RowState, PInv, ParkedTypes, RowsType
<1>5. rows' \in [Runs -> [Shards -> RowState]] /\ rows'[n] = end
  BY <1>1, <1>2, <1>4 DEF PInv, ParkedTypes, RowsType
<1>6. \A m \in Runs : m # n => rows'[m] = rows[m]
  BY <1>2 DEF PInv, ParkedTypes, RowsType
<1>7. \A m \in Runs : Made(m)' <=> Made(m)
  BY <1>1, <1>3, <1>5, <1>6 DEF Made
<1>8. LiveRun' = LiveRun /\ AllIn(n, {"consumed"})'
  BY <1>3, <1>5, <1>7, SameMade DEF AllIn
<1>9. \A w \in Workers : ~Busy(w) /\ ~Busy(w)'
  BY <1>1, <1>2, AwaitingMeansNobody DEF Busy
<1>10. merge' \in MergeSlot /\ MergeFits'
  BY <1>2, MergeSlots DEF MergeFits, PInv, ParkedTypes
<1>11. ParkedTypes' /\ OneHolder' /\ \A w \in Workers : RunsFit(w)'
  BY <1>2, <1>5, <1>8, <1>9, <1>10 DEF PInv, ParkedTypes, RowsType, OneHolder, RunsFit, Busy
<1>12. ParkedFits'
  <2>1. LiveRun' = n /\ n # 0
    BY <1>1, <1>8 DEF Runs
  <2>2. AllIn(LiveRun, {"consumed"})'
    BY <1>8, <2>1 DEF AllIn
  <2> QED
    BY <1>2, <2>1, <2>2 DEF ParkedFits
<1> QED
  BY <1>10, <1>11, <1>12 DEF PInv

\* A row ends: no run is made by it, none is cancelled, and no merged row is touched.
LEMMA SetRowParks ==
  ASSUME PInv, NEW n \in Runs, NEW s \in Shards, NEW to \in {"completed", "failed"},
         SetRow(n, s, to)
  PROVE  PInv'
<1>1. /\ rows[n][s] = "open" /\ rows' = [rows EXCEPT ![n][s] = to]
      /\ UNCHANGED <<status, stamp, bitonal, pipeline, merge, admin, claims>>
  BY DEF SetRow, scanVars, countVars
<1>2. rows' \in [Runs -> [Shards -> RowState]]
  BY <1>1 DEF PInv, ParkedTypes, RowsType, RowState
<1>3. \A m \in Runs, t \in Shards :
        rows'[m][t] = rows[m][t] \/ (rows[m][t] = "open" /\ rows'[m][t] \in {"completed", "failed"})
  BY <1>1 DEF PInv, ParkedTypes, RowsType
<1>4. \A m \in Runs : Made(m)' <=> Made(m)
  BY <1>3 DEF Made
<1>5. LiveRun' = LiveRun
  BY <1>4, SameMade
<1>6. LiveRun # 0 =>
        /\ ~InRun(LiveRun, {"cancelled"}) => ~InRun(LiveRun, {"cancelled"})'
        /\ AllIn(LiveRun, {"consumed"}) => AllIn(LiveRun, {"consumed"})'
        /\ AllIn(LiveRun, {"completed", "consumed"}) => AllIn(LiveRun, {"completed", "consumed"})'
  BY <1>3, <1>5, LiveRunIs DEF InRun, AllIn
<1>7. ParkedTypes' /\ OneHolder'
  BY <1>1, <1>2, <1>5 DEF PInv, ParkedTypes, RowsType, OneHolder, Busy
<1>8. MergeFits' /\ ParkedFits'
  BY <1>1, <1>5, <1>6 DEF PInv, MergeFits, ParkedFits
<1>9. \A w \in Workers : RunsFit(w)'
  BY <1>1, <1>5, <1>6 DEF PInv, RunsFit
<1> QED
  BY <1>7, <1>8, <1>9 DEF PInv

-----------------------------------------------------------------------------
LEMMA InitParks == NobodyMeets /\ Init => PInv
<1> SUFFICES ASSUME Init PROVE PInv
  OBVIOUS
<1>1. \A n \in Runs : ~Made(n)
  BY VolumeAssumption DEF Init, Made
<1>2. LiveRun = 0
  BY <1>1, LiveRunIs
<1>3. PipelineIdle \in PipelineSlot /\ MergeIdle \in MergeSlot
  BY VolumeAssumption DEF PipelineIdle, PipelineSlot, MergeIdle, MergeSlot
<1>4. ParkedTypes
  BY <1>2, <1>3, VolumeAssumption DEF Init, ParkedTypes, RowsType, RowState
<1>5. \A w \in Workers : ~Busy(w)
  BY IdleSlot DEF Init, Busy
<1>6. OneHolder /\ \A w \in Workers : RunsFit(w)
  BY <1>5 DEF Init, OneHolder, RunsFit, Busy
<1>7. MergeFits /\ ParkedFits
  BY DEF Init, MergeFits, ParkedFits, MergeIdle
<1> QED
  BY <1>4, <1>6, <1>7 DEF PInv

LEMMA NextParks == NobodyMeets /\ PInv /\ [Next]_vars => PInv'
<1> SUFFICES ASSUME NobodyMeets, PInv, [Next]_vars PROVE PInv'
  OBVIOUS
<1>1. ASSUME NEW w \in Workers, Claim(w) \/ WorkerNext(w) \/ Raise(w) PROVE PInv'
  BY <1>1, ClaimParks, ParkUnconvertedParks, EnsureReadParks, EnsureNumberParks,
     EnsureInsertParks, AdvanceParks, AbandonLostParks, RaiseParks DEF WorkerNext
<1>2. ASSUME RecoverStale \/ Sigterm PROVE PInv'
  BY <1>2, LostClaimParks
<1>3. ASSUME GrowsStale \/ Kill PROVE PInv'
  BY <1>3, GrowsStaleParks, KillParks
<1>4. ASSUME AdminNext PROVE PInv'
  BY <1>4 DEF AdminNext, AdminPick, AdminAbandon, AdminUpdate, NobodyMeets, PInv, OneHolder
<1>5. ASSUME MergeNext PROVE PInv'
  BY <1>5, MergePickParks, MergeReadParks, DownloadParks, ParkParks, FinishParks, DeleteParks
     DEF MergeNext
<1>6. ASSUME NEW n \in Runs, NEW s \in Shards, Converts(n, s) \/ ConvertFails(n, s) PROVE PInv'
  BY <1>6, SetRowParks DEF Converts, ConvertFails
<1>7. ASSUME UNCHANGED vars PROVE PInv'
  <2>1. merge' = merge /\ UNCHANGED <<scanVars, rows, pipeline, admin, claims>>
    BY <1>7 DEF vars, workVars, countVars
  <2>2. UNCHANGED <<status, rows>>
    BY <2>1 DEF scanVars
  <2>3. MergeFits'
    BY <2>1, <2>2, SameRows DEF PInv, MergeFits
  <2> QED
    BY <2>1, <2>3, MergeMoves DEF PInv, ParkedTypes
<1> QED
  BY <1>1, <1>2, <1>3, <1>4, <1>5, <1>6, <1>7 DEF Next

\* A parked volume waits for a run that nobody cancels under it, and was handed on
\* with a run that was merged: wherever no admin re-queues it in between, and either
\* one worker runs or no handler takes a claim from a pipeline that goes on
\* (_advance_scan, abandon_open, _finish_scan).
THEOREM ParkedStaysWhole == NobodyMeets /\ Spec => []ParkedIsWhole
<1>1. NobodyMeets /\ Init => PInv
  BY InitParks
<1>2. NobodyMeets /\ PInv /\ [Next]_vars => PInv'
  BY NextParks
<1>3. PInv => ParkedIsWhole
  BY DEF PInv, ParkedFits, ParkedIsWhole, AwaitedRunIsWhole, ValidatedRunIsConsumed
<1>4. NobodyMeets => NobodyMeets'
  BY DEF NobodyMeets
<1> QED
  BY <1>1, <1>2, <1>3, <1>4, PTL DEF Spec

-----------------------------------------------------------------------------
(* The read implements the conversion.                                    *)

LEMMA ReadStepsArePipelineSteps == [ReadsNext]_allVars => [Next]_vars
<1> SUFFICES ASSUME [ReadsNext]_allVars PROVE [Next]_vars
  OBVIOUS
<1>1. ASSUME NEW w \in Workers, VolumeWorker(w) PROVE [Next]_vars
  BY <1>1 DEF VolumeWorker, ClaimVolume, Converting, Parking, HandBack, AbandonReads, Raises,
              Next, WorkerNext
<1>2. ASSUME VolumeRest PROVE [Next]_vars
  BY <1>2 DEF VolumeRest, Volume, Ages, Dies, Next
<1>3. ASSUME NEW c \in Creators, Ensures(c) PROVE UNCHANGED vars
  BY <1>3 DEF Ensures, EnsureJudge, EnsureCarry, InsertRead
<1>4. ASSUME Starts \/ SwitchedOn PROVE UNCHANGED vars
  BY <1>4 DEF Starts, SweepStarts, ButtonStarts, RereadStarts, SwitchedOn
<1>5. ASSUME NEW n \in ReadRuns, NEW s \in Parts, ReadEnds(n, s) \/ ReadFails(n, s)
      PROVE  UNCHANGED vars
  BY <1>5 DEF ReadEnds, ReadFails, SetRead
<1>6. ASSUME Pass PROVE UNCHANGED vars
  BY <1>6 DEF Pass, GluePick, Glue, ConsumeRun, ApplyPick, SaveNumbers, OpenReview, StampApplied
<1>7. ASSUME ReopenApply \/ ApprovePages PROVE UNCHANGED vars
  BY <1>7 DEF ReopenApply, ApprovePages
<1>8. ASSUME UNCHANGED allVars PROVE UNCHANGED vars
  BY <1>8 DEF allVars
<1> QED
  BY <1>1, <1>2, <1>3, <1>4, <1>5, <1>6, <1>7, <1>8 DEF ReadsNext

\* The composition implements the conversion alone: the read never takes a step of
\* its own on the scan's status, claims, rows or files (ensure_run_jobs, apply.py).
THEOREM ReadsImplementPipeline == ReadsSpec => Spec
<1>1. ReadsInit => Init
  BY DEF ReadsInit
<1> QED
  BY <1>1, ReadStepsArePipelineSteps, PTL DEF ReadsSpec, Spec

\* So a parked volume stays whole whatever the read does meanwhile.
THEOREM ParkedStaysWholeWithReads == NobodyMeets /\ ReadsSpec => []ParkedIsWhole
BY ReadsImplementPipeline, ParkedStaysWhole

-----------------------------------------------------------------------------
(* The invariant.                                                          *)

CreatorSlot == [step : {"idle", "judge", "number", "insert", "held", "skipped", "abandon"},
                run : Nat, carried : Carried, unseen : SUBSET Parts]
PassSlot    == [step : {"idle", "merge", "consume", "read", "edge", "stamp"},
                run : 0..MaxReads, opened : BOOLEAN]
LedgerRow   == [glues : Nat, applies : Nat, applied : BOOLEAN]
ReadsFit    == reads \in [ReadRuns -> [Parts -> ReadRow]]

ReadsTypes ==
  /\ ReadsFit
  /\ creator \in [Creators -> CreatorSlot] /\ pass \in PassSlot
  /\ ledger \in [ReadRuns -> LedgerRow]
  /\ numbers \in 0..MaxReads

\* A hole is one of a part the worker cannot read, and of a row that has a result.
RowTells(s, row) ==
  /\ row.status \in HasRead => (row.hole <=> s \in Hard)
  /\ row.told => row.hole
  /\ row.hole => row.status \in HasRead

RowsTell == \A n \in ReadRuns, s \in Parts : RowTells(s, reads[n][s])

Stored == \A n \in ReadRuns, s \in Parts : <<n, s>> \in objects => Status(n, s) \in HasRead

CarriesFit(c) ==
  creator[c].step = "insert" =>
    \A s \in Parts : creator[c].carried[s] # 0 =>
      creator[c].carried[s] \in ReadRuns /\ Status(creator[c].carried[s], s) \in HasRead

PassFits ==
  /\ pass.step # "idle" => pass.run \in ReadRuns /\ ReadIs(pass.run, HasRead)
  /\ pass.step \in {"read", "edge", "stamp"} =>
       /\ ReadIs(pass.run, {"consumed"})
       /\ LiveRead # 0 => ~ledger[LiveRead].applied
  /\ pass.step \in {"edge", "stamp"} => numbers = pass.run

NumbersFit ==
  /\ numbers # 0 => ReadIs(numbers, {"consumed"})
  /\ review # "none" => numbers # 0
  /\ LiveRead # 0 /\ ledger[LiveRead].applied => numbers = LiveRead
  /\ \A n \in ReadRuns : ledger[n].applied => ReadIs(n, {"consumed"})

RInv ==
  /\ ReadsTypes /\ RowsTell /\ Stored /\ PassFits /\ NumbersFit
  /\ \A c \in Creators : CarriesFit(c)

-----------------------------------------------------------------------------
(* The live read and the slots.                                            *)

LEMMA ReadBounds == MaxReads \in Nat /\ ReadRuns = 1..MaxReads /\ 0 \notin ReadRuns
BY VolumeAssumption, ReadsAssumption DEF MaxReads, ReadRuns

LEMMA LiveReadIsNewest ==
  /\ LiveRead \in 0..MaxReads
  /\ LiveRead # 0 => LiveRead \in StartedReads /\ LiveRead \in ReadRuns
  /\ \A n \in StartedReads : n <= LiveRead /\ LiveRead # 0
<1>1. StartedReads \subseteq 1..MaxReads /\ MaxReads \in Nat
  BY ReadBounds DEF StartedReads
<1>2. /\ Newest(StartedReads) \in 0..MaxReads
      /\ StartedReads = {} => Newest(StartedReads) = 0
      /\ StartedReads # {} => /\ Newest(StartedReads) \in StartedReads
                              /\ \A m \in StartedReads : m <= Newest(StartedReads)
  BY <1>1, NewestIs
<1> QED
  BY <1>1, <1>2, ReadBounds DEF LiveRead

LEMMA ConsumedIsStarted ==
  ASSUME NEW n \in ReadRuns, ReadIs(n, {"consumed"})
  PROVE  n \in StartedReads
BY ReadsAssumption DEF StartedReads, ReadIs

LEMMA SameReads ==
  ASSUME reads' = reads
  PROVE  /\ LiveRead' = LiveRead /\ StartedReads' = StartedReads
         /\ \A n, s : Status(n, s)' = Status(n, s)
         /\ \A n, S : ReadIs(n, S)' <=> ReadIs(n, S)
BY DEF LiveRead, StartedReads, Status, ReadIs, Newest, ReadRuns

LEMMA CreatorIdleFits == CreatorIdle \in CreatorSlot /\ CreatorIdle.step = "idle"
BY ReadBounds DEF CreatorIdle, CreatorSlot, NotCarried, Carried

LEMMA CreatorSteps ==
  ASSUME NEW slot \in CreatorSlot,
         NEW step \in {"idle", "judge", "number", "held", "skipped", "abandon"}
  PROVE  [slot EXCEPT !.step = step] \in CreatorSlot /\ [slot EXCEPT !.step = step].step = step
BY DEF CreatorSlot

LEMMA HandedFits ==
  ASSUME NEW c \in Creators
  PROVE  Handed(c) \in CreatorSlot /\ Handed(c).step \in {"idle", "held"}
BY CreatorIdleFits, CreatorSteps DEF Handed

LEMMA PassIdleFits == PassIdle \in PassSlot /\ PassIdle.step = "idle"
BY ReadBounds DEF PassIdle, PassSlot

LEMMA PassSteps ==
  ASSUME NEW slot \in PassSlot,
         NEW step \in {"idle", "merge", "consume", "read", "edge", "stamp"}
  PROVE  /\ [slot EXCEPT !.step = step] \in PassSlot
         /\ [slot EXCEPT !.step = step].step = step
         /\ [slot EXCEPT !.step = step].run = slot.run
BY DEF PassSlot

LEMMA PassPicks ==
  ASSUME NEW n \in ReadRuns,
         NEW step \in {"merge", "consume", "read", "edge", "stamp"}, Passes(step, n)
  PROVE  pass' \in PassSlot /\ pass'.step = step /\ pass'.run = n
<1> DEFINE slot == [PassIdle EXCEPT !.step = step]
<1>1. slot \in PassSlot /\ slot.step = step
  BY PassIdleFits DEF PassSlot
<1>2. pass' = [slot EXCEPT !.run = n]
  BY DEF Passes
<1> HIDE DEF slot
<1> QED
  BY <1>1, <1>2, ReadBounds DEF PassSlot

-----------------------------------------------------------------------------
(* Steps that leave the rows of the read alone.                            *)

\* A creator goes on, or is killed; the tick that glues may be killed.  No row moves,
\* no review is opened.
LEMMA CreatorQuiet ==
  ASSUME RInv, UNCHANGED <<reads, objects, ledger, numbers>>,
         pass' = pass \/ pass' = PassIdle,
         review' # "none" => review # "none",
         creator' \in [Creators -> CreatorSlot], \A c \in Creators : CarriesFit(c)'
  PROVE  RInv'
<1>1. /\ LiveRead' = LiveRead /\ \A n, s : Status(n, s)' = Status(n, s)
      /\ \A n, S : ReadIs(n, S)' <=> ReadIs(n, S)
  BY SameReads
<1>2. ReadsTypes'
  BY PassIdleFits DEF RInv, ReadsTypes, ReadsFit
<1>3. RowsTell' /\ Stored'
  BY <1>1 DEF RInv, RowsTell, Stored, RowTells
<1>4. PassFits'
  <2>1. CASE pass' = pass
    BY <1>1, <2>1 DEF RInv, PassFits
  <2>2. CASE pass' = PassIdle
    BY <2>2, PassIdleFits DEF PassFits
  <2> QED
    BY <2>1, <2>2
<1>5. NumbersFit'
  BY <1>1 DEF RInv, NumbersFit
<1> QED
  BY <1>2, <1>3, <1>4, <1>5 DEF RInv

\* A creator takes a step that decides nothing.
LEMMA CreatorMoves ==
  ASSUME RInv, NEW c \in Creators, NEW slot \in CreatorSlot, slot.step # "insert",
         Creates(c, slot), UNCHANGED <<reads, objects, ledger, numbers, review, pass>>
  PROVE  RInv'
<1>1. creator' = [creator EXCEPT ![c] = slot] /\ creator \in [Creators -> CreatorSlot]
  BY DEF Creates, RInv, ReadsTypes
<1>2. creator' \in [Creators -> CreatorSlot] /\ creator'[c] = slot
  BY <1>1
<1>3. \A d \in Creators : d # c => creator'[d] = creator[d]
  BY <1>1
<1>4. \A n, s : Status(n, s)' = Status(n, s)
  BY SameReads
<1>5. ASSUME NEW d \in Creators PROVE CarriesFit(d)'
  BY <1>2, <1>3, <1>4 DEF CarriesFit, RInv
<1> QED
  BY <1>2, <1>5, CreatorQuiet

LEMMA CreatorsStay ==
  ASSUME RInv, UNCHANGED <<reads, objects, ledger, numbers, creator>>,
         pass' = pass \/ pass' = PassIdle,
         review' # "none" => review # "none"
  PROVE  RInv'
<1>1. \A n, s : Status(n, s)' = Status(n, s)
  BY SameReads
<1>2. \A c \in Creators : CarriesFit(c)'
  BY <1>1 DEF CarriesFit, RInv
<1> QED
  BY <1>2, CreatorQuiet DEF RInv, ReadsTypes

LEMMA ReusableIs ==
  ASSUME NEW s \in Parts
  PROVE  /\ Newest(PriorResults(s)) \in 0..MaxReads
         /\ Newest(PriorResults(s)) # 0 => Newest(PriorResults(s)) \in PriorResults(s)
         /\ PriorResults(s) # {} => Newest(PriorResults(s)) # 0
<1>1. PriorResults(s) \subseteq 1..MaxReads /\ MaxReads \in Nat
  BY ReadBounds DEF PriorResults
<1>2. /\ Newest(PriorResults(s)) \in 0..MaxReads
      /\ PriorResults(s) = {} => Newest(PriorResults(s)) = 0
      /\ PriorResults(s) # {} => Newest(PriorResults(s)) \in PriorResults(s)
  BY <1>1, NewestIs
<1> QED
  BY <1>1, <1>2

LEMMA EnsureJudgeStep == ASSUME RInv, NEW c \in Creators, EnsureJudge(c) PROVE RInv'
<1>1. /\ UNCHANGED <<reads, objects, ledger, numbers, review, pass>>
      /\ \/ Creates(c, [CreatorIdle EXCEPT !.step = "skipped"])
         \/ Creates(c, Handed(c))
         \/ Creates(c, [CreatorIdle EXCEPT !.step = "number"])
  BY DEF EnsureJudge, runVars, reviewVars
<1> QED
  BY <1>1, CreatorMoves, CreatorIdleFits, CreatorSteps, HandedFits

\* What a creator carries has a result when it decides.
LEMMA EnsureCarryStep == ASSUME RInv, NEW c \in Creators, EnsureCarry(c) PROVE RInv'
<1>0. PICK unseen \in SUBSET Parts :
        Creates(c, [step |-> "insert", run |-> LiveRead + 1,
                    carried |-> ReusableResults(unseen), unseen |-> unseen])
  BY DEF EnsureCarry
<1> DEFINE carried == ReusableResults(unseen)
           slot == [step |-> "insert", run |-> LiveRead + 1, carried |-> carried,
                    unseen |-> unseen]
<1>1. /\ creator' = [creator EXCEPT ![c] = slot] /\ creator \in [Creators -> CreatorSlot]
      /\ UNCHANGED <<reads, objects, ledger, numbers, review, pass>>
  BY <1>0 DEF EnsureCarry, Creates, RInv, ReadsTypes, runVars, reviewVars
<1>2. carried \in Carried
  BY ReusableIs, ReadBounds DEF Carried, ReusableResults
<1>3. slot \in CreatorSlot
  BY <1>0, <1>2, LiveReadIsNewest DEF CreatorSlot
<1>4. \A s \in Parts : carried[s] # 0 => carried[s] \in ReadRuns /\ Status(carried[s], s) \in HasRead
  BY ReusableIs DEF PriorResults, ReusableResults
<1>5. slot.carried = carried
  OBVIOUS
<1> HIDE DEF carried, slot
<1>6. creator' \in [Creators -> CreatorSlot] /\ creator'[c] = slot
  BY <1>1, <1>3
<1>7. \A d \in Creators : d # c => creator'[d] = creator[d]
  BY <1>1
<1>8. \A n, s : Status(n, s)' = Status(n, s)
  BY <1>1, SameReads
<1>9. ASSUME NEW d \in Creators PROVE CarriesFit(d)'
  <2>1. CASE d = c
    BY <1>4, <1>5, <1>6, <1>8, <2>1 DEF CarriesFit
  <2>2. CASE d # c
    BY <1>7, <1>8, <2>2 DEF CarriesFit, RInv
  <2> QED
    BY <2>1, <2>2
<1> QED
  BY <1>1, <1>6, <1>9, CreatorQuiet
-----------------------------------------------------------------------------
(* Steps that move the rows of the read.                                   *)

\* What may become of a row that was made: an open one ends, and one that has a
\* result keeps it, told or not.
RowMoves(s, from, to) ==
  \/ to = from
  \/ /\ from.status = "open" /\ to \in ReadRow /\ RowTells(s, to)
     /\ to.status \notin {"none", "open"}
  \/ /\ from.status \in HasRead /\ to \in ReadRow
     /\ to.status \in HasRead /\ to.hole = from.hole /\ (to.told => to.hole)
     /\ from.status = "consumed" => to.status = "consumed"

RowsMove ==
  /\ reads' \in [ReadRuns -> [Parts -> ReadRow]]
  /\ \A n \in ReadRuns, s \in Parts : RowMoves(s, reads[n][s], reads'[n][s])

LEMMA MovedRows ==
  ASSUME RowsTell, RowsMove
  PROVE  /\ RowsTell'
         /\ LiveRead' = LiveRead
         /\ \A n \in ReadRuns, s \in Parts : Status(n, s) \in HasRead => Status(n, s)' \in HasRead
         /\ \A n \in ReadRuns : ReadIs(n, HasRead) => ReadIs(n, HasRead)'
         /\ \A n \in ReadRuns : ReadIs(n, {"consumed"}) => ReadIs(n, {"consumed"})'
<1>1. \A n \in ReadRuns, s \in Parts : RowMoves(s, reads[n][s], reads'[n][s])
  BY DEF RowsMove
<1>2. \A n \in ReadRuns, s \in Parts : RowTells(s, reads[n][s])
  BY DEF RowsTell
<1>3. \A n \in ReadRuns, s \in Parts : RowTells(s, reads'[n][s])
  BY <1>1, <1>2 DEF RowMoves, RowTells
<1>4. \A n \in ReadRuns, s \in Parts :
        /\ Status(n, s)' = "none" <=> Status(n, s) = "none"
        /\ Status(n, s) \in HasRead => Status(n, s)' \in HasRead
        /\ Status(n, s) = "consumed" => Status(n, s)' = "consumed"
  BY <1>1 DEF RowMoves, Status, HasRead
<1>5. \A n \in ReadRuns : ReadIs(n, {"none"})' <=> ReadIs(n, {"none"})
  BY <1>4 DEF ReadIs
<1>6. StartedReads' = StartedReads
  BY <1>5 DEF StartedReads, ReadRuns, MaxReads
<1>7. LiveRead' = LiveRead
  BY <1>6 DEF LiveRead, Newest
<1>8. RowsTell'
  BY <1>3 DEF RowsTell, ReadRuns, MaxReads, RowTells
<1> QED
  BY <1>4, <1>7, <1>8 DEF ReadIs

LEMMA RowsMoveKeeps ==
  ASSUME RInv, RowsMove, UNCHANGED <<numbers, review>>,
         creator' \in [Creators -> CreatorSlot],
         \A c \in Creators : creator'[c] = creator[c] \/ creator'[c].step # "insert",
         \A n \in ReadRuns, s \in Parts : <<n, s>> \in objects' =>
           <<n, s>> \in objects \/ Status(n, s)' \in HasRead,
         ledger' \in [ReadRuns -> LedgerRow],
         \A n \in ReadRuns : ledger'[n].applied = ledger[n].applied,
         pass' \in PassSlot,
         pass'.step # "idle" => pass'.run = pass.run /\ pass.step # "idle",
         pass'.step \in {"read", "edge", "stamp"} => pass' = pass
  PROVE  RInv'
<1>1. /\ RowsTell'
      /\ LiveRead' = LiveRead
      /\ \A n \in ReadRuns, s \in Parts : Status(n, s) \in HasRead => Status(n, s)' \in HasRead
      /\ \A n \in ReadRuns : ReadIs(n, HasRead) => ReadIs(n, HasRead)'
      /\ \A n \in ReadRuns : ReadIs(n, {"consumed"}) => ReadIs(n, {"consumed"})'
  BY MovedRows DEF RInv
<1>2. ReadRuns' = ReadRuns /\ HasRead' = HasRead
  BY DEF ReadRuns, MaxReads, HasRead
<1>3. ReadsTypes'
  BY DEF RInv, ReadsTypes, ReadsFit, RowsMove
<1>4. Stored'
  BY <1>1, <1>2 DEF RInv, Stored
<1>5. \A c \in Creators : CarriesFit(c)'
  BY <1>1, <1>2 DEF RInv, CarriesFit
<1>6. \A n \in ReadRuns : ledger[n].applied \in BOOLEAN
  BY DEF RInv, ReadsTypes, LedgerRow
<1>7. PassFits'
  <2>1. pass'.step # "idle" => pass'.run \in ReadRuns /\ ReadIs(pass.run, HasRead)'
    BY <1>1 DEF RInv, PassFits
  <2>2. pass'.step \in {"read", "edge", "stamp"} =>
          /\ pass' = pass /\ ReadIs(pass.run, {"consumed"})'
          /\ LiveRead # 0 => ~ledger'[LiveRead].applied
    BY <1>1, LiveReadIsNewest DEF RInv, PassFits
  <2> SUFFICES ASSUME pass'.step # "idle" PROVE PassFits'
    BY DEF PassFits
  <2>3. ReadIs(pass.run, HasRead)' /\ pass'.run = pass.run /\ pass'.run \in ReadRuns
    BY <2>1
  <2> QED
    BY <1>1, <1>2, <2>2, <2>3 DEF PassFits, RInv, ReadIs, Status
<1>8. NumbersFit'
  BY <1>1, <1>2, LiveReadIsNewest, ReadBounds DEF RInv, NumbersFit, ReadsTypes
<1> QED
  BY <1>1, <1>3, <1>4, <1>5, <1>7, <1>8 DEF RInv

\* A lost claim hands the rows back that have no result.
LEMMA AbandonReadsStep == ASSUME RInv, NEW w \in Workers, AbandonReads(w) PROVE RInv'
<1>1. /\ reads' = [n \in ReadRuns |-> [s \in Parts |-> Unstarted(reads[n][s])]]
      /\ creator' = [creator EXCEPT ![w] = CreatorIdle]
      /\ UNCHANGED <<objects, ledger, numbers, review, pass>>
  BY DEF AbandonReads, Creates, reviewVars
<1>2. ASSUME NEW n \in ReadRuns, NEW s \in Parts
      PROVE  /\ RowMoves(s, reads[n][s], Unstarted(reads[n][s]))
             /\ Unstarted(reads[n][s]) \in ReadRow
  <2>1. reads[n][s] \in ReadRow /\ RowTells(s, reads[n][s])
    BY DEF RInv, ReadsTypes, ReadsFit, RowsTell
  <2> QED
    BY <2>1 DEF RowMoves, Unstarted, RowTells, ReadRow, RowState, HasRead
<1>3. RowsMove
  BY <1>1, <1>2 DEF RowsMove
<1>4. w \in Creators /\ creator \in [Creators -> CreatorSlot]
  BY DEF Creators, RInv, ReadsTypes
<1>5. /\ creator' \in [Creators -> CreatorSlot]
      /\ \A c \in Creators : creator'[c] = creator[c] \/ creator'[c].step # "insert"
  BY <1>1, <1>4, CreatorIdleFits
<1> QED
  BY <1>1, <1>3, <1>5, RowsMoveKeeps DEF RInv, ReadsTypes

\* One row of one run ends.
LEMMA SetReadStep ==
  ASSUME RInv, NEW n \in ReadRuns, NEW s \in Parts, NEW row \in ReadRow, SetRead(n, s, row),
         RowTells(s, row), row.status \notin {"none", "open"},
         \/ UNCHANGED objects
         \/ objects' = objects \cup {<<n, s>>} /\ row.status \in HasRead
  PROVE  RInv'
<1>1. /\ Status(n, s) = "open" /\ reads' = [reads EXCEPT ![n][s] = row]
      /\ UNCHANGED <<ledger, numbers, review, creator, pass>>
  BY DEF SetRead, reviewVars
<1>2. reads \in [ReadRuns -> [Parts -> ReadRow]]
  BY DEF RInv, ReadsTypes, ReadsFit
<1>3. reads' \in [ReadRuns -> [Parts -> ReadRow]] /\ reads'[n][s] = row
  BY <1>1, <1>2
<1>4. \A m \in ReadRuns, t \in Parts : m # n \/ t # s => reads'[m][t] = reads[m][t]
  BY <1>1, <1>2
<1>5. RowsMove
  BY <1>1, <1>3, <1>4 DEF RowsMove, RowMoves, Status
<1>6. \A m \in ReadRuns, t \in Parts : <<m, t>> \in objects' =>
        <<m, t>> \in objects \/ Status(m, t)' \in HasRead
  BY <1>3 DEF Status
<1> QED
  BY <1>1, <1>5, <1>6, RowsMoveKeeps DEF RInv, ReadsTypes

LEMMA ReadEndsStep ==
  ASSUME RInv, NEW n \in ReadRuns, NEW s \in Parts, ReadEnds(n, s)
  PROVE  RInv'
<1>1. PICK told \in BOOLEAN :
        SetRead(n, s, [status |-> "completed", hole |-> s \in Hard, told |-> told /\ s \in Hard])
  BY DEF ReadEnds
<1> DEFINE tells == told /\ s \in Hard
           row == [status |-> "completed", hole |-> s \in Hard, told |-> tells]
<1>2. row \in ReadRow /\ RowTells(s, row) /\ row.status \in HasRead
      /\ row.status \notin {"none", "open"}
  <2>1. tells \in BOOLEAN /\ (s \in Hard) \in BOOLEAN /\ (tells => s \in Hard)
    OBVIOUS
  <2> HIDE DEF tells
  <2>2. row.status = "completed" /\ row.hole = (s \in Hard) /\ row.told = tells
    OBVIOUS
  <2>3. row \in ReadRow
    BY <2>1, Zenon DEF ReadRow, RowState
  <2> QED
    BY <2>1, <2>2, <2>3 DEF RowTells, HasRead
<1>3. objects' = objects \cup {<<n, s>>} /\ SetRead(n, s, row)
  BY <1>1 DEF ReadEnds
<1> HIDE DEF row
<1> QED
  BY <1>2, <1>3, SetReadStep

LEMMA ReadFailsStep ==
  ASSUME RInv, NEW n \in ReadRuns, NEW s \in Parts, ReadFails(n, s)
  PROVE  RInv'
<1> DEFINE row == [NoRead EXCEPT !.status = "failed"]
<1>1. row \in ReadRow /\ RowTells(s, row) /\ row.status \notin {"none", "open"}
  BY DEF NoRead, ReadRow, RowState, RowTells, HasRead
<1>2. UNCHANGED objects /\ SetRead(n, s, row)
  BY DEF ReadFails
<1> HIDE DEF row
<1> QED
  BY <1>1, <1>2, SetReadStep

LEMMA LedgerCounts ==
  ASSUME NEW n \in ReadRuns, ledger \in [ReadRuns -> LedgerRow],
         \/ ledger' = [ledger EXCEPT ![n].glues = @ + 1]
         \/ ledger' = [ledger EXCEPT ![n].applies = @ + 1]
  PROVE  /\ ledger' \in [ReadRuns -> LedgerRow]
         /\ \A m \in ReadRuns : ledger'[m].applied = ledger[m].applied
<1>1. ledger[n] \in LedgerRow
  OBVIOUS
<1>2. /\ [ledger[n] EXCEPT !.glues = @ + 1] \in LedgerRow
      /\ [ledger[n] EXCEPT !.glues = @ + 1].applied = ledger[n].applied
      /\ [ledger[n] EXCEPT !.applies = @ + 1] \in LedgerRow
      /\ [ledger[n] EXCEPT !.applies = @ + 1].applied = ledger[n].applied
  BY <1>1 DEF LedgerRow
<1> QED
  BY <1>2

\* The rows of one run move.
LEMMA RunMoves ==
  ASSUME RInv, NEW n \in ReadRuns, NEW run \in [Parts -> ReadRow],
         reads' = [reads EXCEPT ![n] = run],
         \A s \in Parts : RowMoves(s, reads[n][s], run[s])
  PROVE  RowsMove
<1>1. reads \in [ReadRuns -> [Parts -> ReadRow]]
  BY DEF RInv, ReadsTypes, ReadsFit
<1>2. reads'[n] = run /\ \A m \in ReadRuns : m # n => reads'[m] = reads[m]
  BY <1>1
<1> QED
  BY <1>1, <1>2 DEF RowsMove, RowMoves

LEMMA ToldRow ==
  ASSUME NEW s \in Parts, NEW row \in ReadRow, row.status \in HasRead
  PROVE  LET told == [row EXCEPT !.told = row.hole] IN
           told \in ReadRow /\ RowMoves(s, row, told)
BY DEF ReadRow, RowMoves

\* A glue tells each row it read of its hole, and a faulty one may stop in between.
LEMMA GlueStep == ASSUME RInv, Glue PROVE RInv'
<1> SUFFICES ASSUME NEW n, n = pass.run PROVE RInv'
  OBVIOUS
<1> DEFINE Told(S) == [s \in Parts |-> IF s \in S THEN [reads[n][s] EXCEPT !.told = reads[n][s].hole]
                                       ELSE reads[n][s]]
<1>1. /\ pass.step = "merge" /\ n \in ReadRuns /\ ReadIs(n, HasRead)
      /\ UNCHANGED <<objects, numbers, review, creator>>
  BY DEF Glue, reviewVars, RInv, PassFits
<1>2. ASSUME NEW S, reads' = [reads EXCEPT ![n] = Told(S)] PROVE RowsMove
  <2>1. \A s \in Parts : reads[n][s] \in ReadRow /\ reads[n][s].status \in HasRead
    BY <1>1 DEF ReadIs, Status, RInv, ReadsTypes, ReadsFit
  <2>2. Told(S) \in [Parts -> ReadRow] /\ \A s \in Parts : RowMoves(s, reads[n][s], Told(S)[s])
    BY <2>1, ToldRow DEF RowMoves
  <2> HIDE DEF Told
  <2> QED
    BY <1>1, <1>2, <2>2, RunMoves
<1>3. ASSUME reads' = [reads EXCEPT ![n] = Told(Parts)], Passes("consume", n), UNCHANGED ledger
      PROVE  RInv'
  <2>1. pass' \in PassSlot /\ pass'.step = "consume" /\ pass'.run = n
    BY <1>1, <1>3, PassPicks
  <2>2. RowsMove
    BY <1>2, <1>3
  <2> HIDE DEF Told
  <2> QED
    BY <1>1, <1>3, <2>1, <2>2, RowsMoveKeeps DEF RInv, ReadsTypes
<1>4. ASSUME NEW S, reads' = [reads EXCEPT ![n] = Told(S)], pass' = PassIdle,
             ledger' = [ledger EXCEPT ![n].glues = @ + 1]
      PROVE  RInv'
  <2>1. /\ ledger' \in [ReadRuns -> LedgerRow]
        /\ \A m \in ReadRuns : ledger'[m].applied = ledger[m].applied
    BY <1>1, <1>4, LedgerCounts DEF RInv, ReadsTypes
  <2>2. RowsMove
    BY <1>2, <1>4
  <2> HIDE DEF Told
  <2> QED
    BY <1>1, <1>4, <2>1, <2>2, PassIdleFits, RowsMoveKeeps DEF RInv, ReadsTypes
<1>5. \/ reads' = [reads EXCEPT ![n] = Told(Parts)] /\ Passes("consume", n) /\ UNCHANGED ledger
      \/ \E S \in SUBSET Parts : /\ reads' = [reads EXCEPT ![n] = Told(S)] /\ pass' = PassIdle
                                /\ ledger' = [ledger EXCEPT ![n].glues = @ + 1]
  BY Zenon DEF Glue
<1> QED
  BY <1>3, <1>4, <1>5

LEMMA ConsumeRunStep == ASSUME RInv, ConsumeRun PROVE RInv'
<1> SUFFICES ASSUME NEW n, n = pass.run PROVE RInv'
  OBVIOUS
<1> DEFINE Consumed(row) == IF row.status = "completed" THEN [row EXCEPT !.status = "consumed"] ELSE row
           run == [s \in Parts |-> Consumed(reads[n][s])]
<1>1. /\ n \in ReadRuns /\ reads' = [reads EXCEPT ![n] = run] /\ pass' = PassIdle
      /\ UNCHANGED <<objects, ledger, numbers, review, creator>>
  BY DEF ConsumeRun, reviewVars, RInv, PassFits
<1>2. ASSUME NEW s \in Parts
      PROVE  Consumed(reads[n][s]) \in ReadRow /\ RowMoves(s, reads[n][s], Consumed(reads[n][s]))
  <2>1. reads[n][s] \in ReadRow /\ RowTells(s, reads[n][s])
    BY <1>1 DEF RInv, ReadsTypes, ReadsFit, RowsTell
  <2> QED
    BY <2>1 DEF ReadRow, RowState, RowMoves, RowTells, HasRead
<1>3. run \in [Parts -> ReadRow] /\ \A s \in Parts : RowMoves(s, reads[n][s], run[s])
  BY <1>2
<1> HIDE DEF run
<1>4. RowsMove
  BY <1>1, <1>3, RunMoves
<1> QED
  BY <1>1, <1>4, PassIdleFits, RowsMoveKeeps DEF RInv, ReadsTypes

\* The run is another writer's already, or it is inserted: no result of an older run
\* is touched, and the run that is now live was never applied.
LEMMA InsertReadStep == ASSUME RInv, NEW c \in Creators, InsertRead(c) PROVE RInv'
<1> SUFFICES ASSUME NEW n, n = creator[c].run PROVE RInv'
  OBVIOUS
<1> DEFINE born == BornRows(creator[c].carried)
<1>1. /\ creator[c].step = "insert" /\ Creates(c, Handed(c))
      /\ reads' = IF n \in StartedReads THEN reads ELSE [reads EXCEPT ![n] = born]
      /\ UNCHANGED <<objects, ledger, numbers, review, pass>>
  BY DEF InsertRead, reviewVars
<1>2. reads \in [ReadRuns -> [Parts -> ReadRow]] /\ creator \in [Creators -> CreatorSlot]
  BY DEF RInv, ReadsTypes, ReadsFit
<1>3. CASE n \in StartedReads \/ n \notin ReadRuns
  <2>1. reads' = reads
    BY <1>1, <1>2, <1>3
  <2> QED
    BY <1>1, <2>1, HandedFits, CreatorMoves
<1>4. CASE n \in ReadRuns /\ n \notin StartedReads
  <2>1. \A s \in Parts : Status(n, s) = "none"
    BY <1>4 DEF StartedReads, ReadIs
  <2>2. ASSUME NEW s \in Parts PROVE born[s] \in ReadRow /\ RowTells(s, born[s]) /\ born[s].status # "none"
    <3>1. CASE creator[c].carried[s] = 0
      <4>1. born[s] = Open
        BY <3>1 DEF BornRows
      <4> QED
        BY <4>1 DEF Open, NoRead, ReadRow, RowState, RowTells, HasRead
    <3>2. CASE creator[c].carried[s] # 0
      <4> DEFINE from == creator[c].carried[s]
      <4>1. from \in ReadRuns /\ Status(from, s) \in HasRead
        BY <1>1, <3>2 DEF RInv, CarriesFit
      <4>2. reads[from][s] \in ReadRow /\ (reads[from][s].hole <=> s \in Hard)
        BY <1>2, <4>1 DEF RInv, RowsTell, RowTells, Status
      <4>3. born[s] = [status |-> "completed", hole |-> reads[from][s].hole, told |-> FALSE]
        BY <3>2 DEF BornRows
      <4>4. reads[from][s].hole \in BOOLEAN
        BY <4>2 DEF ReadRow
      <4> HIDE DEF from, born
      <4> QED
        BY <4>2, <4>3, <4>4 DEF ReadRow, RowState, RowTells, HasRead
    <3> QED
      BY <3>1, <3>2
  <2>3. born \in [Parts -> ReadRow]
    BY <2>2 DEF BornRows
  <2> HIDE DEF born
  <2>4. reads' = [reads EXCEPT ![n] = born]
    BY <1>1, <1>4
  <2>5. reads' \in [ReadRuns -> [Parts -> ReadRow]] /\ reads'[n] = born
    BY <1>2, <1>4, <2>3, <2>4
  <2>6. \A m \in ReadRuns : m # n => reads'[m] = reads[m]
    BY <1>2, <2>4
  <2>7. ReadRuns' = ReadRuns /\ HasRead' = HasRead
    BY DEF ReadRuns, MaxReads, HasRead
  <2>8. \A m \in ReadRuns, s \in Parts :
          Status(m, s) # "none" => m # n /\ Status(m, s)' = Status(m, s)
    BY <2>1, <2>6 DEF Status
  <2>9. \A m \in ReadRuns : ReadIs(m, {"consumed"}) => m # n /\ ReadIs(m, {"consumed"})'
    BY <2>8, ReadsAssumption DEF ReadIs
  <2>10. \A m \in ReadRuns : ReadIs(m, HasRead) => m # n /\ ReadIs(m, HasRead)'
    BY <2>8, <2>7, ReadsAssumption DEF ReadIs, HasRead
  <2>11. LiveRead' \in {LiveRead, n}
    <3>1. StartedReads' = StartedReads \cup {n}
      <4>1. \A m \in ReadRuns : m # n => (ReadIs(m, {"none"})' <=> ReadIs(m, {"none"}))
        BY <2>6 DEF ReadIs, Status
      <4>2. ~ReadIs(n, {"none"})'
        BY <2>2, <2>5, ReadsAssumption DEF ReadIs, Status
      <4> QED
        BY <1>4, <2>7, <4>1, <4>2 DEF StartedReads
    <3>2. LiveRead' = Newest(StartedReads \cup {n})
      BY <3>1 DEF LiveRead, Newest
    <3>3. StartedReads \cup {n} \subseteq 1..MaxReads /\ MaxReads \in Nat
      BY <1>4, ReadBounds DEF StartedReads
    <3>4. /\ LiveRead' \in StartedReads \cup {n}
          /\ \A m \in StartedReads \cup {n} : m <= LiveRead'
      BY <3>2, <3>3, NewestIs
    <3>5. CASE LiveRead' # n
      <4>1. LiveRead' \in StartedReads /\ LiveRead' <= LiveRead /\ LiveRead \in StartedReads
        BY <3>4, <3>5, LiveReadIsNewest
      <4>2. LiveRead <= LiveRead'
        BY <3>4, <4>1
      <4> QED
        BY <3>3, <4>1, <4>2
    <3> QED
      BY <3>5
  <2>12. ReadsTypes' /\ \A d \in Creators : creator'[d] = creator[d] \/ creator'[d].step # "insert"
    BY <1>1, <1>2, <2>5, HandedFits DEF RInv, ReadsTypes, ReadsFit, Creates
  <2>13. RowsTell'
    BY <2>2, <2>5, <2>6, <2>7 DEF RInv, RowsTell, RowTells
  <2>14. Stored'
    BY <1>1, <2>7, <2>8 DEF RInv, Stored, HasRead
  <2>15. ASSUME NEW d \in Creators PROVE CarriesFit(d)'
    BY <2>7, <2>8, <2>12 DEF RInv, CarriesFit, HasRead
  <2>16. ~ledger[n].applied
    BY <1>4, <2>9 DEF RInv, NumbersFit
  <2>17. PassFits'
    <3>1. pass.step # "idle" => ReadIs(pass.run, HasRead)'
      BY <1>1, <2>10 DEF RInv, PassFits
    <3>2. pass.step \in {"read", "edge", "stamp"} =>
            /\ ReadIs(pass.run, {"consumed"})'
            /\ LiveRead' # 0 => ~ledger[LiveRead'].applied
      BY <1>1, <2>9, <2>11, <2>16 DEF RInv, PassFits
    <3> QED
      BY <1>1, <2>7, <3>1, <3>2 DEF RInv, PassFits, ReadIs, Status
  <2>18. NumbersFit'
    <3>1. numbers # 0 => ReadIs(numbers, {"consumed"})'
      BY <1>1, <2>9, ReadBounds DEF RInv, NumbersFit, ReadsTypes
    <3>2. LiveRead' # 0 /\ ledger[LiveRead'].applied => numbers = LiveRead'
      BY <2>11, <2>16 DEF RInv, NumbersFit
    <3>3. \A m \in ReadRuns : ledger[m].applied => ReadIs(m, {"consumed"})'
      BY <2>9 DEF RInv, NumbersFit
    <3> QED
      BY <1>1, <2>7, <3>1, <3>2, <3>3 DEF RInv, NumbersFit, ReadIs, Status
  <2> QED
    BY <2>12, <2>13, <2>14, <2>15, <2>17, <2>18 DEF RInv
<1> QED
  BY <1>3, <1>4

-----------------------------------------------------------------------------
(* The pass, and people.                                                   *)

LEMMA PassMoves ==
  ASSUME RInv, UNCHANGED <<reads, objects, creator>>, pass' \in PassSlot,
         ledger' \in [ReadRuns -> LedgerRow], numbers' \in 0..MaxReads, PassFits', NumbersFit'
  PROVE  RInv'
<1>1. \A n, s : Status(n, s)' = Status(n, s)
  BY SameReads
<1>2. ReadsTypes'
  BY DEF RInv, ReadsTypes, ReadsFit
<1>3. RowsTell' /\ Stored' /\ \A c \in Creators : CarriesFit(c)'
  BY <1>1 DEF RInv, RowsTell, RowTells, Stored, CarriesFit
<1> QED
  BY <1>2, <1>3 DEF RInv

\* The pass moves and nothing else does.
LEMMA PassOnly ==
  ASSUME RInv, UNCHANGED <<reads, objects, creator, ledger, numbers, review>>,
         pass' \in PassSlot, PassFits'
  PROVE  RInv'
<1>1. /\ LiveRead' = LiveRead /\ \A n, S : ReadIs(n, S)' <=> ReadIs(n, S)
  BY SameReads
<1>2. NumbersFit'
  BY <1>1 DEF RInv, NumbersFit
<1> QED
  BY <1>2, PassMoves DEF RInv, ReadsTypes

LEMMA GluePickStep == ASSUME RInv, GluePick PROVE RInv'
<1>1. /\ LiveRead \in ReadRuns /\ ReadIs(LiveRead, HasRead) /\ Passes("merge", LiveRead)
      /\ UNCHANGED <<reads, objects, creator, ledger, numbers, review>>
  BY LiveReadIsNewest DEF GluePick, Glueable, LiveReadIs, runVars, reviewVars
<1>2. pass' \in PassSlot /\ pass'.step = "merge" /\ pass'.run = LiveRead
  BY <1>1, PassPicks
<1>3. \A n, S : ReadIs(n, S)' <=> ReadIs(n, S)
  BY <1>1, SameReads
<1>4. PassFits'
  BY <1>1, <1>2, <1>3 DEF PassFits, HasRead
<1> QED
  BY <1>1, <1>2, <1>4, PassOnly

LEMMA ApplyPickStep == ASSUME RInv, ApplyPick PROVE RInv'
<1>1. /\ LiveRead \in ReadRuns /\ ReadIs(LiveRead, {"consumed"}) /\ ~ledger[LiveRead].applied
      /\ pass' = [step |-> "read", run |-> LiveRead, opened |-> review = "open"]
      /\ UNCHANGED <<reads, objects, creator, ledger, numbers, review>>
  BY LiveReadIsNewest DEF ApplyPick, LiveReadIs, runVars, reviewVars
<1>2. pass' \in PassSlot /\ pass'.step = "read" /\ pass'.run = LiveRead
  <2>1. (review = "open") \in BOOLEAN /\ LiveRead \in 0..MaxReads
    BY LiveReadIsNewest
  <2>2. pass'.step = "read" /\ pass'.run = LiveRead
    BY <1>1
  <2>3. pass' \in PassSlot
    BY <1>1, <2>1, Zenon DEF PassSlot
  <2> QED
    BY <2>2, <2>3
<1>3. LiveRead' = LiveRead /\ \A n, S : ReadIs(n, S)' <=> ReadIs(n, S)
  BY <1>1, SameReads
<1>4. ReadIs(LiveRead, HasRead)
  BY <1>1 DEF ReadIs, HasRead
<1>5. PassFits'
  BY <1>1, <1>2, <1>3, <1>4 DEF PassFits, HasRead
<1> QED
  BY <1>1, <1>2, <1>5, PassOnly

\* The numbers become those of a glued run, while the live one is not stamped.
LEMMA SaveNumbersStep == ASSUME RInv, SaveNumbers PROVE RInv'
<1> SUFFICES ASSUME NEW n, n = pass.run PROVE RInv'
  OBVIOUS
<1>1. /\ pass.step = "read" /\ n \in ReadRuns /\ n # 0
      /\ ReadIs(n, {"consumed"}) /\ ReadIs(n, HasRead)
      /\ LiveRead # 0 => ~ledger[LiveRead].applied
      /\ UNCHANGED <<reads, objects, creator, review>>
  BY ReadBounds DEF SaveNumbers, RInv, PassFits
<1>2. LiveRead' = LiveRead /\ \A m, S : ReadIs(m, S)' <=> ReadIs(m, S)
  BY <1>1, SameReads
<1>3. pass \in PassSlot
  BY DEF RInv, ReadsTypes
<1>4. ASSUME numbers' = n, NEW step \in {"edge", "stamp"}, UNCHANGED ledger,
             pass' = [pass EXCEPT !.step = step]
      PROVE  RInv'
  <2>1. pass' \in PassSlot /\ pass'.step = step /\ pass'.run = n
    BY <1>3, <1>4 DEF PassSlot
  <2>2. n \in 0..MaxReads
    BY <1>1, ReadBounds
  <2>3. PassFits'
    BY <1>1, <1>2, <1>4, <2>1 DEF PassFits, HasRead
  <2>4. NumbersFit'
    BY <1>1, <1>2, <1>4 DEF NumbersFit, RInv
  <2> QED
    BY <1>1, <1>4, <2>1, <2>2, <2>3, <2>4, PassMoves DEF RInv, ReadsTypes
<1>5. ASSUME ledger' = [ledger EXCEPT ![n].applies = @ + 1], pass' = PassIdle, UNCHANGED numbers
      PROVE  RInv'
  <2>1. /\ ledger' \in [ReadRuns -> LedgerRow]
        /\ \A m \in ReadRuns : ledger'[m].applied = ledger[m].applied
    BY <1>1, <1>5, LedgerCounts DEF RInv, ReadsTypes
  <2>2. PassFits'
    BY <1>5, PassIdleFits DEF PassFits
  <2>3. NumbersFit'
    BY <1>1, <1>2, <1>5, <2>1, LiveReadIsNewest DEF NumbersFit, RInv
  <2> QED
    BY <1>1, <1>5, <2>1, <2>2, <2>3, PassIdleFits, PassMoves DEF RInv, ReadsTypes
<1> QED
  BY <1>4, <1>5 DEF SaveNumbers

\* The review opens over the numbers that were just saved.
LEMMA OpenReviewStep == ASSUME RInv, OpenReview PROVE RInv'
<1> SUFFICES ASSUME NEW n, n = pass.run PROVE RInv'
  OBVIOUS
<1>1. /\ pass.step = "edge" /\ n \in ReadRuns /\ n # 0 /\ numbers = n
      /\ ReadIs(n, {"consumed"}) /\ ReadIs(n, HasRead)
      /\ LiveRead # 0 => ~ledger[LiveRead].applied
      /\ UNCHANGED <<reads, objects, creator, ledger, numbers>>
      /\ \/ pass' = [pass EXCEPT !.step = "stamp"]
         \/ pass' = PassIdle
  BY ReadBounds DEF OpenReview, RInv, PassFits, runVars
<1>2. LiveRead' = LiveRead /\ \A m, S : ReadIs(m, S)' <=> ReadIs(m, S)
  BY <1>1, SameReads
<1>3. NumbersFit'
  BY <1>1, <1>2 DEF NumbersFit, RInv
<1>4. pass' \in PassSlot /\ PassFits'
  <2>1. CASE pass' = [pass EXCEPT !.step = "stamp"]
    <3>1. pass' \in PassSlot /\ pass'.step = "stamp" /\ pass'.run = n
      BY <2>1, PassSteps DEF RInv, ReadsTypes
    <3> QED
      BY <1>1, <1>2, <3>1 DEF PassFits, HasRead
  <2>2. CASE pass' = PassIdle
    BY <2>2, PassIdleFits DEF PassFits
  <2> QED
    BY <1>1, <2>1, <2>2
<1> QED
  BY <1>1, <1>3, <1>4, PassMoves DEF RInv, ReadsTypes

LEMMA AppliedRow ==
  ASSUME NEW n \in ReadRuns, NEW flag \in BOOLEAN, ledger \in [ReadRuns -> LedgerRow],
         \/ ledger' = [ledger EXCEPT ![n].applied = flag]
         \/ ledger' = [ledger EXCEPT ![n].applied = flag, ![n].applies = 0]
  PROVE  /\ ledger' \in [ReadRuns -> LedgerRow] /\ ledger'[n].applied = flag
         /\ \A m \in ReadRuns : m # n => ledger'[m] = ledger[m]
<1>1. ledger[n] \in LedgerRow
  OBVIOUS
<1> DEFINE row == [ledger[n] EXCEPT !.applied = flag]
<1>2. row \in LedgerRow /\ row.applied = flag
  BY <1>1 DEF LedgerRow
<1>3. [row EXCEPT !.applies = 0] \in LedgerRow /\ [row EXCEPT !.applies = 0].applied = flag
  <2> HIDE DEF row
  <2> QED
    BY <1>2 DEF LedgerRow
<1>4. CASE ledger' = [ledger EXCEPT ![n].applied = flag]
  BY <1>2, <1>4
<1>5. CASE ledger' = [ledger EXCEPT ![n].applied = flag, ![n].applies = 0]
  <2> DEFINE once == [ledger EXCEPT ![n] = row]
  <2>1. once \in [ReadRuns -> LedgerRow] /\ once[n] = row
        /\ \A m \in ReadRuns : m # n => once[m] = ledger[m]
    BY <1>2
  <2>2. ledger' = [once EXCEPT ![n].applies = 0]
    BY <1>5
  <2> HIDE DEF once, row
  <2> QED
    BY <1>3, <2>1, <2>2
<1> QED
  BY <1>4, <1>5

LEMMA StampAppliedStep == ASSUME RInv, StampApplied PROVE RInv'
<1> SUFFICES ASSUME NEW n, n = pass.run PROVE RInv'
  OBVIOUS
<1>1. /\ pass.step = "stamp" /\ n \in ReadRuns /\ numbers = n
      /\ ReadIs(n, {"consumed"})
      /\ LiveRead # 0 => ~ledger[LiveRead].applied
      /\ ledger' = [ledger EXCEPT ![n].applied = TRUE] /\ pass' = PassIdle
      /\ UNCHANGED <<reads, objects, creator, numbers, review>>
  BY DEF StampApplied, RInv, PassFits, reviewVars
<1>2. LiveRead' = LiveRead /\ \A m, S : ReadIs(m, S)' <=> ReadIs(m, S)
  BY <1>1, SameReads
<1>3. /\ ledger' \in [ReadRuns -> LedgerRow]
      /\ \A m \in ReadRuns : m # n => ledger'[m] = ledger[m]
  BY <1>1, AppliedRow DEF RInv, ReadsTypes
<1>4. NumbersFit'
  BY <1>1, <1>2, <1>3, LiveReadIsNewest DEF NumbersFit, RInv
<1>5. PassFits'
  BY <1>1, PassIdleFits DEF PassFits
<1> QED
  BY <1>1, <1>3, <1>4, <1>5, PassIdleFits, PassMoves DEF RInv, ReadsTypes

LEMMA ReopenApplyStep == ASSUME RInv, ReopenApply PROVE RInv'
<1> SUFFICES ASSUME NEW n, n = LiveRead PROVE RInv'
  OBVIOUS
<1>1. /\ n \in ReadRuns
      /\ ledger' = [ledger EXCEPT ![n].applied = FALSE, ![n].applies = 0]
      /\ UNCHANGED <<reads, objects, creator, numbers, review, pass>>
  BY LiveReadIsNewest DEF ReopenApply, LiveReadIs
<1>2. LiveRead' = LiveRead /\ \A m, S : ReadIs(m, S)' <=> ReadIs(m, S)
  BY <1>1, SameReads
<1>3. /\ ledger' \in [ReadRuns -> LedgerRow] /\ ledger'[n].applied = FALSE
      /\ \A m \in ReadRuns : m # n => ledger'[m] = ledger[m]
  BY <1>1, AppliedRow DEF RInv, ReadsTypes
<1>4. NumbersFit'
  BY <1>1, <1>2, <1>3 DEF NumbersFit, RInv
<1>5. PassFits'
  BY <1>1, <1>2, <1>3 DEF PassFits, RInv, HasRead
<1> QED
  BY <1>1, <1>3, <1>4, <1>5, PassMoves DEF RInv, ReadsTypes

-----------------------------------------------------------------------------
(* The theorems.                                                           *)

LEMMA InitReads == ReadsInit => RInv
<1> SUFFICES ASSUME ReadsInit PROVE RInv
  OBVIOUS
<1>1. \A n \in ReadRuns, s \in Parts : reads[n][s] = NoRead
  BY DEF ReadsInit
<1>2. /\ NoRead \in ReadRow /\ NoRead.status = "none" /\ NoRead.told = FALSE
      /\ NoRead.hole = FALSE
  BY DEF NoRead, ReadRow, RowState
<1>3. \A n \in ReadRuns : ReadIs(n, {"none"})
  BY <1>1, <1>2 DEF ReadIs, Status
<1>4. LiveRead = 0
  BY <1>3, LiveReadIsNewest DEF StartedReads
<1>5. NoLedger \in LedgerRow /\ NoLedger.applied = FALSE
  BY DEF NoLedger, LedgerRow
<1>6. ReadsTypes
  BY <1>2, <1>5, CreatorIdleFits, PassIdleFits, ReadBounds DEF ReadsInit, ReadsTypes, ReadsFit
<1>7. RowsTell /\ Stored
  BY <1>1, <1>2 DEF RowsTell, RowTells, Stored, HasRead, ReadsInit
<1>8. PassFits
  BY PassIdleFits DEF PassFits, ReadsInit
<1>9. NumbersFit
  BY <1>4, <1>5 DEF NumbersFit, ReadsInit
<1>10. \A c \in Creators : CarriesFit(c)
  BY CreatorIdleFits DEF CarriesFit, ReadsInit
<1> QED
  BY <1>6, <1>7, <1>8, <1>9, <1>10 DEF RInv

LEMMA WorkerStep == ASSUME RInv, NEW w \in Workers, VolumeWorker(w) PROVE RInv'
<1>1. w \in Creators
  BY DEF Creators
<1>2. CASE ClaimVolume(w)
  BY <1>1, <1>2, CreatorMoves, CreatorIdleFits, CreatorSteps DEF ClaimVolume, runVars, reviewVars
<1>3. CASE Converting(w) \/ HandBack(w)
  BY <1>3, CreatorsStay DEF Converting, HandBack, readVars, runVars, reviewVars
<1>4. CASE Parking(w)
  <2>1. /\ UNCHANGED <<reads, objects, ledger, numbers, review, pass>>
        /\ \/ Creates(w, [CreatorIdle EXCEPT !.step = "abandon"])
           \/ Creates(w, CreatorIdle)
    BY <1>4 DEF Parking, runVars, reviewVars
  <2> QED
    BY <1>1, <2>1, CreatorMoves, CreatorIdleFits, CreatorSteps
<1>5. CASE AbandonReads(w)
  BY <1>5, AbandonReadsStep
<1>6. CASE Raises(w)
  BY <1>1, <1>6, CreatorMoves, CreatorIdleFits DEF Raises, runVars, reviewVars
<1> QED
  BY <1>2, <1>3, <1>4, <1>5, <1>6 DEF VolumeWorker

LEMMA DiesStep == ASSUME RInv, Dies PROVE RInv'
<1>1. /\ UNCHANGED <<reads, objects, ledger, numbers, review>>
      /\ creator \in [Creators -> CreatorSlot]
  BY DEF Dies, runVars, reviewVars, RInv, ReadsTypes
<1>2. /\ pass' = pass \/ pass' = PassIdle
      /\ \/ UNCHANGED creator
         \/ creator' = [c \in Creators |-> IF c \in Workers /\ pipeline'[c] # pipeline[c]
                                           THEN CreatorIdle ELSE creator[c]]
         \/ \E c \in Creators : creator' = [creator EXCEPT ![c] = CreatorIdle]
  BY DEF Dies, Creates
<1>3. /\ creator' \in [Creators -> CreatorSlot]
      /\ \A c \in Creators : creator'[c] = creator[c] \/ creator'[c] = CreatorIdle
  BY <1>1, <1>2, CreatorIdleFits
<1>4. \A n, s : Status(n, s)' = Status(n, s)
  BY <1>1, SameReads
<1>5. ASSUME NEW c \in Creators PROVE CarriesFit(c)'
  BY <1>3, <1>4, CreatorIdleFits DEF CarriesFit, RInv
<1> QED
  BY <1>1, <1>2, <1>3, <1>5, CreatorQuiet

LEMMA StartsStep == ASSUME RInv, Starts PROVE RInv'
<1>1. /\ "tick" \in Creators /\ "staff" \in Creators
      /\ UNCHANGED <<reads, objects, ledger, numbers, review, pass>>
      /\ \/ Creates("tick", [CreatorIdle EXCEPT !.step = "judge"])
         \/ Creates("staff", [CreatorIdle EXCEPT !.step = "judge"])
         \/ Creates("staff", [CreatorIdle EXCEPT !.step = "number"])
  BY DEF Starts, SweepStarts, ButtonStarts, RereadStarts, Creators, runVars, reviewVars
<1> QED
  BY <1>1, CreatorMoves, CreatorIdleFits, CreatorSteps

LEMMA NextReads == RInv /\ [ReadsNext]_allVars => RInv'
<1> SUFFICES ASSUME RInv, [ReadsNext]_allVars PROVE RInv'
  OBVIOUS
<1>1. ASSUME NEW w \in Workers, VolumeWorker(w) PROVE RInv'
  BY <1>1, WorkerStep
<1>2. ASSUME VolumeRest PROVE RInv'
  <2>1. CASE Dies
    BY <2>1, DiesStep
  <2>2. CASE UNCHANGED readVars
    BY <2>2, CreatorsStay DEF readVars, runVars, reviewVars
  <2> QED
    BY <1>2, <2>1, <2>2 DEF VolumeRest, Volume, Ages
<1>3. ASSUME NEW c \in Creators, Ensures(c) PROVE RInv'
  BY <1>3, EnsureJudgeStep, EnsureCarryStep, InsertReadStep DEF Ensures
<1>4. CASE Starts
  BY <1>4, StartsStep
<1>5. CASE SwitchedOn \/ ApprovePages
  BY <1>5, CreatorsStay DEF SwitchedOn, ApprovePages, runVars, reviewVars
<1>6. ASSUME NEW n \in ReadRuns, NEW s \in Parts, ReadEnds(n, s) \/ ReadFails(n, s) PROVE RInv'
  BY <1>6, ReadEndsStep, ReadFailsStep
<1>7. CASE Pass
  BY <1>7, GluePickStep, GlueStep, ConsumeRunStep, ApplyPickStep, SaveNumbersStep,
     OpenReviewStep, StampAppliedStep DEF Pass
<1>8. CASE ReopenApply
  BY <1>8, ReopenApplyStep
<1>9. CASE UNCHANGED allVars
  BY <1>9, CreatorsStay DEF allVars, readVars, runVars, reviewVars
<1> QED
  BY <1>1, <1>2, <1>3, <1>4, <1>5, <1>6, <1>7, <1>8, <1>9 DEF ReadsNext

LEMMA ReadsInvariant == ReadsSpec => []RInv
BY InitReads, NextReads, PTL DEF ReadsSpec

\* What opened the review of the pages is a whole, glued read, and a live run that is
\* stamped as applied is the one the numbers are of: whichever run is started, whoever
\* dies and whatever raises during the apply (apply_ready_runs, ensure_run_jobs).
THEOREM ReviewedStaysRead == ReadsSpec => []ReviewedIsRead
<1>1. RInv => ReviewedIsRead
  BY DEF RInv, NumbersFit, ReviewedIsRead
<1> QED
  BY <1>1, ReadsInvariant, PTL

-----------------------------------------------------------------------------
\* Only ensure_run_jobs decides what is carried, in one read of the rows.
LEMMA DecidingIsCarrying ==
  ASSUME RInv, [ReadsNext]_allVars, NEW c \in Creators, Decides(c)
  PROVE  EnsureCarry(c)
<1>1. creator \in [Creators -> CreatorSlot]
  BY DEF RInv, ReadsTypes
<1>2. ASSUME NEW d \in Creators, NEW slot \in CreatorSlot, slot.step # "insert", Creates(d, slot)
      PROVE  FALSE
  BY <1>1, <1>2 DEF Creates, Decides
<1>3. ASSUME UNCHANGED creator PROVE FALSE
  BY <1>3 DEF Decides
<1>4. ASSUME NEW w \in Workers, VolumeWorker(w) PROVE FALSE
  <2>1. w \in Creators
    BY DEF Creators
  <2>2. \/ UNCHANGED creator
        \/ Creates(w, [CreatorIdle EXCEPT !.step = "judge"])
        \/ Creates(w, [CreatorIdle EXCEPT !.step = "abandon"])
        \/ Creates(w, CreatorIdle)
    BY <1>4 DEF VolumeWorker, ClaimVolume, Converting, Parking, HandBack, AbandonReads, Raises,
                readVars
  <2> QED
    BY <1>2, <1>3, <2>1, <2>2, CreatorIdleFits, CreatorSteps
<1>5. ASSUME VolumeRest PROVE FALSE
  <2>1. CASE Dies
    <3>1. creator'[c] = creator[c] \/ creator'[c] = CreatorIdle
      BY <1>1, <2>1 DEF Dies, Creates
    <3> QED
      BY <3>1, CreatorIdleFits DEF Decides
  <2>2. CASE UNCHANGED readVars
    BY <1>3, <2>2 DEF readVars
  <2> QED
    BY <1>5, <2>1, <2>2 DEF VolumeRest, Volume, Ages
<1>6. ASSUME NEW d \in Creators, EnsureJudge(d) \/ InsertRead(d) PROVE FALSE
  <2>1. \/ Creates(d, [CreatorIdle EXCEPT !.step = "skipped"])
        \/ Creates(d, Handed(d))
        \/ Creates(d, [CreatorIdle EXCEPT !.step = "number"])
    BY <1>6 DEF EnsureJudge, InsertRead
  <2> QED
    BY <1>2, <2>1, CreatorIdleFits, CreatorSteps, HandedFits
<1>7. ASSUME NEW d \in Creators, EnsureCarry(d) PROVE EnsureCarry(c)
  BY <1>1, <1>7 DEF EnsureCarry, Creates, Decides
<1>8. ASSUME Starts PROVE FALSE
  <2>1. /\ "tick" \in Creators /\ "staff" \in Creators
        /\ \/ Creates("tick", [CreatorIdle EXCEPT !.step = "judge"])
           \/ Creates("staff", [CreatorIdle EXCEPT !.step = "judge"])
           \/ Creates("staff", [CreatorIdle EXCEPT !.step = "number"])
    BY <1>8 DEF Starts, SweepStarts, ButtonStarts, RereadStarts, Creators
  <2> QED
    BY <1>2, <2>1, CreatorIdleFits, CreatorSteps
<1>9. ASSUME SwitchedOn \/ ApprovePages \/ ReopenApply \/ Pass \/ UNCHANGED allVars PROVE FALSE
  BY <1>3, <1>9 DEF SwitchedOn, ApprovePages, ReopenApply, Pass, GluePick, Glue, ConsumeRun,
                    ApplyPick, SaveNumbers, OpenReview, StampApplied, allVars, readVars
<1>10. ASSUME NEW n \in ReadRuns, NEW s \in Parts, ReadEnds(n, s) \/ ReadFails(n, s) PROVE FALSE
  BY <1>3, <1>10 DEF ReadEnds, ReadFails, SetRead
<1> QED
  BY <1>4, <1>5, <1>6, <1>7, <1>8, <1>9, <1>10 DEF ReadsNext, Ensures

LEMMA DecidedCarry ==
  ASSUME RInv, NEW c \in Creators, EnsureCarry(c), NEW s \in Parts
  PROVE  creator'[c].carried[s] = IF s \in creator'[c].unseen THEN 0
                                  ELSE Newest(PriorResults(s))
<1>0. PICK unseen \in SUBSET Parts :
        Creates(c, [step |-> "insert", run |-> LiveRead + 1,
                    carried |-> ReusableResults(unseen), unseen |-> unseen])
  BY DEF EnsureCarry
<1> DEFINE slot == [step |-> "insert", run |-> LiveRead + 1,
                    carried |-> ReusableResults(unseen), unseen |-> unseen]
<1>1. creator' = [creator EXCEPT ![c] = slot] /\ creator \in [Creators -> CreatorSlot]
  BY <1>0 DEF Creates, RInv, ReadsTypes
<1>2. slot.carried[s] = IF s \in slot.unseen THEN 0 ELSE Newest(PriorResults(s))
  BY DEF ReusableResults
<1> HIDE DEF slot
<1>3. creator'[c] = slot
  BY <1>1
<1> QED
  BY <1>2, <1>3

\* A result without a hole that is stored is carried into every later run, and not
\* paid for again, whoever starts it, whatever was lost, cancelled or killed between,
\* unless the look at S3 for that shard does not confirm it when the run is put
\* together; a look that fails takes no other shard with it (_reusable_results,
\* abandon_open in run_full_pipeline).
THEOREM ReadsAreCarried == ReadsSpec => ReadOnce
<1>1. ASSUME RInv, [ReadsNext]_allVars, NEW c \in Creators, NEW s \in Parts, NEW n \in ReadRuns,
             Decides(c), <<n, s>> \in objects, ~reads[n][s].hole, s \notin creator'[c].unseen
      PROVE  LET from == creator'[c].carried[s] IN from # 0 /\ ~reads[from][s].hole
  <2>1. Status(n, s) \in HasRead /\ ~HasUnread(n, s)
    BY <1>1 DEF RInv, Stored, RowsTell, RowTells, HasUnread
  <2>2. n \in PriorResults(s) /\ s \notin Hard
    BY <1>1, <2>1 DEF PriorResults, RInv, RowsTell, RowTells, Status
  <2>3. creator'[c].carried[s] = Newest(PriorResults(s))
    BY <1>1, DecidingIsCarrying, DecidedCarry
  <2>4. creator'[c].carried[s] # 0 /\ creator'[c].carried[s] \in PriorResults(s)
    BY <2>2, <2>3, ReusableIs
  <2> QED
    BY <1>1, <2>2, <2>4 DEF PriorResults, RInv, RowsTell, RowTells, Status
<1>2. RInv /\ [ReadsNext]_allVars =>
        \A c \in Creators, s \in Parts, n \in ReadRuns :
          Decides(c) /\ <<n, s>> \in objects /\ ~reads[n][s].hole /\ s \notin creator'[c].unseen =>
            LET from == creator'[c].carried[s] IN from # 0 /\ ~reads[from][s].hole
  BY <1>1
<1> QED
  BY <1>2, ReadsInvariant, PTL DEF ReadsSpec, ReadOnce

\* Two results of a part make one of them reusable: the later one, if either does not
\* tell of its hole or the run before it told of the same.
LEMMA OneOfTwoIsReusable ==
  ASSUME NEW s \in Parts, NEW a \in ReadRuns, NEW b \in ReadRuns, a < b,
         Status(a, s) \in HasRead, Status(b, s) \in HasRead
  PROVE  PriorResults(s) # {}
<1>1. CASE ~HasUnread(b, s)
  BY <1>1 DEF PriorResults
<1>2. CASE HasUnread(b, s)
  <2>1. Before(b, s) \subseteq 1..MaxReads /\ MaxReads \in Nat /\ a \in Before(b, s)
    BY ReadBounds DEF Before
  <2>2. PICK m \in Before(b, s) : \A k \in Before(b, s) : k <= m
    <3>1. Before(b, s) # {}
      BY <2>1
    <3> QED
      BY <2>1, <3>1, GreatestOfRange
  <2>3. CASE HasUnread(m, s)
    BY <1>2, <2>2, <2>3 DEF HoleIsStable, PriorResults
  <2>4. CASE ~HasUnread(m, s)
    BY <2>2, <2>4 DEF Before, PriorResults
  <2> QED
    BY <2>3, <2>4
<1> QED
  BY <1>1, <1>2

\* A hole that was bought twice is not bought a third time by a run whose look at S3
\* confirms the answer: the run carries one of the two, whichever of the rows came to
\* tell of its hole (hole_is_stable).
THEOREM NoThirdPurchase == ReadsSpec => NoThirdRead
<1>1. ASSUME RInv, [ReadsNext]_allVars, NEW c \in Creators, NEW s \in Parts, Decides(c),
             Cardinality({n \in ReadRuns : <<n, s>> \in objects}) > 1,
             s \notin creator'[c].unseen
      PROVE  creator'[c].carried[s] # 0
  <2> DEFINE bought == {n \in ReadRuns : <<n, s>> \in objects}
  <2>1. PICK a \in bought, b \in bought : a # b
    <3>1. Cardinality(bought) > 1
      BY <1>1
    <3> HIDE DEF bought
    <3>2. Cardinality({}) = 0 /\ \A x : Cardinality({x}) = 1
      BY FS_EmptySet, FS_Singleton
    <3>3. bought # {} /\ \A x : bought # {x}
      BY <3>1, <3>2
    <3>4. PICK a \in bought : TRUE
      BY <3>3
    <3>5. \E b \in bought : a # b
      BY <3>3, <3>4
    <3> QED
      BY <3>4, <3>5
  <2>2. /\ Status(a, s) \in HasRead /\ Status(b, s) \in HasRead
        /\ a \in ReadRuns /\ b \in ReadRuns /\ a \in Nat /\ b \in Nat
    BY <1>1, ReadBounds DEF RInv, Stored
  <2>3. PriorResults(s) # {}
    <3>1. a < b \/ b < a
      BY <2>1, <2>2
    <3> QED
      BY <2>2, <3>1, OneOfTwoIsReusable
  <2> QED
    BY <1>1, <2>3, ReusableIs, DecidingIsCarrying, DecidedCarry
<1>2. RInv /\ [ReadsNext]_allVars =>
        \A c \in Creators, s \in Parts :
          /\ Decides(c) /\ Cardinality({n \in ReadRuns : <<n, s>> \in objects}) > 1
          /\ s \notin creator'[c].unseen
          => creator'[c].carried[s] # 0
  BY <1>1
<1> QED
  BY <1>2, ReadsInvariant, PTL DEF ReadsSpec, NoThirdRead
=============================================================================
