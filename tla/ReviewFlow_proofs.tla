---------------------------- MODULE ReviewFlow_proofs ----------------------------
(***************************************************************************)
(* What ReviewFlow promises of review 2 and of the opinions, for every     *)
(* number of runs, boxes, presses and deaths.                              *)
(*                                                                         *)
(* The status of the scan is the only lock.  It holds as long as nobody    *)
(* takes a claim from a worker that goes on: then one worker at most is    *)
(* at work, and what it read of the runs, the boxes and the ledger is      *)
(* still so when it writes, but for what people do meanwhile, who only     *)
(* add boxes and close runs.                                               *)
(***************************************************************************)
EXTENDS ReviewFlow, TLAPS

\* Nobody re-queues a scan under its worker, or there is no other worker to
\* take it (ScanAdmin._requeue against the park of services.py).
OneHolder == "requeue" \in Events => \A w, v \in Workers : w = v

Working(w) == worker[w].step # "idle"

\* A worker at work holds the scan, unless an admin has queued it again.
HolderFits ==
  /\ curator.requeue => "requeue" \in Events
  /\ \A w \in Workers : Working(w) =>
       \/ status = "processing" /\ action = worker[w].doing
       \/ status = "queued" /\ action = "pipeline" /\ "requeue" \in Events
  /\ \A w, v \in Workers : Working(w) /\ Working(v) => w = v

ApplySteps   == {"phase", "build", "commit", "glue", "supersede"}
ComputeSteps == {"begin", "read", "write", "stamp"}

\* A worker is at a step of the action it was started for.
StepFits ==
  \A w \in Workers :
    /\ worker[w].step \in ApplySteps => worker[w].doing = "apply"
    /\ worker[w].step \in ComputeSteps => worker[w].doing \in {"compute", "compute_create"}
    /\ worker[w].step \in {"look", "create"} => worker[w].doing = "create"

\* The runs are numbered without a gap, and one stands at most.
RunsFit ==
  /\ \A n, m \in Standing : n = m
  /\ \E k \in 0..MaxRuns : Made = 1..k
  /\ \A n \in Runs : n \notin Made => runs[n].attempts = 0
  /\ ledger.run # NoRun => ledger.run \in Made

\* A build is of a run that has an attempt left.
BuildFits ==
  \A w \in Workers : worker[w].step \in {"build", "commit"} =>
    worker[w].run \in Made /\ runs[worker[w].run].attempts < MaxAttempts

\* What a compute has read and written of the boxes, and that no other run came
\* to stand since it began.
MeasureFits ==
  \A w \in Workers :
    /\ worker[w].step \in {"read", "write", "stamp"} =>
         /\ worker[w].run \in Made /\ Standing \subseteq {worker[w].run}
         /\ worker[w].seen <= boxes
    /\ worker[w].step = "write" =>
         worker[w].seen <= worker[w].boxes /\ ledger.read <= worker[w].boxes
    /\ worker[w].step = "stamp" =>
         geometry.run = worker[w].run /\ worker[w].seen <= geometry.boxes
    /\ worker[w].step = "create" => worker[w].seen <= geometry.boxes

\* The time the ledger notes is never later than the boxes in the redactions,
\* and a standing run the ledger calls measured is the one they are of.
LedgerFits ==
  /\ ledger.read <= boxes /\ ledger.read <= geometry.boxes
  /\ \A n \in Standing : ledger.applied /\ ledger.run = n => geometry.run = n
  /\ opinions.look <= opinions.boxes

\* From review 2 on, the opinions' own claims included.
InReview ==
  \/ status \in {"redaction_review", "redaction_done"}
  \/ status \in Busy /\ action \in Approval
  \/ \E w \in Workers : Working(w) /\ worker[w].doing \in Approval

ReviewFits ==
  InReview /\ Standing # {} => FinalRun # NoRun /\ geometry.run = FinalRun

IInv ==
  /\ TypeOK /\ HolderFits /\ StepFits /\ RunsFit /\ BuildFits /\ MeasureFits
  /\ LedgerFits /\ ReviewFits

-----------------------------------------------------------------------------
(* Sets of runs, and the slots of the workers.                             *)

LEMMA OneOf ==
  ASSUME NEW S, S \subseteq Runs, \A n, m \in S : n = m
  PROVE  /\ S = {} => Newest(S) = NoRun
         /\ \A n \in S : Newest(S) = n /\ n # NoRun
         /\ Newest(S) \in 0..MaxRuns
<1>1. MaxRuns \in Nat
  BY ReviewAssumption
<1>2. CASE S = {}
  BY <1>1, <1>2 DEF Newest, NoRun
<1>3. ASSUME NEW n \in S PROVE Newest(S) = n /\ n # NoRun /\ n \in 0..MaxRuns
  <2>1. n \in Runs /\ S = {n}
    OBVIOUS
  <2>2. n \in 1..MaxRuns
    BY <2>1 DEF Runs
  <2>3. Newest({n}) = n
    BY <2>2, <1>1 DEF Newest
  <2> QED
    BY <2>1, <2>2, <2>3, <1>1 DEF NoRun
<1> QED
  BY <1>2, <1>3

LEMMA NewestOfRange ==
  ASSUME NEW k \in Nat
  PROVE  Newest(1..k) = k
<1>1. CASE k = 0
  BY <1>1 DEF Newest, NoRun
<1>2. CASE k # 0
  <2>1. k \in 1..k /\ \A m \in 1..k : m <= k
    BY <1>2
  <2>2. \A n \in 1..k : (\A m \in 1..k : m <= n) => n = k
    BY <2>1
  <2>3. Newest(1..k) = CHOOSE n \in 1..k : \A m \in 1..k : m <= n
    BY <2>1 DEF Newest
  <2> QED
    BY <2>1, <2>2, <2>3
<1> QED
  BY <1>1, <1>2

\* The current run is the one that stands.
LEMMA CurrentIs ==
  ASSUME RunsFit
  PROVE  /\ Standing = {} => CurrentRun = NoRun
         /\ \A n \in Standing : CurrentRun = n
         /\ CurrentRun # NoRun => CurrentRun \in Standing
         /\ Standing \subseteq Made /\ Made \subseteq Runs
         /\ FinalRun # NoRun => FinalRun \in Standing
         /\ FinalRun \in 0..MaxRuns
<1>1. Standing \subseteq Runs /\ Standing \subseteq Made /\ Made \subseteq Runs
  BY DEF Standing, Made
<1>2. \A n, m \in Standing : n = m
  BY DEF RunsFit
<1>3. /\ Standing = {} => CurrentRun = NoRun
      /\ \A n \in Standing : CurrentRun = n
      /\ CurrentRun \in 0..MaxRuns
  BY <1>1, <1>2, OneOf DEF CurrentRun
<1>4. FinalRun = CurrentRun \/ FinalRun = NoRun
  BY DEF FinalRun
<1>5. NoRun \in 0..MaxRuns
  BY ReviewAssumption DEF NoRun
<1> QED
  BY <1>1, <1>3, <1>4, <1>5

\* Only slot w changes.
Sets(w, s) == worker' = [worker EXCEPT ![w] = s]

LEMMA SlotSet ==
  ASSUME worker \in [Workers -> Slot], NEW w \in Workers, NEW s \in Slot, Sets(w, s)
  PROVE  /\ worker' \in [Workers -> Slot] /\ worker'[w] = s
         /\ \A v \in Workers : v # w => worker'[v] = worker[v]
BY DEF Sets

LEMMA IdleSlot == Idle \in Slot /\ Idle.step = "idle"
BY ReviewAssumption DEF Idle, Slot, Steps, Actions, Approval, NoRun

LEMMA SlotStep ==
  ASSUME NEW s \in Slot, NEW x \in Steps
  PROVE  LET t == [s EXCEPT !.step = x] IN
         /\ t \in Slot /\ t.step = x /\ t.doing = s.doing /\ t.run = s.run
         /\ t.edits = s.edits /\ t.seen = s.seen /\ t.boxes = s.boxes /\ t.ok = s.ok
BY DEF Slot

LEMMA SlotParked ==
  ASSUME NEW a \in Actions, NEW b \in BOOLEAN
  PROVE  LET t == [Idle EXCEPT !.step = "park", !.doing = a, !.ok = b] IN
         t \in Slot /\ t.step = "park" /\ t.doing = a /\ t.ok = b
<1>1. "park" \in Steps
  BY DEF Steps
<1>2. ASSUME NEW s \in Slot
      PROVE  LET t == [s EXCEPT !.step = "park", !.doing = a, !.ok = b] IN
             t \in Slot /\ t.step = "park" /\ t.doing = a /\ t.ok = b
  BY <1>1, <1>2 DEF Slot
<1> QED
  BY <1>2, IdleSlot

\* What a worker's slot says after it took a step, parked or ended.
LEMMA GoesIs ==
  ASSUME worker \in [Workers -> Slot], NEW w \in Workers, NEW x \in Steps, Goes(w, x)
  PROVE  /\ worker' \in [Workers -> Slot]
         /\ worker'[w].step = x /\ worker'[w].doing = worker[w].doing
         /\ worker'[w].run = worker[w].run /\ worker'[w].edits = worker[w].edits
         /\ worker'[w].seen = worker[w].seen /\ worker'[w].boxes = worker[w].boxes
         /\ worker'[w].ok = worker[w].ok
         /\ \A v \in Workers : v # w => worker'[v] = worker[v]
<1> DEFINE t == [worker[w] EXCEPT !.step = x]
<1>1. Sets(w, t)
  BY DEF Goes, Sets
<1>2. worker[w] \in Slot
  OBVIOUS
<1>3. /\ t \in Slot /\ t.step = x /\ t.doing = worker[w].doing /\ t.run = worker[w].run
      /\ t.edits = worker[w].edits /\ t.seen = worker[w].seen /\ t.boxes = worker[w].boxes
      /\ t.ok = worker[w].ok
  BY <1>2, SlotStep
<1> HIDE DEF t
<1> QED
  BY <1>1, <1>3, SlotSet

LEMMA ParksIs ==
  ASSUME worker \in [Workers -> Slot], NEW w \in Workers, NEW b \in BOOLEAN, Parks(w, b)
  PROVE  /\ worker' \in [Workers -> Slot]
         /\ worker'[w].step = "park" /\ worker'[w].doing = worker[w].doing
         /\ worker'[w].ok = b
         /\ \A v \in Workers : v # w => worker'[v] = worker[v]
<1> DEFINE t == [Idle EXCEPT !.step = "park", !.doing = worker[w].doing, !.ok = b]
<1>1. Sets(w, t)
  BY DEF Parks, Sets
<1>2. worker[w].doing \in Actions
  BY DEF Slot
<1>3. t \in Slot /\ t.step = "park" /\ t.doing = worker[w].doing /\ t.ok = b
  BY <1>2, SlotParked
<1> HIDE DEF t
<1> QED
  BY <1>1, <1>3, SlotSet

LEMMA EndsIs ==
  ASSUME worker \in [Workers -> Slot], NEW w \in Workers, Ends(w)
  PROVE  /\ worker' \in [Workers -> Slot] /\ worker'[w].step = "idle"
         /\ \A v \in Workers : v # w => worker'[v] = worker[v]
BY IdleSlot, SlotSet DEF Ends, Sets

-----------------------------------------------------------------------------
(* What each kind of step keeps.                                           *)

\* A worker at work is the only one.
LEMMA Alone ==
  ASSUME HolderFits, NEW w \in Workers, Working(w)
  PROVE  \A v \in Workers : v # w => ~Working(v)
BY DEF HolderFits

\* Slot w moves and the others stay; it is idle after, or at the same action.
Moves(w) ==
  /\ worker' \in [Workers -> Slot]
  /\ \A v \in Workers : v # w => worker'[v] = worker[v]
  /\ worker'[w].step = "idle" \/ worker'[w].doing = worker[w].doing

LEMMA HolderMoves ==
  ASSUME HolderFits, NEW w \in Workers, Working(w), Moves(w), UNCHANGED <<scanVars, curator>>
  PROVE  HolderFits'
<1>1. \A v \in Workers : v # w => ~Working(v)'
  BY Alone DEF Moves, Working
<1>2. Working(w)' => worker'[w].doing = worker[w].doing
  BY DEF Moves, Working
<1> QED
  BY <1>1, <1>2 DEF HolderFits, Working, scanVars

\* Once the worker ended nobody works.
LEMMA HolderEnds ==
  ASSUME HolderFits, NEW w \in Workers, Working(w), Moves(w), worker'[w].step = "idle",
         UNCHANGED curator
  PROVE  HolderFits' /\ \A v \in Workers : ~Working(v)'
<1>1. \A v \in Workers : v # w => ~Working(v)'
  BY Alone DEF Moves, Working
<1>2. ~Working(w)'
  BY DEF Working
<1> QED
  BY <1>1, <1>2 DEF HolderFits

\* A scan in nobody's hands: at a status no claim is under.
LEMMA NobodyWorks ==
  ASSUME HolderFits, status \notin Busy
  PROVE  \A w \in Workers : ~Working(w)
BY DEF HolderFits, Busy

\* The three predicates on slots hold when nobody works.
LEMMA IdleFits ==
  ASSUME \A w \in Workers : ~Working(w)
  PROVE  StepFits /\ BuildFits /\ MeasureFits
BY DEF Working, StepFits, BuildFits, MeasureFits, ApplySteps, ComputeSteps

LEMMA IdleFitsNext ==
  ASSUME \A w \in Workers : ~Working(w)'
  PROVE  StepFits' /\ BuildFits' /\ MeasureFits'
BY DEF Working, StepFits, BuildFits, MeasureFits, ApplySteps, ComputeSteps

\* An apply worker's step: review 2 is not open while it works.
LEMMA ApplyOutOfReview ==
  ASSUME HolderFits, NEW w \in Workers, Working(w), worker[w].doing = "apply", Moves(w),
         UNCHANGED scanVars
  PROVE  ~InReview'
<1>1. \A v \in Workers : v # w => ~Working(v)'
  BY Alone DEF Moves, Working
<1>2. Working(w)' => worker'[w].doing = "apply"
  BY DEF Moves, Working
<1>3. \/ status' = "processing" /\ action' = "apply"
      \/ status' = "queued" /\ action' = "pipeline"
  BY DEF HolderFits, scanVars
<1> QED
  BY <1>1, <1>2, <1>3 DEF InReview, Approval

LEMMA ReviewClosed ==
  ASSUME ~InReview'
  PROVE  ReviewFits'
BY DEF ReviewFits

\* The runs and the geometry stay, and review 2 was open.
LEMMA ReviewKept ==
  ASSUME ReviewFits, InReview' => InReview, UNCHANGED <<runs, geometry>>
  PROVE  ReviewFits'
<1>1. Standing' = Standing /\ FinalRun' = FinalRun
  BY DEF Standing, FinalRun, CurrentRun
<1> QED
  BY <1>1 DEF ReviewFits

LEMMA ReviewMoves ==
  ASSUME NEW w \in Workers, Working(w), Moves(w), UNCHANGED scanVars
  PROVE  InReview' => InReview
BY DEF InReview, Moves, Working, scanVars

LEMMA RunsKept ==
  ASSUME RunsFit, UNCHANGED runs, ledger'.run \in {ledger.run, NoRun} \cup Made
  PROVE  RunsFit' /\ Standing' = Standing /\ Made' = Made
<1>1. Standing' = Standing /\ Made' = Made
  BY DEF Standing, Made
<1> QED
  BY <1>1 DEF RunsFit

\* More boxes than before, and nothing else of what the ledger speaks of.
LEMMA LedgerKept ==
  ASSUME TypeOK, LedgerFits, boxes' \in 0..MaxBoxes, boxes <= boxes', Standing' \subseteq Standing,
         UNCHANGED <<ledger, geometry, opinions>>
  PROVE  LedgerFits'
<1>1. ledger.read \in Nat /\ boxes \in Nat /\ boxes' \in Nat
  BY ReviewAssumption DEF TypeOK
<1>2. ledger.read <= boxes'
  BY <1>1 DEF LedgerFits
<1> QED
  BY <1>2 DEF LedgerFits

\* Nobody writes what a worker measured against, but people who draw a box.
LEMMA SlotsKept ==
  ASSUME TypeOK, StepFits, BuildFits, MeasureFits, UNCHANGED <<worker, geometry, ledger>>,
         boxes' \in 0..MaxBoxes, boxes <= boxes', Standing' \subseteq Standing, Made' = Made,
         \A n \in Runs : runs'[n].attempts = runs[n].attempts
  PROVE  StepFits' /\ BuildFits' /\ MeasureFits'
<1>1. StepFits'
  BY DEF StepFits
<1>2. BuildFits'
  <2>1. Made \subseteq Runs
    BY DEF Made
  <2> QED
    BY <2>1 DEF BuildFits
<1>3. MeasureFits'
  <2>1. \A w \in Workers : worker[w].seen \in Nat
    BY DEF TypeOK, Slot
  <2>2. boxes \in Nat /\ boxes' \in Nat
    BY DEF TypeOK
  <2>3. \A w \in Workers : worker[w].seen <= boxes => worker[w].seen <= boxes'
    BY <2>1, <2>2
  <2> QED
    BY <2>3 DEF MeasureFits
<1> QED
  BY <1>1, <1>2, <1>3

-----------------------------------------------------------------------------
(* Closing every standing run.                                             *)

LEMMA RowsCancelled ==
  ASSUME NEW rows \in [Glues -> RowStates]
  PROVE  CancelOpen(rows) \in [Glues -> RowStates]
BY DEF CancelOpen, RowStates

LEMMA SupersededRow ==
  ASSUME NEW s \in RunRow
  PROVE  LET t == [s EXCEPT !.is = "superseded", !.rows = CancelOpen(@)] IN
         t \in RunRow /\ t.is = "superseded" /\ t.attempts = s.attempts
<1>1. CancelOpen(s.rows) \in [Glues -> RowStates]
  BY RowsCancelled DEF RunRow
<1> HIDE DEF CancelOpen
<1> QED
  BY <1>1 DEF RunRow

LEMMA SupersededIs ==
  ASSUME runs \in [Runs -> RunRow]
  PROVE  /\ Superseded \in [Runs -> RunRow]
         /\ \A n \in Runs : /\ Superseded[n].attempts = runs[n].attempts
                            /\ runs[n].is = "standing" => Superseded[n].is = "superseded"
                            /\ runs[n].is # "standing" => Superseded[n] = runs[n]
<1>1. ASSUME NEW n \in Runs
      PROVE  LET t == IF runs[n].is = "standing"
                      THEN [runs[n] EXCEPT !.is = "superseded", !.rows = CancelOpen(@)]
                      ELSE runs[n] IN
             /\ t \in RunRow /\ t.attempts = runs[n].attempts
             /\ runs[n].is = "standing" => t.is = "superseded"
             /\ runs[n].is # "standing" => t = runs[n]
  <2>1. runs[n] \in RunRow
    OBVIOUS
  <2> QED
    BY <2>1, SupersededRow
<1> QED
  BY <1>1 DEF Superseded

LEMMA Closing ==
  ASSUME runs \in [Runs -> RunRow], runs' = Superseded
  PROVE  /\ runs' \in [Runs -> RunRow] /\ Standing' = {} /\ Made' = Made
         /\ \A n \in Runs : runs'[n].attempts = runs[n].attempts
<1>1. /\ runs' \in [Runs -> RunRow]
      /\ \A n \in Runs : /\ runs'[n].attempts = runs[n].attempts
                         /\ runs[n].is = "standing" => runs'[n].is = "superseded"
                         /\ runs[n].is # "standing" => runs'[n] = runs[n]
  BY SupersededIs
<1> QED
  BY <1>1 DEF Standing, Made

\* A request that closes the runs, the scan and the workers as they were.
LEMMA RequestCloses ==
  ASSUME IInv, runs' = Superseded,
         UNCHANGED <<scanVars, merged, ledger, geometry, opinions, edits, boxes, worker, kills>>
  PROVE  /\ runs' \in [Runs -> RunRow] /\ RunsFit' /\ StepFits' /\ BuildFits' /\ MeasureFits'
         /\ LedgerFits' /\ ReviewFits'
<1>1. /\ runs' \in [Runs -> RunRow] /\ Standing' = {} /\ Made' = Made
      /\ \A n \in Runs : runs'[n].attempts = runs[n].attempts
  BY Closing DEF IInv, TypeOK
<1>2. boxes' \in 0..MaxBoxes /\ boxes <= boxes'
  BY ReviewAssumption DEF IInv, TypeOK
<1>3. RunsFit'
  BY <1>1 DEF RunsFit, IInv
<1>4. StepFits' /\ BuildFits' /\ MeasureFits'
  BY <1>1, <1>2, SlotsKept DEF IInv
<1>5. LedgerFits'
  BY <1>1, <1>2, LedgerKept DEF IInv
<1>6. ReviewFits'
  BY <1>1 DEF ReviewFits
<1> QED
  BY <1>1, <1>3, <1>4, <1>5, <1>6

-----------------------------------------------------------------------------
(* Claims and ticks.                                                       *)

LEMMA InitFits == Init => IInv
<1> SUFFICES ASSUME Init PROVE IInv
  OBVIOUS
<1>1. \A w \in Workers : ~Working(w)
  BY IdleSlot DEF Init, Working
<1>2. \A n \in Runs : runs[n].is = "none" /\ runs[n].attempts = 0
  BY DEF Init, NoRow
<1>3. Standing = {} /\ Made = {}
  BY <1>2 DEF Standing, Made
<1>4. TypeOK
  <2>1. NoRow \in RunRow
    BY ReviewAssumption DEF NoRow, RunRow, RowStates
  <2>2. runs \in [Runs -> RunRow]
    BY <2>1 DEF Init
  <2>3. worker \in [Workers -> Slot]
    BY IdleSlot DEF Init
  <2>4. /\ ledger \in [run : 0..MaxRuns, applied : BOOLEAN, read : 0..MaxBoxes,
                       attempts : 0..MaxAttempts]
        /\ geometry \in [run : 0..MaxRuns, boxes : 0..MaxBoxes]
        /\ opinions \in [run : 0..MaxRuns, boxes : 0..MaxBoxes, look : 0..MaxBoxes]
    BY ReviewAssumption DEF Init, NoState, NoRun
  <2> QED
    BY <2>2, <2>3, <2>4, ReviewAssumption DEF Init, TypeOK, Statuses, Actions
<1>5. HolderFits
  BY <1>1 DEF Init, HolderFits
<1>6. RunsFit
  <2>1. 0 \in 0..MaxRuns /\ 1..0 = {}
    BY ReviewAssumption
  <2> QED
    BY <1>2, <1>3, <2>1 DEF Init, RunsFit, NoState
<1>7. LedgerFits
  BY <1>3 DEF Init, LedgerFits, NoState
<1>8. ReviewFits
  BY <1>3 DEF ReviewFits
<1> QED
  BY <1>1, <1>4, <1>5, <1>6, <1>7, <1>8, IdleFits DEF IInv

LEMMA FirstStepIs ==
  ASSUME NEW a \in Actions
  PROVE  /\ FirstStep(a) \in {"phase", "look", "park", "begin"}
         /\ a = "apply" => FirstStep(a) = "phase"
         /\ a = "create" => FirstStep(a) = "look"
         /\ a = "pipeline" => FirstStep(a) = "park"
         /\ a \in {"compute", "compute_create"} => FirstStep(a) = "begin"
BY DEF FirstStep, Actions, Approval

LEMMA ClaimStep ==
  ASSUME OneHolder, IInv, NEW w \in Workers, Claim(w)
  PROVE  IInv'
<1> DEFINE t == [Idle EXCEPT !.step = FirstStep(action), !.doing = action]
<1>0. action \in Actions /\ FirstStep(action) \in Steps
  BY FirstStepIs DEF IInv, TypeOK, Steps
<1>1. t \in Slot /\ t.step = FirstStep(action) /\ t.doing = action
  <2>1. ASSUME NEW s \in Slot
        PROVE  LET u == [s EXCEPT !.step = FirstStep(action), !.doing = action] IN
               u \in Slot /\ u.step = FirstStep(action) /\ u.doing = action
    BY <1>0, <2>1 DEF Slot
  <2> QED
    BY <2>1, IdleSlot
<1>2. Sets(w, t)
  BY DEF Claim, Sets
<1>3. /\ worker' \in [Workers -> Slot] /\ worker'[w].step = FirstStep(action)
      /\ worker'[w].doing = action
      /\ \A v \in Workers : v # w => worker'[v] = worker[v]
  <2> HIDE DEF t
  <2> QED
    BY <1>1, <1>2, SlotSet DEF IInv, TypeOK
<1>4. \A v \in Workers : ~Working(v)
  <2> SUFFICES ASSUME NEW v \in Workers, Working(v) PROVE FALSE
    OBVIOUS
  <2>1. "requeue" \in Events
    BY DEF IInv, HolderFits, Claim
  <2>2. v = w
    BY <2>1 DEF OneHolder
  <2> QED
    BY <2>2 DEF Claim, IsAt, Working
<1>5. \A v \in Workers : v # w => ~Working(v)'
  BY <1>3, <1>4 DEF Working
<1>6. TypeOK'
  BY <1>3 DEF IInv, TypeOK, Claim, workVars, humanVars, Statuses
<1>7. HolderFits'
  BY <1>3, <1>5 DEF IInv, HolderFits, Claim, humanVars, Working
<1>8. StepFits' /\ BuildFits' /\ MeasureFits'
  <2>1. worker'[w].step \in {"phase", "look", "park", "begin"}
    BY <1>0, <1>3, FirstStepIs
  <2>2. StepFits'
    BY <1>0, <1>3, <1>5, FirstStepIs DEF StepFits, Working, ApplySteps, ComputeSteps, Actions, Approval
  <2>3. BuildFits'
    BY <2>1, <1>5 DEF BuildFits, Working
  <2>4. MeasureFits'
    BY <2>1, <1>5 DEF MeasureFits, Working
  <2> QED
    BY <2>2, <2>3, <2>4
<1>9. RunsFit' /\ Standing' = Standing
  BY RunsKept DEF IInv, Claim, workVars
<1>10. LedgerFits'
  <2>1. boxes' \in 0..MaxBoxes /\ boxes <= boxes'
    BY ReviewAssumption DEF IInv, TypeOK, Claim, humanVars
  <2> QED
    BY <1>9, <2>1, LedgerKept DEF IInv, Claim, workVars
<1>11. InReview' => InReview
  BY <1>3, <1>5 DEF InReview, Claim, Working, Busy
<1>12. ReviewFits'
  BY <1>11, ReviewKept DEF IInv, Claim, workVars
<1> QED
  BY <1>6, <1>7, <1>8, <1>9, <1>10, <1>12 DEF IInv

\* The runs, the ledger, the boxes and what was written stay.
LEMMA WorkStays ==
  ASSUME IInv, UNCHANGED <<workVars, boxes>>
  PROVE  RunsFit' /\ LedgerFits' /\ Standing' = Standing /\ Made' = Made
<1>1. RunsFit' /\ Standing' = Standing /\ Made' = Made
  BY RunsKept DEF IInv, workVars
<1>2. boxes' \in 0..MaxBoxes /\ boxes <= boxes'
  BY ReviewAssumption DEF IInv, TypeOK
<1> QED
  BY <1>1, <1>2, LedgerKept DEF IInv, workVars

\* Nobody works, and none of what the work speaks of changes but the status.
LEMMA StatusMoves ==
  ASSUME IInv, \A w \in Workers : ~Working(w), UNCHANGED <<workVars, humanVars, worker, kills>>,
         status' \in Statuses, action' \in Actions, InReview' => InReview
  PROVE  IInv'
<1>1. TypeOK'
  BY DEF IInv, TypeOK, workVars, humanVars
<1>2. \A w \in Workers : ~Working(w)'
  BY DEF Working
<1>3. HolderFits'
  BY <1>2 DEF IInv, HolderFits, humanVars
<1>4. StepFits' /\ BuildFits' /\ MeasureFits'
  BY <1>2, IdleFitsNext
<1>5. RunsFit' /\ LedgerFits'
  BY WorkStays DEF humanVars
<1>6. ReviewFits'
  BY ReviewKept DEF IInv, workVars
<1> QED
  BY <1>1, <1>3, <1>4, <1>5, <1>6 DEF IInv

LEMMA RecoverStaleStep ==
  ASSUME IInv, RecoverStale
  PROVE  IInv'
<1>1. \A w \in Workers : ~Working(w)
  BY DEF IInv, HolderFits, RecoverStale, Beating, Working
<1>2. status' \in Statuses /\ action' \in Actions
  BY DEF IInv, TypeOK, RecoverStale, Statuses
<1>3. InReview' => InReview
  BY <1>1 DEF InReview, RecoverStale, Working, Busy
<1> QED
  BY <1>1, <1>2, <1>3, StatusMoves DEF RecoverStale

LEMMA KillStep ==
  ASSUME IInv, Kill
  PROVE  IInv'
<1>1. PICK w \in Workers : worker[w].step # "idle" /\ Ends(w)
  BY DEF Kill
<1>2. Moves(w) /\ worker'[w].step = "idle"
  BY <1>1, EndsIs DEF IInv, TypeOK, Moves
<1>3. HolderFits' /\ \A v \in Workers : ~Working(v)'
  BY <1>1, <1>2, HolderEnds DEF IInv, Working, Kill, humanVars
<1>4. TypeOK'
  <2>1. kills' \in 0..MaxKills
    BY ReviewAssumption DEF Kill, IInv, TypeOK
  <2> QED
    BY <1>2, <2>1 DEF IInv, TypeOK, Kill, Moves, scanVars, workVars, humanVars
<1>5. RunsFit' /\ LedgerFits'
  BY WorkStays DEF Kill, humanVars
<1>6. InReview' => InReview
  BY <1>1, <1>2, ReviewMoves DEF Kill, Working
<1>7. ReviewFits'
  BY <1>6, ReviewKept DEF IInv, Kill, workVars
<1> QED
  BY <1>3, <1>4, <1>5, <1>7, IdleFitsNext DEF IInv

LEMMA QueueApplyStep ==
  ASSUME IInv, QueueApply
  PROVE  IInv'
<1>1. \A w \in Workers : ~Working(w)
  BY NobodyWorks DEF IInv, QueueApply, Busy
<1>2. status' \in Statuses /\ action' \in Actions /\ ~InReview'
  BY <1>1 DEF QueueApply, Queued, Statuses, Actions, InReview, Approval, Working
<1> QED
  BY <1>1, <1>2, StatusMoves DEF QueueApply

\* The final run stands, is built and glued.
LEMMA QueueComputeStep ==
  ASSUME IInv, QueueCompute
  PROVE  IInv'
<1>1. \A w \in Workers : ~Working(w)
  BY NobodyWorks DEF IInv, QueueCompute, Busy
<1>2. ComputeDue \in Standing /\ ComputeDue \in 0..MaxRuns
  BY CurrentIs DEF IInv, QueueCompute, ComputeDue
<1>3. \/ ledger' = ledger
      \/ ledger' = [run |-> ComputeDue, applied |-> FALSE, read |-> 0, attempts |-> 0]
  BY DEF QueueCompute, LedgerFor, NoState
<1>4. /\ ledger' \in [run : 0..MaxRuns, applied : BOOLEAN, read : 0..MaxBoxes,
                      attempts : 0..MaxAttempts]
      /\ ledger'.run \in {ledger.run, NoRun} \cup Made
      /\ ledger'.read = ledger.read \/ ledger'.read = 0
      /\ ledger'.applied => ledger' = ledger
  <2>1. ledger \in [run : 0..MaxRuns, applied : BOOLEAN, read : 0..MaxBoxes,
                    attempts : 0..MaxAttempts]
    BY DEF IInv, TypeOK
  <2>2. CASE ledger' = ledger
    BY <2>1, <2>2
  <2>3. CASE ledger' = [run |-> ComputeDue, applied |-> FALSE, read |-> 0, attempts |-> 0]
    <3>1. ComputeDue \in Made
      BY <1>2, CurrentIs DEF IInv
    <3> QED
      BY <1>2, <2>3, <3>1, ReviewAssumption
  <2> QED
    BY <1>3, <2>2, <2>3
<1>5. TypeOK'
  BY <1>4 DEF IInv, TypeOK, QueueCompute, Queued, humanVars, Statuses, Actions
<1>6. \A w \in Workers : ~Working(w)'
  BY <1>1 DEF QueueCompute, Working
<1>7. HolderFits'
  BY <1>6 DEF IInv, HolderFits, QueueCompute, humanVars
<1>8. RunsFit' /\ Standing' = Standing
  BY <1>4, RunsKept DEF IInv, QueueCompute
<1>9. LedgerFits'
  <2>1. geometry.boxes \in Nat /\ boxes \in Nat
    BY DEF IInv, TypeOK
  <2>2. ledger'.read <= boxes /\ ledger'.read <= geometry.boxes
    BY <1>4, <2>1 DEF IInv, LedgerFits
  <2> QED
    BY <1>4, <1>8, <2>2 DEF IInv, LedgerFits, QueueCompute, humanVars
<1>10. ~InReview'
  BY <1>6 DEF QueueCompute, Queued, InReview, Approval
<1> QED
  BY <1>5, <1>6, <1>7, <1>8, <1>9, <1>10, IdleFitsNext, ReviewClosed DEF IInv

\* Review 2 opens: the ledger was measured against the final run.
LEMMA ReadyIsReviewed ==
  ASSUME IInv, RedactionReviewReady
  PROVE  FinalRun # NoRun /\ geometry.run = FinalRun
<1>1. FinalRun # NoRun /\ ledger.applied /\ ledger.run = FinalRun
  BY DEF RedactionReviewReady, RedactionsCurrent
<1> QED
  BY <1>1, CurrentIs DEF IInv, LedgerFits

\* The work and the runs stay, and the final run is the geometry's.
LEMMA ReviewOpens ==
  ASSUME FinalRun # NoRun /\ geometry.run = FinalRun, UNCHANGED workVars
  PROVE  ReviewFits'
<1>1. FinalRun' = FinalRun
  BY DEF FinalRun, CurrentRun, Standing, workVars
<1> QED
  BY <1>1 DEF ReviewFits, workVars

LEMMA PromoteStep ==
  ASSUME IInv, Promote
  PROVE  IInv'
<1>1. \A w \in Workers : ~Working(w)'
  BY NobodyWorks DEF IInv, Promote, Busy, Working
<1>2. TypeOK'
  BY DEF IInv, TypeOK, Promote, workVars, humanVars, Statuses
<1>3. HolderFits'
  BY <1>1 DEF IInv, HolderFits, Promote, humanVars
<1>4. RunsFit' /\ LedgerFits'
  BY WorkStays DEF Promote, humanVars
<1>5. ReviewFits'
  BY ReadyIsReviewed, ReviewOpens DEF Promote
<1> QED
  BY <1>1, <1>2, <1>3, <1>4, <1>5, IdleFitsNext DEF IInv

\* What the properties ask of a run is untouched.
SameRuns ==
  /\ runs' \in [Runs -> RunRow]
  /\ \A n \in Runs : /\ runs'[n].is = runs[n].is /\ runs'[n].built = runs[n].built
                     /\ runs'[n].glues = runs[n].glues /\ runs'[n].attempts = runs[n].attempts

LEMMA SameRunsFinal ==
  ASSUME RunsFit, SameRuns
  PROVE  Standing' = Standing /\ Made' = Made /\ FinalRun' = FinalRun
<1>1. Standing' = Standing /\ Made' = Made
  BY DEF SameRuns, Standing, Made
<1>2. CurrentRun' = CurrentRun
  BY <1>1 DEF CurrentRun
<1>3. CurrentRun # NoRun => CurrentRun \in Runs
  BY CurrentIs DEF Standing
<1> QED
  BY <1>1, <1>2, <1>3 DEF FinalRun, SameRuns

\* A step that leaves the workers, the scan and the results alone, adds boxes at
\* most, and changes no more of a run than its job rows.
LEMMA AsideStep ==
  ASSUME IInv, runs' = runs \/ SameRuns,
         UNCHANGED <<scanVars, ledger, geometry, opinions, worker, kills>>,
         boxes' \in 0..MaxBoxes, boxes <= boxes'
  PROVE  /\ runs' \in [Runs -> RunRow] /\ RunsFit' /\ StepFits' /\ BuildFits' /\ MeasureFits'
         /\ LedgerFits' /\ ReviewFits'
<1>1. SameRuns
  BY DEF SameRuns, IInv, TypeOK
<1>2. Standing' = Standing /\ Made' = Made /\ FinalRun' = FinalRun
  BY <1>1, SameRunsFinal DEF IInv
<1>3. RunsFit'
  BY <1>1, <1>2 DEF IInv, RunsFit, SameRuns
<1>4. StepFits' /\ BuildFits' /\ MeasureFits'
  BY <1>1, <1>2, SlotsKept DEF IInv, SameRuns
<1>5. LedgerFits'
  BY <1>2, LedgerKept DEF IInv
<1>6. ReviewFits'
  BY <1>2 DEF IInv, ReviewFits, InReview, scanVars, Working
<1> QED
  BY <1>1, <1>3, <1>4, <1>5, <1>6 DEF SameRuns

LEMMA HolderStays ==
  ASSUME IInv, UNCHANGED <<scanVars, worker>>, curator'.requeue => curator.requeue
  PROVE  HolderFits'
BY DEF IInv, HolderFits, scanVars, Working

LEMMA DetectionMergedStep ==
  ASSUME IInv, DetectionMerged
  PROVE  IInv'
<1>1. boxes' \in 0..MaxBoxes /\ boxes <= boxes'
  BY ReviewAssumption DEF IInv, TypeOK, DetectionMerged, humanVars
<1>2. RunsFit' /\ StepFits' /\ BuildFits' /\ MeasureFits' /\ LedgerFits' /\ ReviewFits'
  BY <1>1, AsideStep DEF DetectionMerged
<1>3. HolderFits'
  BY HolderStays DEF DetectionMerged, humanVars
<1>4. TypeOK'
  BY DEF IInv, TypeOK, DetectionMerged, scanVars, humanVars
<1> QED
  BY <1>2, <1>3, <1>4 DEF IInv

LEMMA RowsSettleStep ==
  ASSUME IInv, RowsSettle
  PROVE  IInv'
<1>1. boxes' \in 0..MaxBoxes /\ boxes <= boxes'
  BY ReviewAssumption DEF IInv, TypeOK, RowsSettle, humanVars
<1>2. SameRuns
  <2>1. PICK n \in Runs, g \in Glues, end \in RowStates : runs' = [runs EXCEPT ![n].rows[g] = end]
    BY DEF RowsSettle, RowStates
  <2> DEFINE rows == [runs[n].rows EXCEPT ![g] = end]
             t == [runs[n] EXCEPT !.rows = rows]
  <2>2. runs' = [runs EXCEPT ![n] = t]
    BY <2>1
  <2>3. runs[n] \in RunRow /\ runs[n].rows \in [Glues -> RowStates]
    BY DEF IInv, TypeOK, RunRow
  <2>4. rows \in [Glues -> RowStates]
    BY <2>3
  <2>5. /\ t \in RunRow /\ t.is = runs[n].is /\ t.built = runs[n].built
        /\ t.glues = runs[n].glues /\ t.attempts = runs[n].attempts
    <3> HIDE DEF rows
    <3> QED
      BY <2>3, <2>4 DEF RunRow
  <2> HIDE DEF t
  <2> QED
    BY <2>2, <2>5 DEF SameRuns, IInv, TypeOK
<1>3. RunsFit' /\ StepFits' /\ BuildFits' /\ MeasureFits' /\ LedgerFits' /\ ReviewFits'
  BY <1>1, <1>2, AsideStep DEF RowsSettle
<1>4. HolderFits'
  BY HolderStays DEF RowsSettle, humanVars
<1>5. TypeOK'
  BY <1>2 DEF IInv, TypeOK, RowsSettle, SameRuns, scanVars, humanVars
<1> QED
  BY <1>3, <1>4, <1>5 DEF IInv

-----------------------------------------------------------------------------
(* The people.                                                             *)

CuratorRow == [box : BOOLEAN, approve : {"no", "create", "compute_create"},
               reopen : BOOLEAN, requeue : BOOLEAN]

LEMMA CuratorSet ==
  ASSUME NEW c \in CuratorRow
  PROVE  /\ \A b \in BOOLEAN :
              /\ [c EXCEPT !.box = b] \in CuratorRow
              /\ [c EXCEPT !.box = b].requeue = c.requeue
              /\ [c EXCEPT !.reopen = b] \in CuratorRow
              /\ [c EXCEPT !.reopen = b].requeue = c.requeue
              /\ [c EXCEPT !.requeue = b] \in CuratorRow
              /\ [c EXCEPT !.requeue = b].requeue = b
         /\ \A a \in {"no", "create", "compute_create"} :
              /\ [c EXCEPT !.approve = a] \in CuratorRow
              /\ [c EXCEPT !.approve = a].requeue = c.requeue
BY DEF CuratorRow

\* A request that only notes something, or draws a box, or edits a page.
Notes ==
  /\ UNCHANGED <<scanVars, workVars, worker, kills>>
  /\ edits' \in 0..MaxEdits /\ boxes' \in 0..MaxBoxes /\ boxes <= boxes'
  /\ curator' \in CuratorRow /\ presses' \in 0..MaxPresses
  /\ curator'.requeue => curator.requeue

LEMMA NotesStep ==
  ASSUME IInv, Notes
  PROVE  IInv'
<1>1. RunsFit' /\ StepFits' /\ BuildFits' /\ MeasureFits' /\ LedgerFits' /\ ReviewFits'
  BY AsideStep DEF Notes, workVars
<1>2. HolderFits'
  BY HolderStays DEF Notes
<1>3. TypeOK'
  BY DEF IInv, TypeOK, Notes, CuratorRow, scanVars, workVars
<1> QED
  BY <1>1, <1>2, <1>3 DEF IInv

LEMMA HumanTypes ==
  ASSUME IInv
  PROVE  /\ curator \in CuratorRow /\ presses \in 0..MaxPresses /\ edits \in 0..MaxEdits
         /\ boxes \in 0..MaxBoxes /\ boxes <= boxes
BY ReviewAssumption DEF IInv, TypeOK, CuratorRow

LEMMA NotingSteps ==
  ASSUME IInv, EditPages \/ BoxGate \/ ApproveRead
  PROVE  IInv'
<1>1. CASE EditPages
  <2>1. Notes
    BY <1>1, HumanTypes, ReviewAssumption DEF EditPages, Notes
  <2> QED
    BY <2>1, NotesStep
<1>2. CASE BoxGate
  <2>1. Notes
    BY <1>2, HumanTypes, CuratorSet DEF BoxGate, Notes
  <2> QED
    BY <2>1, NotesStep
<1>3. CASE ApproveRead
  <2>1. Notes
    BY <1>3, HumanTypes, CuratorSet DEF ApproveRead, Notes
  <2> QED
    BY <2>1, NotesStep
<1> QED
  BY <1>1, <1>2, <1>3

\* A box that passed the gate has room to land: there is one at a time.
BoxRoom ==
  /\ curator \in CuratorRow /\ boxes \in 0..MaxBoxes
  /\ curator.box => boxes < MaxBoxes

LEMMA BoxRoomNext ==
  ASSUME BoxRoom, [Next]_vars
  PROVE  BoxRoom'
<1>1. \A b \in BOOLEAN : /\ [curator EXCEPT !.box = b].box = b
                         /\ [curator EXCEPT !.reopen = b].box = curator.box
                         /\ [curator EXCEPT !.requeue = b].box = curator.box
  BY DEF BoxRoom, CuratorRow
<1>2. \A a \in {"no", "create", "compute_create"} : [curator EXCEPT !.approve = a].box = curator.box
  BY DEF BoxRoom, CuratorRow
<1>3. CASE UNCHANGED <<curator, boxes>>
  BY <1>3 DEF BoxRoom
<1>4. CASE UNCHANGED humanVars
  BY <1>3, <1>4 DEF humanVars
<1>5. CASE UNCHANGED vars
  BY <1>4, <1>5 DEF vars
<1>6. CASE Tick \/ DetectionMerged \/ RowsSettle \/ RecoverStale \/ Kill
  BY <1>4, <1>6 DEF Tick, QueueApply, QueueCompute, Promote, DetectionMerged, RowsSettle,
                    RecoverStale, Kill
<1>7. ASSUME NEW w \in Workers, Claim(w) \/ Works(w) \/ Fails(w) PROVE BoxRoom'
  <2>1. CASE Claim(w) \/ Fails(w)
    BY <1>4, <2>1 DEF Claim, Fails, ApplyFails, ComputeFails, CreateFails, humanVars
  <2>2. CASE ApplyPhase(w) \/ ApplyRows(w) \/ ApplyCommit(w) \/ ApplyGlue(w) \/ ApplyPark(w)
             \/ ApplySupersedes(w)
    BY <1>4, <2>2 DEF ApplyPhase, ApplyRows, ApplyCommit, ApplyGlue, ApplyPark, ApplySupersedes
  <2>3. CASE ComputeBegin(w) \/ ComputeRead(w) \/ ComputeWrite(w) \/ ComputeStamp(w)
             \/ ComputePark(w)
    BY <1>4, <2>3 DEF ComputeBegin, ComputeRead, ComputeWrite, ComputeStamp, ComputePark
  <2>4. CASE Look(w) \/ Create(w) \/ CreatePark(w) \/ PipelinePark(w)
    BY <1>4, <2>4 DEF Look, Create, CreatePark, PipelinePark
  <2> QED
    BY <1>7, <2>1, <2>2, <2>3, <2>4 DEF Works
<1>8. CASE Requests
  <2>1. CASE BoxLands
    <3>1. boxes' \in 0..MaxBoxes /\ curator'.box = FALSE
      BY <1>1, <2>1, ReviewAssumption DEF BoxLands, BoxRoom
    <3> QED
      BY <2>1, <3>1, CuratorSet DEF BoxLands, BoxRoom
  <2>2. CASE ApproveSwap
    BY <1>2, <2>2, CuratorSet DEF ApproveSwap, BoxRoom
  <2>3. CASE ReopenSupersedes
    BY <1>1, <2>3, CuratorSet DEF ReopenSupersedes, BoxRoom
  <2>4. CASE AdminRequeues
    BY <1>1, <2>4, CuratorSet DEF AdminRequeues, BoxRoom
  <2> QED
    BY <1>8, <2>1, <2>2, <2>3, <2>4 DEF Requests
<1>9. CASE People
  <2>1. CASE EditPages \/ ApprovePages \/ Recompute \/ ReopenRedactions \/ AdminSupersedes
    BY <1>3, <1>4, <2>1 DEF EditPages, ApprovePages, Recompute, ReopenRedactions, AdminSupersedes
  <2>2. CASE BoxGate
    BY <1>1, <2>2, CuratorSet DEF BoxGate, BoxRoom
  <2>3. CASE ApproveRead
    BY <1>2, <2>3, CuratorSet DEF ApproveRead, BoxRoom
  <2>4. CASE ReopenPages
    BY <1>1, <2>4, CuratorSet DEF ReopenPages, BoxRoom
  <2>5. CASE AdminCloses
    BY <1>1, <2>5, CuratorSet DEF AdminCloses, BoxRoom
  <2> QED
    BY <1>9, <2>1, <2>2, <2>3, <2>4, <2>5 DEF People
<1> QED
  BY <1>5, <1>6, <1>7, <1>8, <1>9 DEF Next

LEMMA BoxLandsStep ==
  ASSUME IInv, BoxRoom, BoxLands
  PROVE  IInv'
<1>1. boxes' \in 0..MaxBoxes /\ boxes <= boxes'
  BY ReviewAssumption DEF BoxLands, BoxRoom
<1>2. Notes
  BY <1>1, HumanTypes, CuratorSet DEF BoxLands, Notes
<1> QED
  BY <1>2, NotesStep

\* A request that moves a scan nobody works on.
LEMMA PersonMoves ==
  ASSUME IInv, \A w \in Workers : ~Working(w), UNCHANGED <<workVars, edits, boxes, worker, kills>>,
         status' \in Statuses, action' \in Actions, InReview' => InReview,
         curator' \in CuratorRow, presses' \in 0..MaxPresses, curator'.requeue => curator.requeue
  PROVE  IInv'
<1>1. TypeOK'
  BY DEF IInv, TypeOK, workVars, CuratorRow
<1>2. \A w \in Workers : ~Working(w)'
  BY DEF Working
<1>3. HolderFits'
  BY <1>2 DEF IInv, HolderFits
<1>4. RunsFit' /\ LedgerFits'
  BY WorkStays
<1>5. ReviewFits'
  BY ReviewKept DEF IInv, workVars
<1> QED
  BY <1>1, <1>2, <1>3, <1>4, <1>5, IdleFitsNext DEF IInv

LEMMA PressIs ==
  ASSUME IInv, NEW e, Press(e)
  PROVE  presses' \in 0..MaxPresses
BY ReviewAssumption DEF IInv, TypeOK, Press

LEMMA ApprovePagesStep ==
  ASSUME IInv, ApprovePages
  PROVE  IInv'
<1>1. \A w \in Workers : ~Working(w)
  BY NobodyWorks DEF IInv, ApprovePages, Busy
<1>2. status' \in Statuses /\ action' \in Actions /\ ~InReview'
  BY <1>1 DEF ApprovePages, IInv, TypeOK, Statuses, InReview, Busy, Working
<1> QED
  BY <1>1, <1>2, StatusMoves DEF ApprovePages

LEMMA ApproveSwapStep ==
  ASSUME IInv, ApproveSwap
  PROVE  IInv'
<1>1. curator' \in CuratorRow /\ curator'.requeue = curator.requeue /\ curator.approve \in Approval
  BY HumanTypes, CuratorSet DEF ApproveSwap, CuratorRow, Approval
<1>2. CASE status = "redaction_review"
  <2>1. \A w \in Workers : ~Working(w)
    BY <1>2, NobodyWorks DEF IInv, Busy
  <2>2. status' \in Statuses /\ action' \in Actions
    BY <1>1, <1>2 DEF ApproveSwap, Queued, Statuses, Actions
  <2>3. InReview
    BY <1>2 DEF InReview
  <2> QED
    BY <1>1, <2>1, <2>2, <2>3, HumanTypes, PersonMoves DEF ApproveSwap
<1>3. CASE status # "redaction_review"
  <2>1. Notes
    BY <1>1, <1>3, HumanTypes DEF ApproveSwap, Notes, scanVars
  <2> QED
    BY <2>1, NotesStep
<1> QED
  BY <1>2, <1>3

LEMMA RecomputeStep ==
  ASSUME IInv, Recompute
  PROVE  IInv'
<1>1. \A w \in Workers : ~Working(w)
  BY NobodyWorks DEF IInv, Recompute, Busy
<1>2. status' \in Statuses /\ action' \in Actions /\ ~InReview'
  BY <1>1 DEF Recompute, Queued, Statuses, Actions, InReview, Busy, Approval, Working
<1>3. presses' \in 0..MaxPresses
  BY PressIs DEF Recompute
<1> QED
  BY <1>1, <1>2, <1>3, HumanTypes, PersonMoves DEF Recompute

LEMMA ReopenPagesStep ==
  ASSUME IInv, ReopenPages
  PROVE  IInv'
<1>1. \A w \in Workers : ~Working(w)
  BY NobodyWorks DEF IInv, ReopenPages, Busy
<1>2. status' \in Statuses /\ action' \in Actions /\ ~InReview'
  BY <1>1 DEF ReopenPages, IInv, TypeOK, Statuses, InReview, Busy, Working
<1>3. presses' \in 0..MaxPresses
  BY PressIs DEF ReopenPages
<1>4. curator' \in CuratorRow /\ curator'.requeue = curator.requeue
  BY HumanTypes, CuratorSet DEF ReopenPages
<1> QED
  BY <1>1, <1>2, <1>3, <1>4, PersonMoves DEF ReopenPages

LEMMA ReopenRedactionsStep ==
  ASSUME IInv, ReopenRedactions
  PROVE  IInv'
<1>1. \A w \in Workers : ~Working(w)
  BY NobodyWorks DEF IInv, ReopenRedactions, Busy
<1>2. status' \in Statuses /\ action' \in Actions /\ InReview
  BY DEF ReopenRedactions, IInv, TypeOK, Statuses, InReview
<1>3. presses' \in 0..MaxPresses
  BY PressIs DEF ReopenRedactions
<1> QED
  BY <1>1, <1>2, <1>3, HumanTypes, PersonMoves DEF ReopenRedactions

\* The requests that close the runs.
LEMMA ClosingSteps ==
  ASSUME IInv, ReopenSupersedes \/ AdminSupersedes \/ AdminCloses
  PROVE  IInv'
<1>1. /\ runs' = Superseded
      /\ UNCHANGED <<scanVars, merged, ledger, geometry, opinions, edits, boxes, worker, kills>>
  BY DEF ReopenSupersedes, AdminSupersedes, AdminCloses
<1>2. /\ runs' \in [Runs -> RunRow] /\ RunsFit' /\ StepFits' /\ BuildFits' /\ MeasureFits'
      /\ LedgerFits' /\ ReviewFits'
  BY <1>1, RequestCloses
<1>3. /\ curator' \in CuratorRow
      /\ curator'.requeue => curator.requeue \/ "requeue" \in Events
      /\ presses' \in 0..MaxPresses
  <2>1. CASE ReopenSupersedes
    BY <2>1, HumanTypes, CuratorSet DEF ReopenSupersedes
  <2>2. CASE AdminSupersedes
    BY <2>2, HumanTypes, PressIs DEF AdminSupersedes
  <2>3. CASE AdminCloses
    BY <2>3, HumanTypes, CuratorSet, PressIs DEF AdminCloses, Press
  <2> QED
    BY <2>1, <2>2, <2>3
<1>4. HolderFits'
  BY <1>1, <1>3 DEF IInv, HolderFits, scanVars, Working
<1>5. TypeOK'
  BY <1>1, <1>2, <1>3 DEF IInv, TypeOK, CuratorRow, scanVars
<1> QED
  BY <1>2, <1>4, <1>5 DEF IInv

\* The re-queue of a scan under its worker: the worker goes on.
LEMMA AdminRequeuesStep ==
  ASSUME IInv, AdminRequeues
  PROVE  IInv'
<1>1. curator' \in CuratorRow /\ ~curator'.requeue /\ "requeue" \in Events
  BY HumanTypes, CuratorSet DEF AdminRequeues, IInv, HolderFits
<1>2. boxes' \in 0..MaxBoxes /\ boxes <= boxes'
  BY HumanTypes DEF AdminRequeues
<1>3. CASE status = "processing"
  <2>1. status' = "queued" /\ action' = "pipeline"
    BY <1>3 DEF AdminRequeues, Queued
  <2>2. TypeOK'
    BY <1>1, <2>1 DEF IInv, TypeOK, AdminRequeues, workVars, CuratorRow, Statuses, Actions
  <2>3. HolderFits'
    BY <1>1, <2>1 DEF IInv, HolderFits, AdminRequeues, Working
  <2>4. RunsFit' /\ LedgerFits' /\ Standing' = Standing /\ Made' = Made
    BY WorkStays DEF AdminRequeues
  <2>5. StepFits' /\ BuildFits' /\ MeasureFits'
    BY <1>2, <2>4, SlotsKept DEF IInv, AdminRequeues, workVars
  <2>6. InReview' => InReview
    BY <2>1 DEF InReview, AdminRequeues, Working, Approval
  <2>7. ReviewFits'
    BY <2>6, ReviewKept DEF IInv, AdminRequeues, workVars
  <2> QED
    BY <2>2, <2>3, <2>4, <2>5, <2>7 DEF IInv
<1>4. CASE status # "processing"
  <2>1. Notes
    BY <1>1, <1>4, HumanTypes DEF AdminRequeues, Notes, scanVars
  <2> QED
    BY <2>1, NotesStep
<1> QED
  BY <1>3, <1>4

-----------------------------------------------------------------------------
(* The apply worker.  Nobody else works, and review 2 is not open.         *)

LEMMA PhaseIs ==
  /\ PhaseDue = "build" /\ CurrentRun # NoRun /\ ~runs[CurrentRun].built => TriesLeft(CurrentRun)
  /\ PhaseDue = "glue" => CurrentRun # NoRun /\ TriesLeft(CurrentRun)
BY DEF PhaseDue

\* A row of the runs is written.
LEMMA RowSet ==
  ASSUME runs \in [Runs -> RunRow], NEW n \in Runs, NEW t \in RunRow,
         t.is = runs[n].is, runs' = [runs EXCEPT ![n] = t]
  PROVE  /\ runs' \in [Runs -> RunRow] /\ runs'[n] = t
         /\ \A m \in Runs : m # n => runs'[m] = runs[m]
         /\ Standing' = Standing /\ Made' = Made
<1>1. /\ runs' \in [Runs -> RunRow] /\ runs'[n] = t
      /\ \A m \in Runs : m # n => runs'[m] = runs[m]
  OBVIOUS
<1>2. \A m \in Runs : runs'[m].is = runs[m].is
  BY <1>1
<1> QED
  BY <1>1, <1>2 DEF Standing, Made

\* The apply worker moves; no run came to be, and none opened review 2.
LEMMA ApplyMoves ==
  ASSUME IInv, NEW w \in Workers, Working(w), worker[w].doing = "apply", Moves(w),
         UNCHANGED <<scanVars, merged, ledger, geometry, opinions, humanVars, kills>>,
         runs' \in [Runs -> RunRow], RunsFit', Standing' \subseteq Standing \cup (Runs \ Made),
         worker'[w].step \in ApplySteps \cup {"idle", "park"},
         worker'[w].step \in {"build", "commit"} =>
           worker'[w].run \in Made' /\ runs'[worker'[w].run].attempts < MaxAttempts
  PROVE  IInv'
<1>1. \A v \in Workers : v # w => ~Working(v)'
  BY Alone DEF IInv, Moves, Working
<1>2. TypeOK'
  BY DEF IInv, TypeOK, Moves, scanVars, humanVars
<1>3. HolderFits'
  BY HolderMoves DEF IInv, humanVars
<1>4. StepFits' /\ BuildFits' /\ MeasureFits'
  <2>1. StepFits'
    BY <1>1 DEF StepFits, Working, Moves, ApplySteps, ComputeSteps
  <2>2. BuildFits'
    BY <1>1 DEF BuildFits, Working
  <2>3. MeasureFits'
    BY <1>1 DEF MeasureFits, Working, ApplySteps
  <2> QED
    BY <2>1, <2>2, <2>3
<1>5. LedgerFits'
  <2>1. \A n \in Standing' : ledger.run = n => n \in Standing
    <3> SUFFICES ASSUME NEW n \in Standing', ledger.run = n, n \notin Made PROVE FALSE
      OBVIOUS
    <3>1. n # NoRun
      BY ReviewAssumption DEF Standing, Runs, NoRun
    <3> QED
      BY <3>1 DEF IInv, RunsFit
  <2> QED
    BY <2>1 DEF IInv, LedgerFits, humanVars
<1>6. ReviewFits'
  BY ApplyOutOfReview, ReviewClosed DEF IInv
<1> QED
  BY <1>2, <1>3, <1>4, <1>5, <1>6 DEF IInv

\* The same, with the runs left alone.
LEMMA ApplyMovesOnly ==
  ASSUME IInv, NEW w \in Workers, Working(w), worker[w].doing = "apply", Moves(w),
         UNCHANGED <<scanVars, workVars, humanVars, kills>>,
         worker'[w].step \in {"glue", "idle", "park"}
  PROVE  IInv'
<1>1. runs' \in [Runs -> RunRow] /\ RunsFit' /\ Standing' = Standing
  BY RunsKept DEF IInv, TypeOK, workVars
<1> QED
  BY <1>1, ApplyMoves DEF workVars, ApplySteps

\* A run is taken to build: the standing one that is not built, or the next.
LEMMA BuildTaken ==
  ASSUME IInv, PhaseDue = "build", NEW target \in Runs,
         target = (IF CurrentRun # NoRun /\ ~runs[CurrentRun].built THEN CurrentRun ELSE NextRun),
         runs' = [(IF CurrentRun # NoRun /\ ~runs[CurrentRun].built THEN runs ELSE Superseded)
                    EXCEPT ![target].is = "standing"],
         UNCHANGED ledger
  PROVE  /\ runs' \in [Runs -> RunRow] /\ RunsFit' /\ Standing' \subseteq Standing \cup (Runs \ Made)
         /\ target \in Made' /\ runs'[target].attempts < MaxAttempts
<1>0. runs \in [Runs -> RunRow]
  BY DEF IInv, TypeOK
<1>1. ASSUME NEW s \in RunRow
      PROVE  LET t == [s EXCEPT !.is = "standing"] IN
             t \in RunRow /\ t.is = "standing" /\ t.attempts = s.attempts
  BY <1>1 DEF RunRow
<1>2. ASSUME NEW rs \in [Runs -> RunRow], runs' = [rs EXCEPT ![target].is = "standing"]
      PROVE  /\ runs' \in [Runs -> RunRow] /\ runs'[target].is = "standing"
             /\ runs'[target].attempts = rs[target].attempts
             /\ \A n \in Runs : n # target => runs'[n] = rs[n]
  <2> DEFINE t == [rs[target] EXCEPT !.is = "standing"]
  <2>1. t \in RunRow /\ t.is = "standing" /\ t.attempts = rs[target].attempts
    BY <1>1
  <2>2. runs' = [rs EXCEPT ![target] = t]
    BY <1>2
  <2> HIDE DEF t
  <2> QED
    BY <2>1, <2>2
<1>3. CASE CurrentRun # NoRun /\ ~runs[CurrentRun].built
  <2>1. target = CurrentRun /\ target \in Standing
    BY <1>3, CurrentIs DEF IInv
  <2>2. runs' = [runs EXCEPT ![target].is = "standing"]
    BY <1>3
  <2>3. /\ runs' \in [Runs -> RunRow] /\ runs'[target].is = "standing"
        /\ runs'[target].attempts = runs[target].attempts
        /\ \A n \in Runs : n # target => runs'[n] = runs[n]
    BY <1>0, <1>2, <2>2
  <2>4. \A n \in Runs : runs'[n].is = runs[n].is
    BY <2>1, <2>3 DEF Standing
  <2>5. Standing' = Standing /\ Made' = Made
    BY <2>4 DEF Standing, Made
  <2>6. runs[target].attempts < MaxAttempts
    BY <1>3, <2>1, PhaseIs DEF TriesLeft
  <2> QED
    BY <2>1, <2>3, <2>5, <2>6, CurrentIs DEF IInv, RunsFit
<1>4. CASE ~(CurrentRun # NoRun /\ ~runs[CurrentRun].built)
  <2>1. target = NextRun /\ runs' = [Superseded EXCEPT ![target].is = "standing"]
    BY <1>4
  <2>2. PICK k \in 0..MaxRuns : Made = 1..k
    BY DEF IInv, RunsFit
  <2>3. target = k + 1
    <3>1. k \in Nat
      BY ReviewAssumption
    <3> QED
      BY <2>1, <2>2, <3>1, NewestOfRange DEF NextRun
  <2>4. target \notin Made /\ k + 1 \in 0..MaxRuns /\ Made \cup {target} = 1..(k + 1)
    BY <2>2, <2>3, ReviewAssumption DEF Runs
  <2>5. /\ Superseded \in [Runs -> RunRow]
        /\ \A n \in Runs : /\ Superseded[n].attempts = runs[n].attempts
                           /\ runs[n].is = "standing" => Superseded[n].is = "superseded"
                           /\ runs[n].is # "standing" => Superseded[n] = runs[n]
    BY <1>0, SupersededIs
  <2>6. /\ runs' \in [Runs -> RunRow] /\ runs'[target].is = "standing"
        /\ runs'[target].attempts = Superseded[target].attempts
        /\ \A n \in Runs : n # target => runs'[n] = Superseded[n]
    BY <1>2, <2>1, <2>5
  <2>7. Standing' = {target} /\ Made' = Made \cup {target}
    BY <2>5, <2>6 DEF Standing, Made
  <2>8. RunsFit'
    <3>1. \A n \in Runs : n \notin Made' => runs'[n].attempts = 0
      BY <2>5, <2>6, <2>7 DEF IInv, RunsFit
    <3>2. ledger'.run # NoRun => ledger'.run \in Made'
      BY <2>7 DEF IInv, RunsFit
    <3>3. \E j \in 0..MaxRuns : Made' = 1..j
      BY <2>4, <2>7
    <3>4. \A n, m \in Standing' : n = m
      BY <2>7
    <3> QED
      BY <3>1, <3>2, <3>3, <3>4 DEF RunsFit
  <2>9. runs[target].attempts < MaxAttempts
    <3>1. runs[target].attempts = 0
      BY <2>4 DEF IInv, RunsFit
    <3> QED
      BY <3>1, ReviewAssumption
  <2> QED
    BY <2>4, <2>5, <2>6, <2>7, <2>8, <2>9
<1> QED
  BY <1>3, <1>4

LEMMA ApplyPhaseStep ==
  ASSUME IInv, NEW w \in Workers, ApplyPhase(w)
  PROVE  IInv'
<1>1. Working(w) /\ worker[w].doing = "apply" /\ worker \in [Workers -> Slot]
  BY DEF ApplyPhase, IsAt, Working, IInv, TypeOK, StepFits, ApplySteps
<1>2. CASE PhaseDue = "build"
  <2> DEFINE reuse == CurrentRun # NoRun /\ ~runs[CurrentRun].built
             target == IF reuse THEN CurrentRun ELSE NextRun
             t == [worker[w] EXCEPT !.step = "build", !.run = target, !.edits = edits]
  <2>1. /\ target \in Runs
        /\ runs' = [(IF reuse THEN runs ELSE Superseded) EXCEPT ![target].is = "standing"]
        /\ worker' = [worker EXCEPT ![w].step = "build", ![w].run = target, ![w].edits = edits]
    BY <1>2 DEF ApplyPhase
  <2>2. /\ runs' \in [Runs -> RunRow] /\ RunsFit' /\ Standing' \subseteq Standing \cup (Runs \ Made)
        /\ target \in Made' /\ runs'[target].attempts < MaxAttempts
    BY <1>2, <2>1, BuildTaken DEF ApplyPhase
  <2>3. t \in Slot /\ t.step = "build" /\ t.run = target /\ t.doing = worker[w].doing
    <3>1. target \in 0..MaxRuns /\ "build" \in Steps /\ edits \in 0..MaxEdits
      BY <2>1, ReviewAssumption DEF Runs, Steps, IInv, TypeOK
    <3> HIDE DEF target
    <3>2. ASSUME NEW s \in Slot
          PROVE  LET u == [s EXCEPT !.step = "build", !.run = target, !.edits = edits] IN
                 u \in Slot /\ u.step = "build" /\ u.run = target /\ u.doing = s.doing
      BY <3>1, <3>2 DEF Slot
    <3>3. worker[w] \in Slot
      BY <1>1
    <3> QED
      BY <3>2, <3>3
  <2>4. Sets(w, t)
    BY <2>1 DEF Sets
  <2>5. Moves(w) /\ worker'[w].step = "build" /\ worker'[w].run = target
    <3> HIDE DEF t
    <3> QED
      BY <1>1, <2>3, <2>4, SlotSet DEF Moves
  <2> HIDE DEF target
  <2> QED
    BY <1>1, <2>2, <2>5, ApplyMoves DEF ApplyPhase, ApplySteps
<1>3. CASE PhaseDue = "glue"
  <2>1. Goes(w, "glue") /\ UNCHANGED runs /\ "glue" \in Steps
    BY <1>3 DEF ApplyPhase, Steps
  <2>2. Moves(w) /\ worker'[w].step = "glue"
    BY <1>1, <2>1, GoesIs DEF Moves
  <2> QED
    BY <1>1, <2>1, <2>2, ApplyMovesOnly DEF ApplyPhase, workVars
<1>4. CASE PhaseDue \notin {"build", "glue"}
  <2>1. Parks(w, FALSE) /\ UNCHANGED runs
    BY <1>4 DEF ApplyPhase
  <2>2. Moves(w) /\ worker'[w].step = "park"
    BY <1>1, <2>1, ParksIs DEF Moves
  <2> QED
    BY <1>1, <2>1, <2>2, ApplyMovesOnly DEF ApplyPhase, workVars
<1> QED
  BY <1>2, <1>3, <1>4

\* The build's run, or the current one, is written under an apply worker.
LEMMA RunWritten ==
  ASSUME IInv, NEW n \in Made, NEW t \in RunRow, t.is = runs[n].is,
         runs' = [runs EXCEPT ![n] = t], UNCHANGED ledger
  PROVE  /\ runs' \in [Runs -> RunRow] /\ RunsFit' /\ Standing' = Standing /\ Made' = Made
         /\ runs'[n] = t
<1>1. n \in Runs
  BY DEF Made
<1>2. /\ runs' \in [Runs -> RunRow] /\ runs'[n] = t
      /\ \A m \in Runs : m # n => runs'[m] = runs[m]
      /\ Standing' = Standing /\ Made' = Made
  BY <1>1, RowSet DEF IInv, TypeOK
<1> QED
  BY <1>2 DEF IInv, RunsFit

LEMMA ApplyRowsStep ==
  ASSUME IInv, NEW w \in Workers, ApplyRows(w)
  PROVE  IInv'
<1>1. /\ Working(w) /\ worker[w].doing = "apply" /\ worker \in [Workers -> Slot]
      /\ worker[w].run \in Made /\ runs[worker[w].run].attempts < MaxAttempts
  BY DEF ApplyRows, IsAt, Working, IInv, TypeOK, StepFits, BuildFits, ApplySteps
<1> DEFINE n == worker[w].run
<1>2. PICK new \in RowStates : runs' = [runs EXCEPT ![n].rows = Ensured(@, new)]
  BY DEF ApplyRows, RowStates
<1> DEFINE t == [runs[n] EXCEPT !.rows = Ensured(@, new)]
<1>3. runs' = [runs EXCEPT ![n] = t]
  BY <1>2
<1>4. t \in RunRow /\ t.is = runs[n].is /\ t.attempts = runs[n].attempts
  <2>1. runs[n] \in RunRow /\ runs[n].rows \in [Glues -> RowStates]
    BY <1>1 DEF IInv, TypeOK, Made, RunRow
  <2>2. Ensured(runs[n].rows, new) \in [Glues -> RowStates]
    BY <2>1 DEF Ensured
  <2> HIDE DEF n, Ensured
  <2> QED
    BY <2>1, <2>2 DEF RunRow
<1>5. /\ runs' \in [Runs -> RunRow] /\ RunsFit' /\ Standing' = Standing /\ Made' = Made
      /\ runs'[n] = t
  <2> HIDE DEF t
  <2> QED
    BY <1>1, <1>3, <1>4, RunWritten DEF ApplyRows
<1>6. Moves(w) /\ worker'[w].step = "commit" /\ worker'[w].run = n
  BY <1>1, GoesIs DEF ApplyRows, Moves, Steps
<1> HIDE DEF t
<1> QED
  BY <1>1, <1>4, <1>5, <1>6, ApplyMoves DEF ApplyRows, ApplySteps

LEMMA ApplyCommitStep ==
  ASSUME IInv, NEW w \in Workers, ApplyCommit(w)
  PROVE  IInv'
<1>1. /\ Working(w) /\ worker[w].doing = "apply" /\ worker \in [Workers -> Slot]
      /\ worker[w].run \in Made
  BY DEF ApplyCommit, IsAt, Working, IInv, TypeOK, StepFits, BuildFits, ApplySteps
<1> DEFINE n == worker[w].run
           t == [runs[n] EXCEPT !.built = TRUE, !.edits = worker[w].edits, !.attempts = 0]
           s == [Idle EXCEPT !.step = "glue", !.doing = "apply"]
<1>2. runs' = [runs EXCEPT ![n] = t]
  BY DEF ApplyCommit
<1>3. t \in RunRow /\ t.is = runs[n].is
  <2>1. runs[n] \in RunRow
    BY <1>1 DEF IInv, TypeOK, Made
  <2>2. worker[w].edits \in 0..MaxEdits /\ 0 \in 0..MaxAttempts
    BY <1>1, ReviewAssumption DEF Slot
  <2> HIDE DEF n
  <2> QED
    BY <2>1, <2>2 DEF RunRow
<1>4. runs' \in [Runs -> RunRow] /\ RunsFit' /\ Standing' = Standing
  <2> HIDE DEF t
  <2> QED
    BY <1>1, <1>2, <1>3, RunWritten DEF ApplyCommit
<1>5. s \in Slot /\ s.step = "glue" /\ s.doing = "apply"
  <2>1. "glue" \in Steps /\ "apply" \in Actions
    BY DEF Steps, Actions
  <2>2. ASSUME NEW i \in Slot
        PROVE  LET u == [i EXCEPT !.step = "glue", !.doing = "apply"] IN
               u \in Slot /\ u.step = "glue" /\ u.doing = "apply"
    BY <2>1, <2>2 DEF Slot
  <2> QED
    BY <2>2, IdleSlot
<1>6. Sets(w, s)
  BY DEF ApplyCommit, Sets
<1>7. Moves(w) /\ worker'[w].step = "glue"
  <2> HIDE DEF s
  <2> QED
    BY <1>1, <1>5, <1>6, SlotSet DEF Moves
<1> QED
  BY <1>1, <1>4, <1>7, ApplyMoves DEF ApplyCommit, ApplySteps

LEMMA ApplyGlueStep ==
  ASSUME IInv, NEW w \in Workers, ApplyGlue(w)
  PROVE  IInv'
<1>1. Working(w) /\ worker[w].doing = "apply" /\ worker \in [Workers -> Slot]
  BY DEF ApplyGlue, IsAt, Working, IInv, TypeOK, StepFits, ApplySteps
<1>2. Moves(w) /\ worker'[w].step = "park"
  BY <1>1, ParksIs DEF ApplyGlue, Moves
<1>3. CASE PhaseDue = "glue"
  <2> DEFINE n == CurrentRun
             t == [runs[n] EXCEPT !.glues = @ \cup GluesDue(n), !.attempts = 0]
  <2>1. n \in Made
    BY <1>3, PhaseIs, CurrentIs DEF IInv
  <2>2. runs' = [runs EXCEPT ![n] = t]
    BY <1>3 DEF ApplyGlue
  <2>3. t \in RunRow /\ t.is = runs[n].is
    <3>1. runs[n] \in RunRow
      BY <2>1 DEF IInv, TypeOK, Made
    <3>2. runs[n].glues \cup GluesDue(n) \in SUBSET Glues /\ 0 \in 0..MaxAttempts
      BY <3>1, ReviewAssumption DEF RunRow, GluesDue
    <3> HIDE DEF n, GluesDue
    <3> QED
      BY <3>1, <3>2 DEF RunRow
  <2>4. runs' \in [Runs -> RunRow] /\ RunsFit' /\ Standing' = Standing
    <3> HIDE DEF t
    <3> QED
      BY <2>1, <2>2, <2>3, RunWritten DEF ApplyGlue
  <2> QED
    BY <1>1, <1>2, <2>4, ApplyMoves DEF ApplyGlue
<1>4. CASE PhaseDue # "glue"
  BY <1>1, <1>2, <1>4, ApplyMovesOnly DEF ApplyGlue, workVars
<1> QED
  BY <1>3, <1>4

LEMMA ApplyFailsStep ==
  ASSUME IInv, NEW w \in Workers, ApplyFails(w)
  PROVE  IInv'
<1>1. Working(w) /\ worker[w].doing = "apply" /\ worker \in [Workers -> Slot]
  BY DEF ApplyFails, Working, IInv, TypeOK, StepFits, ApplySteps
<1>2. Moves(w) /\ worker'[w].step = "park"
  BY <1>1, ParksIs DEF ApplyFails, Moves
<1> DEFINE n == IF IsAt(w, "glue") THEN CurrentRun ELSE worker[w].run
           attempts == runs[n].attempts + 1
           rows == IF attempts >= MaxAttempts THEN CancelOpen(runs[n].rows) ELSE runs[n].rows
           t == [runs[n] EXCEPT !.attempts = attempts, !.rows = rows]
<1>3. n \in Made /\ runs[n].attempts < MaxAttempts
  <2>1. CASE IsAt(w, "glue")
    BY <2>1, PhaseIs, CurrentIs DEF IInv, ApplyFails, TriesLeft
  <2>2. CASE ~IsAt(w, "glue")
    BY <2>2 DEF IInv, ApplyFails, BuildFits, IsAt
  <2> QED
    BY <2>1, <2>2
<1>4. runs' = [runs EXCEPT ![n] = t]
  BY DEF ApplyFails
<1>5. t \in RunRow /\ t.is = runs[n].is
  <2>1. runs[n] \in RunRow /\ runs[n].rows \in [Glues -> RowStates]
        /\ runs[n].attempts \in 0..MaxAttempts
    BY <1>3 DEF IInv, TypeOK, Made, RunRow
  <2>2. rows \in [Glues -> RowStates]
    BY <2>1, RowsCancelled
  <2>3. attempts \in 0..MaxAttempts
    BY <1>3, <2>1, ReviewAssumption
  <2> HIDE DEF n, rows, attempts
  <2> QED
    BY <2>1, <2>2, <2>3 DEF RunRow
<1>6. runs' \in [Runs -> RunRow] /\ RunsFit' /\ Standing' = Standing
  <2> HIDE DEF t, n
  <2> QED
    BY <1>3, <1>4, <1>5, RunWritten DEF ApplyFails
<1> QED
  BY <1>1, <1>2, <1>6, ApplyMoves DEF ApplyFails

LEMMA ApplyParkStep ==
  ASSUME IInv, NEW w \in Workers, ApplyPark(w)
  PROVE  IInv'
<1>1. Working(w) /\ worker[w].doing = "apply" /\ worker \in [Workers -> Slot]
  BY DEF ApplyPark, IsAt, Working, IInv, TypeOK
<1>2. CASE status = "processing"
  <2>1. Moves(w) /\ worker'[w].step = "idle" /\ status' = "page_done"
    BY <1>1, <1>2, EndsIs DEF ApplyPark, Moves
  <2>2. HolderFits' /\ \A v \in Workers : ~Working(v)'
    BY <1>1, <2>1, HolderEnds DEF IInv, ApplyPark, humanVars
  <2>3. TypeOK'
    BY <2>1 DEF IInv, TypeOK, ApplyPark, Moves, Statuses, workVars, humanVars
  <2>4. RunsFit' /\ LedgerFits'
    BY WorkStays DEF ApplyPark, humanVars
  <2>5. ~InReview'
    BY <2>1, <2>2 DEF InReview, Busy
  <2> QED
    BY <2>2, <2>3, <2>4, <2>5, IdleFitsNext, ReviewClosed DEF IInv
<1>3. CASE status # "processing"
  <2>1. Goes(w, "supersede") /\ UNCHANGED scanVars /\ "supersede" \in Steps
    BY <1>3 DEF ApplyPark, scanVars, Steps
  <2>2. Moves(w) /\ worker'[w].step = "supersede"
    BY <1>1, <2>1, GoesIs DEF Moves
  <2>3. runs' \in [Runs -> RunRow] /\ RunsFit' /\ Standing' = Standing
    BY RunsKept DEF IInv, TypeOK, ApplyPark, workVars
  <2> QED
    BY <1>1, <2>1, <2>2, <2>3, ApplyMoves DEF ApplyPark, ApplySteps, workVars
<1> QED
  BY <1>2, <1>3

LEMMA ApplySupersedesStep ==
  ASSUME IInv, NEW w \in Workers, ApplySupersedes(w)
  PROVE  IInv'
<1>1. Working(w) /\ worker[w].doing = "apply" /\ worker \in [Workers -> Slot]
  BY DEF ApplySupersedes, IsAt, Working, IInv, TypeOK, StepFits, ApplySteps
<1>2. Moves(w) /\ worker'[w].step = "idle"
  BY <1>1, EndsIs DEF ApplySupersedes, Moves
<1>3. /\ runs' \in [Runs -> RunRow] /\ Standing' = {} /\ Made' = Made
      /\ \A n \in Runs : runs'[n].attempts = runs[n].attempts
  BY Closing DEF IInv, TypeOK, ApplySupersedes
<1>4. RunsFit'
  BY <1>3 DEF RunsFit, IInv, ApplySupersedes
<1> QED
  BY <1>1, <1>2, <1>3, <1>4, ApplyMoves DEF ApplySupersedes

-----------------------------------------------------------------------------
(* The compute and the creation.  Nobody else works; the runs stay.        *)

\* What a slot of a compute or a creation may say, of one worker.
MeasureOf(w) ==
  /\ worker[w].step \in {"read", "write", "stamp"} =>
       /\ worker[w].run \in Made /\ Standing \subseteq {worker[w].run}
       /\ worker[w].seen <= boxes
  /\ worker[w].step = "write" =>
       worker[w].seen <= worker[w].boxes /\ ledger.read <= worker[w].boxes
  /\ worker[w].step = "stamp" =>
       geometry.run = worker[w].run /\ worker[w].seen <= geometry.boxes
  /\ worker[w].step = "create" => worker[w].seen <= geometry.boxes

LEMMA MeasureOfEach == MeasureFits => \A w \in Workers : MeasureOf(w)
BY DEF MeasureFits, MeasureOf

ResultTypes ==
  /\ ledger \in [run : 0..MaxRuns, applied : BOOLEAN, read : 0..MaxBoxes,
                 attempts : 0..MaxAttempts]
  /\ geometry \in [run : 0..MaxRuns, boxes : 0..MaxBoxes]
  /\ opinions \in [run : 0..MaxRuns, boxes : 0..MaxBoxes, look : 0..MaxBoxes]

LEMMA ComputeMoves ==
  ASSUME IInv, NEW w \in Workers, Working(w), Moves(w),
         worker[w].doing \in {"compute", "compute_create", "create"},
         UNCHANGED <<scanVars, merged, runs, humanVars, kills>>,
         ResultTypes', ledger'.run \in {ledger.run} \cup Made, LedgerFits',
         InReview /\ Standing # {} => geometry' = geometry \/ geometry'.run = FinalRun,
         worker'[w].step \in ComputeSteps => worker[w].doing # "create",
         worker'[w].step = "create" => worker[w].doing = "create",
         worker'[w].step \in ComputeSteps \cup {"park", "create"}, MeasureOf(w)'
  PROVE  IInv'
<1>1. \A v \in Workers : v # w => ~Working(v)'
  BY Alone DEF IInv, Moves, Working
<1>2. TypeOK'
  BY DEF IInv, TypeOK, ResultTypes, Moves, scanVars, humanVars
<1>3. HolderFits'
  BY HolderMoves DEF IInv, humanVars
<1>4. StepFits'
  BY <1>1 DEF StepFits, Working, Moves, ApplySteps, ComputeSteps
<1>5. BuildFits'
  BY <1>1 DEF BuildFits, Working, ComputeSteps
<1>6. MeasureFits'
  BY <1>1 DEF MeasureFits, MeasureOf, Working
<1>7. RunsFit'
  BY RunsKept DEF IInv
<1>8. ReviewFits'
  <2>1. InReview' => InReview
    BY ReviewMoves
  <2>2. FinalRun' = FinalRun /\ Standing' = Standing
    BY DEF FinalRun, CurrentRun, Standing
  <2> QED
    BY <2>1, <2>2 DEF IInv, ReviewFits
<1> QED
  BY <1>2, <1>3, <1>4, <1>5, <1>6, <1>7, <1>8 DEF IInv

LEMMA LedgerStays ==
  ASSUME IInv, UNCHANGED <<workVars, boxes>>
  PROVE  ResultTypes' /\ LedgerFits'
BY WorkStays DEF IInv, TypeOK, ResultTypes, workVars

LEMMA ComputeBeginStep ==
  ASSUME IInv, NEW w \in Workers, ComputeBegin(w)
  PROVE  IInv'
<1>1. /\ Working(w) /\ worker[w].doing \in {"compute", "compute_create"}
      /\ worker \in [Workers -> Slot]
  BY DEF ComputeBegin, IsAt, Working, IInv, TypeOK, StepFits, ComputeSteps
<1>2. ResultTypes' /\ LedgerFits'
  BY LedgerStays DEF ComputeBegin, humanVars
<1>3. CASE ~merged \/ FinalRun = NoRun
  <2>1. Moves(w) /\ worker'[w].step = "park"
    BY <1>1, <1>3, ParksIs DEF ComputeBegin, Moves
  <2>2. MeasureOf(w)'
    BY <2>1 DEF MeasureOf
  <2> QED
    BY <1>1, <1>2, <2>1, <2>2, ComputeMoves DEF ComputeBegin, workVars, ComputeSteps
<1>4. CASE ~(~merged \/ FinalRun = NoRun)
  <2> DEFINE t == [worker[w] EXCEPT !.step = "read", !.run = FinalRun, !.seen = boxes]
  <2>1. Sets(w, t)
    BY <1>4 DEF ComputeBegin, Sets
  <2>2. t \in Slot /\ t.step = "read" /\ t.run = FinalRun /\ t.seen = boxes
        /\ t.doing = worker[w].doing
    <3>1. FinalRun \in 0..MaxRuns /\ "read" \in Steps /\ boxes \in 0..MaxBoxes
      BY CurrentIs DEF IInv, TypeOK, Steps
    <3>2. ASSUME NEW s \in Slot
          PROVE  LET u == [s EXCEPT !.step = "read", !.run = FinalRun, !.seen = boxes] IN
                 u \in Slot /\ u.step = "read" /\ u.run = FinalRun /\ u.seen = boxes
                 /\ u.doing = s.doing
      BY <3>1, <3>2 DEF Slot
    <3>3. worker[w] \in Slot
      BY <1>1
    <3> QED
      BY <3>2, <3>3
  <2>3. /\ Moves(w) /\ worker'[w].step = "read" /\ worker'[w].run = FinalRun
        /\ worker'[w].seen = boxes
    <3> HIDE DEF t
    <3> QED
      BY <1>1, <2>1, <2>2, SlotSet DEF Moves
  <2>4. MeasureOf(w)'
    <3>1. FinalRun \in Made /\ Standing \subseteq {FinalRun}
      BY <1>4, CurrentIs DEF IInv, RunsFit
    <3>2. Standing' = Standing /\ Made' = Made /\ boxes' = boxes /\ boxes \in Nat
      BY DEF ComputeBegin, workVars, humanVars, Standing, Made, IInv, TypeOK
    <3>3. boxes <= boxes
      BY <3>2
    <3> QED
      BY <2>3, <3>1, <3>2, <3>3 DEF MeasureOf
  <2> QED
    BY <1>1, <1>2, <2>3, <2>4, ComputeMoves DEF ComputeBegin, workVars, ComputeSteps
<1> QED
  BY <1>3, <1>4

LEMMA ComputeReadStep ==
  ASSUME IInv, NEW w \in Workers, ComputeRead(w)
  PROVE  IInv'
<1>1. /\ Working(w) /\ worker[w].doing \in {"compute", "compute_create"}
      /\ worker \in [Workers -> Slot] /\ MeasureOf(w)
  BY MeasureOfEach DEF ComputeRead, IsAt, Working, IInv, TypeOK, StepFits, ComputeSteps
<1>2. ResultTypes' /\ LedgerFits'
  BY LedgerStays DEF ComputeRead, humanVars
<1> DEFINE t == [worker[w] EXCEPT !.step = "write", !.boxes = boxes]
<1>3. Sets(w, t)
  BY DEF ComputeRead, Sets
<1>4. t \in Slot /\ t.step = "write" /\ t.run = worker[w].run /\ t.seen = worker[w].seen
      /\ t.boxes = boxes /\ t.doing = worker[w].doing
  <2>1. "write" \in Steps /\ boxes \in 0..MaxBoxes
    BY DEF IInv, TypeOK, Steps
  <2>2. ASSUME NEW s \in Slot
        PROVE  LET u == [s EXCEPT !.step = "write", !.boxes = boxes] IN
               u \in Slot /\ u.step = "write" /\ u.run = s.run /\ u.seen = s.seen
               /\ u.boxes = boxes /\ u.doing = s.doing
    BY <2>1, <2>2 DEF Slot
  <2>3. worker[w] \in Slot
    BY <1>1
  <2> QED
    BY <2>2, <2>3
<1>5. /\ Moves(w) /\ worker'[w].step = "write" /\ worker'[w].run = worker[w].run
      /\ worker'[w].seen = worker[w].seen /\ worker'[w].boxes = boxes
  <2> HIDE DEF t
  <2> QED
    BY <1>1, <1>3, <1>4, SlotSet DEF Moves
<1>6. MeasureOf(w)'
  <2>1. Standing' = Standing /\ Made' = Made /\ boxes' = boxes /\ ledger' = ledger
    BY DEF ComputeRead, workVars, humanVars, Standing, Made
  <2>2. ledger.read <= boxes
    BY DEF IInv, LedgerFits
  <2> QED
    BY <1>1, <1>5, <2>1, <2>2 DEF MeasureOf, ComputeRead, IsAt
<1> QED
  BY <1>1, <1>2, <1>5, <1>6, ComputeMoves DEF ComputeRead, workVars, ComputeSteps

LEMMA ComputeWriteStep ==
  ASSUME IInv, NEW w \in Workers, ComputeWrite(w)
  PROVE  IInv'
<1>1. /\ Working(w) /\ worker[w].doing \in {"compute", "compute_create"}
      /\ worker \in [Workers -> Slot] /\ MeasureOf(w) /\ worker[w] \in Slot
  BY MeasureOfEach DEF ComputeWrite, IsAt, Working, IInv, TypeOK, StepFits, ComputeSteps
<1>2. /\ Moves(w) /\ worker'[w].step = "stamp" /\ worker'[w].run = worker[w].run
      /\ worker'[w].seen = worker[w].seen
  BY <1>1, GoesIs DEF ComputeWrite, Moves, Steps
<1>3. geometry' = [run |-> worker[w].run, boxes |-> worker[w].boxes]
  BY DEF ComputeWrite
<1>4. ResultTypes'
  BY <1>1, <1>3 DEF ComputeWrite, ResultTypes, IInv, TypeOK, Slot
<1>5. Standing' = Standing /\ Made' = Made
  BY DEF ComputeWrite, Standing, Made
<1>6. /\ worker[w].run \in Made /\ Standing \subseteq {worker[w].run}
      /\ worker[w].seen <= boxes
      /\ worker[w].seen <= worker[w].boxes /\ ledger.read <= worker[w].boxes
  BY <1>1 DEF MeasureOf, ComputeWrite, IsAt
<1>7. LedgerFits'
  BY <1>3, <1>5, <1>6 DEF IInv, LedgerFits, ComputeWrite, humanVars
<1>8. MeasureOf(w)'
  BY <1>2, <1>3, <1>5, <1>6 DEF MeasureOf, ComputeWrite, humanVars
<1>9. InReview /\ Standing # {} => geometry' = geometry \/ geometry'.run = FinalRun
  BY <1>3, <1>6, CurrentIs DEF IInv, ReviewFits
<1> QED
  BY <1>1, <1>2, <1>4, <1>7, <1>8, <1>9, ComputeMoves DEF ComputeWrite, ComputeSteps

LEMMA ComputeStampStep ==
  ASSUME IInv, NEW w \in Workers, ComputeStamp(w)
  PROVE  IInv'
<1>1. /\ Working(w) /\ worker[w].doing \in {"compute", "compute_create"}
      /\ worker \in [Workers -> Slot] /\ MeasureOf(w) /\ worker[w] \in Slot
  BY MeasureOfEach DEF ComputeStamp, IsAt, Working, IInv, TypeOK, StepFits, ComputeSteps
<1>2. Moves(w) /\ worker'[w].step = "park"
  BY <1>1, ParksIs DEF ComputeStamp, Moves
<1>3. /\ ledger' \in [run : 0..MaxRuns, applied : BOOLEAN, read : 0..MaxBoxes,
                      attempts : 0..MaxAttempts]
      /\ ledger'.run = worker[w].run /\ ledger'.read = worker[w].seen
  <2>1. worker[w].run \in 0..MaxRuns /\ worker[w].seen \in 0..MaxBoxes
    BY <1>1 DEF Slot
  <2>2. ledger \in [run : 0..MaxRuns, applied : BOOLEAN, read : 0..MaxBoxes,
                    attempts : 0..MaxAttempts]
    BY DEF IInv, TypeOK
  <2>3. ledger' = [ledger EXCEPT !.applied = TRUE, !.run = worker[w].run,
                                 !.read = worker[w].seen]
    BY DEF ComputeStamp
  <2> QED
    BY <2>1, <2>2, <2>3
<1>4. ResultTypes'
  BY <1>3 DEF ComputeStamp, ResultTypes, IInv, TypeOK
<1>5. /\ worker[w].run \in Made /\ worker[w].seen <= boxes
      /\ geometry.run = worker[w].run /\ worker[w].seen <= geometry.boxes
  BY <1>1 DEF MeasureOf, ComputeStamp, IsAt
<1>6. LedgerFits'
  BY <1>3, <1>5 DEF IInv, LedgerFits, ComputeStamp, humanVars
<1>7. MeasureOf(w)'
  BY <1>2 DEF MeasureOf
<1> QED
  BY <1>1, <1>2, <1>3, <1>4, <1>5, <1>6, <1>7, ComputeMoves DEF ComputeStamp, ComputeSteps

LEMMA ComputeFailsStep ==
  ASSUME IInv, NEW w \in Workers, ComputeFails(w)
  PROVE  IInv'
<1>1. /\ Working(w) /\ worker[w].doing \in {"compute", "compute_create"}
      /\ worker \in [Workers -> Slot]
  BY DEF ComputeFails, Working, IInv, TypeOK, StepFits, ComputeSteps
<1>2. Moves(w) /\ worker'[w].step = "park"
  BY <1>1, ParksIs DEF ComputeFails, Moves
<1>3. /\ ledger' \in [run : 0..MaxRuns, applied : BOOLEAN, read : 0..MaxBoxes,
                      attempts : 0..MaxAttempts]
      /\ ledger'.run = ledger.run /\ ledger'.read = ledger.read
      /\ ledger'.applied = ledger.applied
  BY ReviewAssumption DEF ComputeFails, IInv, TypeOK
<1>4. ResultTypes'
  BY <1>3 DEF ComputeFails, ResultTypes, IInv, TypeOK
<1>5. LedgerFits'
  BY <1>3 DEF IInv, LedgerFits, ComputeFails, humanVars, Standing
<1>6. MeasureOf(w)'
  BY <1>2 DEF MeasureOf
<1> QED
  BY <1>1, <1>2, <1>3, <1>4, <1>5, <1>6, ComputeMoves DEF ComputeFails, ComputeSteps

LEMMA LookStep ==
  ASSUME IInv, NEW w \in Workers, Look(w)
  PROVE  IInv'
<1>1. Working(w) /\ worker[w].doing = "create" /\ worker \in [Workers -> Slot]
  BY DEF Look, IsAt, Working, IInv, TypeOK, StepFits
<1>2. ResultTypes' /\ LedgerFits'
  BY LedgerStays DEF Look, humanVars
<1> DEFINE x == IF FinalRun # NoRun /\ ~ChangedSinceCompute THEN "create" ELSE "park"
           t == [worker[w] EXCEPT !.step = x, !.seen = boxes]
<1>3. Sets(w, t)
  BY DEF Look, Sets
<1>4. t \in Slot /\ t.step = x /\ t.seen = boxes /\ t.doing = worker[w].doing
  <2>1. x \in Steps /\ boxes \in 0..MaxBoxes
    BY DEF IInv, TypeOK, Steps
  <2> HIDE DEF x
  <2>2. ASSUME NEW s \in Slot
        PROVE  LET u == [s EXCEPT !.step = x, !.seen = boxes] IN
               u \in Slot /\ u.step = x /\ u.seen = boxes /\ u.doing = s.doing
    BY <2>1, <2>2 DEF Slot
  <2>3. worker[w] \in Slot
    BY <1>1
  <2> QED
    BY <2>2, <2>3
<1>5. /\ Moves(w) /\ worker'[w].step = x /\ worker'[w].seen = boxes
      /\ worker'[w].doing = worker[w].doing
  <2> HIDE DEF t
  <2> QED
    BY <1>1, <1>3, <1>4, SlotSet DEF Moves
<1>6. x = "create" => boxes <= geometry.boxes
  <2>1. ledger.read \in Nat /\ geometry.boxes \in Nat /\ boxes \in Nat
    BY DEF IInv, TypeOK
  <2>2. ledger.read <= geometry.boxes
    BY DEF IInv, LedgerFits
  <2> QED
    BY <2>1, <2>2 DEF ChangedSinceCompute
<1>7. MeasureOf(w)'
  BY <1>5, <1>6 DEF MeasureOf, Look, workVars
<1> QED
  BY <1>1, <1>2, <1>5, <1>7, ComputeMoves DEF Look, workVars, ComputeSteps

LEMMA CreateStep ==
  ASSUME IInv, NEW w \in Workers, Create(w)
  PROVE  IInv'
<1>1. /\ Working(w) /\ worker[w].doing = "create" /\ worker \in [Workers -> Slot]
      /\ worker[w] \in Slot /\ MeasureOf(w)
  BY MeasureOfEach DEF Create, IsAt, Working, IInv, TypeOK, StepFits
<1>2. Moves(w) /\ worker'[w].step = "park"
  BY <1>1, ParksIs DEF Create, Moves
<1>3. \/ opinions' = opinions
      \/ opinions' = [run |-> geometry.run, boxes |-> geometry.boxes, look |-> worker[w].seen]
  BY DEF Create
<1>4. worker[w].seen <= geometry.boxes
  BY <1>1 DEF MeasureOf, Create, IsAt
<1>5. ResultTypes'
  BY <1>1, <1>3 DEF Create, ResultTypes, IInv, TypeOK, Slot
<1>6. LedgerFits'
  BY <1>3, <1>4 DEF IInv, LedgerFits, Create, humanVars, Standing
<1>7. MeasureOf(w)'
  BY <1>2 DEF MeasureOf
<1> QED
  BY <1>1, <1>2, <1>5, <1>6, <1>7, ComputeMoves DEF Create, ComputeSteps

LEMMA CreateFailsStep ==
  ASSUME IInv, NEW w \in Workers, CreateFails(w)
  PROVE  IInv'
<1>1. Working(w) /\ worker[w].doing = "create" /\ worker \in [Workers -> Slot]
  BY DEF CreateFails, IsAt, Working, IInv, TypeOK, StepFits
<1>2. Moves(w) /\ worker'[w].step = "park"
  BY <1>1, ParksIs DEF CreateFails, Moves
<1>3. ResultTypes' /\ LedgerFits'
  BY LedgerStays DEF CreateFails, humanVars
<1>4. MeasureOf(w)'
  BY <1>2 DEF MeasureOf
<1> QED
  BY <1>1, <1>2, <1>3, <1>4, ComputeMoves DEF CreateFails, workVars, ComputeSteps

\* A worker parks the scan and is done.
LEMMA Parking ==
  ASSUME IInv, NEW w \in Workers, IsAt(w, "park"), Ends(w), UNCHANGED <<workVars, humanVars, kills>>,
         status' \in Statuses, action' \in Actions,
         InReview' => InReview \/ RedactionReviewReady
  PROVE  IInv'
<1>1. Working(w) /\ worker \in [Workers -> Slot]
  BY DEF IsAt, Working, IInv, TypeOK
<1>2. Moves(w) /\ worker'[w].step = "idle"
  BY <1>1, EndsIs DEF Moves
<1>3. HolderFits' /\ \A v \in Workers : ~Working(v)'
  BY <1>1, <1>2, HolderEnds DEF IInv, humanVars
<1>4. TypeOK'
  BY <1>2 DEF IInv, TypeOK, Moves, workVars, humanVars
<1>5. RunsFit' /\ LedgerFits'
  BY WorkStays DEF humanVars
<1>6. ReviewFits'
  <2>1. CASE RedactionReviewReady
    BY <2>1, ReadyIsReviewed, ReviewOpens
  <2>2. CASE ~RedactionReviewReady
    BY <2>2, ReviewKept DEF IInv, workVars
  <2> QED
    BY <2>1, <2>2
<1> QED
  BY <1>3, <1>4, <1>5, <1>6, IdleFitsNext DEF IInv

LEMMA ComputeParkStep ==
  ASSUME IInv, NEW w \in Workers, ComputePark(w)
  PROVE  IInv'
<1>0. status \in Statuses /\ action \in Actions /\ worker \in [Workers -> Slot]
  BY DEF IInv, TypeOK
<1>1. \A v \in Workers : ~Working(v)'
  BY <1>0, EndsIs, Alone DEF ComputePark, IsAt, IInv, Working
<1>2. \/ ParkAt(w) = "page_done"
      \/ ParkAt(w) = "redaction_review" /\ RedactionReviewReady
  BY DEF ParkAt
<1>3. CASE status \notin Busy
  BY <1>0, <1>1, <1>3, Parking DEF ComputePark, InReview
<1>4. CASE /\ status \in Busy
           /\ worker[w].ok /\ worker[w].doing = "compute_create" /\ ParkAt(w) = "redaction_review"
  <2>1. status' = "queued" /\ action' = "create" /\ RedactionReviewReady
    BY <1>2, <1>4 DEF ComputePark, Queued
  <2> QED
    BY <2>1, Parking DEF ComputePark, Statuses, Actions, Approval
<1>5. CASE /\ status \in Busy
           /\ ~(worker[w].ok /\ worker[w].doing = "compute_create" /\ ParkAt(w) = "redaction_review")
  <2>1. status' = ParkAt(w) /\ action' = action
    BY <1>5 DEF ComputePark
  <2>2. InReview' => RedactionReviewReady
    BY <1>1, <1>2, <2>1 DEF InReview, Busy
  <2> QED
    BY <1>0, <1>2, <2>1, <2>2, Parking DEF ComputePark, Statuses
<1> QED
  BY <1>3, <1>4, <1>5

LEMMA CreateParkStep ==
  ASSUME IInv, NEW w \in Workers, CreatePark(w)
  PROVE  IInv'
<1>1. status' \in Statuses /\ action' \in Actions
  BY DEF CreatePark, IInv, TypeOK, Statuses
<1>2. InReview
  BY DEF CreatePark, InReview, IsAt, Working, Approval
<1> QED
  BY <1>1, <1>2, Parking DEF CreatePark

LEMMA PipelineParkStep ==
  ASSUME IInv, NEW w \in Workers, PipelinePark(w)
  PROVE  IInv'
<1>0. worker \in [Workers -> Slot]
  BY DEF IInv, TypeOK
<1>1. \A v \in Workers : ~Working(v)'
  BY <1>0, EndsIs, Alone DEF PipelinePark, IsAt, IInv, Working
<1>2. status' \in Statuses /\ action' \in Actions
  BY DEF PipelinePark, IInv, TypeOK, Statuses
<1>3. InReview' => InReview
  BY <1>1 DEF PipelinePark, InReview, Busy
<1> QED
  BY <1>2, <1>3, Parking DEF PipelinePark

-----------------------------------------------------------------------------
(* The theorems.                                                           *)

LEMMA WorksStep ==
  ASSUME IInv, NEW w \in Workers, Works(w) \/ Fails(w)
  PROVE  IInv'
BY ApplyPhaseStep, ApplyRowsStep, ApplyCommitStep, ApplyGlueStep, ApplyParkStep,
   ApplySupersedesStep, ComputeBeginStep, ComputeReadStep, ComputeWriteStep,
   ComputeStampStep, ComputeParkStep, LookStep, CreateStep, CreateParkStep,
   PipelineParkStep, ApplyFailsStep, ComputeFailsStep, CreateFailsStep
   DEF Works, Fails

LEMMA StutterStep ==
  ASSUME IInv, UNCHANGED vars
  PROVE  IInv'
<1>1. Notes
  BY HumanTypes DEF vars, humanVars, Notes
<1> QED
  BY <1>1, NotesStep

LEMMA NextKeeps ==
  ASSUME OneHolder, IInv, BoxRoom, [Next]_vars
  PROVE  IInv' /\ BoxRoom'
<1>1. BoxRoom'
  BY BoxRoomNext
<1>2. CASE UNCHANGED vars
  BY <1>1, <1>2, StutterStep
<1>3. CASE Tick \/ DetectionMerged \/ RowsSettle \/ RecoverStale \/ Kill
  BY <1>1, <1>3, QueueApplyStep, QueueComputeStep, PromoteStep, DetectionMergedStep, RowsSettleStep,
     RecoverStaleStep, KillStep DEF Tick
<1>4. ASSUME NEW w \in Workers, Claim(w) \/ Works(w) \/ Fails(w) PROVE IInv'
  BY <1>4, ClaimStep, WorksStep
<1>5. CASE Requests
  BY <1>1, <1>5, BoxLandsStep, ApproveSwapStep, ClosingSteps, AdminRequeuesStep DEF Requests
<1>6. CASE People
  BY <1>1, <1>6, NotingSteps, ApprovePagesStep, RecomputeStep, ReopenPagesStep, ReopenRedactionsStep,
     ClosingSteps DEF People
<1> QED
  BY <1>1, <1>2, <1>3, <1>4, <1>5, <1>6 DEF Next

LEMMA ReviewInvariant == OneHolder /\ Spec => [](IInv /\ BoxRoom)
<1>1. Init => IInv /\ BoxRoom
  <2>1. Init => BoxRoom
    BY ReviewAssumption DEF Init, BoxRoom, CuratorRow
  <2> QED
    BY <2>1, InitFits
<1>2. OneHolder /\ IInv /\ BoxRoom /\ [Next]_vars => (IInv /\ BoxRoom)'
  BY NextKeeps
<1>3. OneHolder => OneHolder'
  BY DEF OneHolder
<1> QED
  BY <1>1, <1>2, <1>3, PTL DEF Spec

\* Every variable keeps its type: no build or glue is tried past its attempts, and
\* the runs stay numbered, wherever no admin takes a claim from a worker that goes
\* on while another may take it (apply.py, _count_failure; services.py, the parks).
THEOREM TypeCorrect == OneHolder /\ Spec => []TypeOK
<1>1. IInv => TypeOK
  BY DEF IInv
<1> QED
  BY <1>1, ReviewInvariant, PTL

\* Whatever box a compute did not read, the bar and the approval see: the time it
\* notes is never later than the boxes in the redactions it wrote, for any order of
\* computes, boxes that land late, deaths, reopens and failures
\* (detections.changed_since_compute, record_apply_success).
THEOREM NoChangeIsMissed == OneHolder /\ Spec => []NoChangeMissed
<1>1. IInv => NoChangeMissed
  <2> SUFFICES ASSUME IInv, boxes > geometry.boxes PROVE boxes > ledger.read
    BY DEF NoChangeMissed, ChangedSinceCompute
  <2>1. ledger.read \in Nat /\ geometry.boxes \in Nat /\ boxes \in Nat
    BY DEF IInv, TypeOK
  <2> QED
    BY <2>1 DEF IInv, LedgerFits
<1> QED
  BY <1>1, ReviewInvariant, PTL

\* Opinions are approved over redactions that hold every box there was when the
\* worker looked, a box that passed the gate before the approval included
\* (opinions.run, changed_since_compute).
THEOREM ApprovedOverWhatWasRead == OneHolder /\ Spec => []ApprovedOverReadBoxes
<1>1. IInv => ApprovedOverReadBoxes
  <2> SUFFICES ASSUME IInv PROVE opinions.boxes >= opinions.look
    BY DEF ApprovedOverReadBoxes
  <2>1. opinions.boxes \in Nat /\ opinions.look \in Nat
    BY DEF IInv, TypeOK
  <2> QED
    BY <2>1 DEF IInv, LedgerFits
<1> QED
  BY <1>1, ReviewInvariant, PTL

\* Review 2 stays about the corrected volume that stands: no apply, compute or
\* creation that dies, fails, is queued again or is overtaken by a reopen puts it
\* over another run's redactions (review_states.py, _park_after_redactions).
THEOREM ReviewStaysOfTheVolume == OneHolder /\ Spec => []ReviewOfTheStandingVolume
<1>1. IInv => ReviewOfTheStandingVolume
  BY DEF IInv, ReviewFits, InReview, ReviewOfTheStandingVolume
<1> QED
  BY <1>1, ReviewInvariant, PTL
=============================================================================
