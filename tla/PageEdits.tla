------------------------------ MODULE PageEdits ------------------------------
(***************************************************************************)
(* The page edits of one volume and the corrected volume built from them   *)
(* (scanning/page_edits.py, apply.py, the page edit views, detections.py). *)
(*                                                                         *)
(* A curator deletes, turns, replaces, moves and inserts pages; every      *)
(* decision is a row that is withdrawn, never deleted.  The apply plans    *)
(* the corrected volume from the standing rows, cuts a shard for every     *)
(* edit that holds a page, writes the final PDF and stamps the rows.  The  *)
(* viewer draws the same decisions over the pages as scanned, and a box    *)
(* drawn on a page of one build follows that page into the next.           *)
(*                                                                         *)
(* Who may claim the volume, and when it is queued, is in ReviewFlow.      *)
(***************************************************************************)
EXTENDS Integers, SequencesExt, FiniteSetsExt

CONSTANTS
  PageCount,    \* pages of the original
  Turns,        \* the quarter turns in use, of PAGE_EDIT_ROTATIONS
  Kinds,        \* the kinds of edit in use
  LateKinds,    \* the kinds a request may be of that passes the lock before the
                \* approval and writes after it
  UploadPages,  \* how many pages an uploaded insert may hold
  EditEvents,   \* what may happen beside the plain run, a subset of AllEditEvents
  MaxAttempts,  \* APPLY_MAX_ATTEMPTS
  MaxRows,      \* bound: decisions
  MaxRuns,      \* bound: apply runs
  MaxBoxes      \* bound: boxes drawn

AllKinds  == {"delete", "rotate", "replace", "move", "insert"}  \* STRUCTURAL_KINDS
AllEditEvents == {"raise",      \* a build fails on the way
                  "kill",       \* the worker is killed during a build
                  "reopen",     \* staff reopen the page review
                  "supersede",  \* an admin supersedes the apply run
                  "lost"}       \* a later compute fails: the volume waits again

ASSUME PageEditsAssumption ==
  /\ PageCount \in Nat \ {0}
  /\ Turns \subseteq Nat \ {0}
  /\ Kinds \subseteq AllKinds /\ LateKinds \subseteq Kinds
  /\ EditEvents \subseteq AllEditEvents
  /\ UploadPages \subseteq Nat \ {0}
  /\ {MaxAttempts, MaxRuns} \subseteq Nat \ {0}
  /\ {MaxRows, MaxBoxes} \subseteq Nat

VARIABLES
  phase,   \* the part of Scan.status the edits look at
  late,    \* a request has passed the lock and has not written yet
  rows,    \* the PageEdit rows; a row's pk is its index
  runs,    \* the ApplyRun rows; a run's number is its index
  shards,  \* the shards in the bucket, by edit: the turn they were cut with
  build,   \* what the worker holds: a build in progress
  boxes    \* the hand-drawn boxes, and the picture each was drawn on

editVars == <<phase, late, rows, runs, shards, build, boxes>>

Pages   == 1..PageCount
Pks     == 1..MaxRows
Anchors == 0..PageCount   \* 0: before page 1
NoRun   == 0

Row == [kind : AllKinds, page : Anchors, anchor : Anchors, ordinal : 0..MaxRows,
        turn : Turns \cup {0}, pages : UploadPages \cup {1}, stands : BOOLEAN,
        run : 0..MaxRuns]

\* A page of a map: a page of the original (edit 0), or a page of the shard of an
\* edit, counted from 0, turned when the edit is a rotation.
Source == [edit : 0..MaxRows, page : Nat, turn : Turns \cup {0}]

Run  == [stands : BOOLEAN, built : BOOLEAN, edits : SUBSET Pks, map : Seq(Source),
         attempts : 0..MaxAttempts]
NewRun == [stands |-> TRUE, built |-> FALSE, edits |-> {}, map |-> <<>>, attempts |-> 0]

Idle == [run |-> NoRun, edits |-> {}, map |-> <<>>]

EditsTypeOK ==
  /\ phase \in {"review", "approved", "redaction"} /\ late \in BOOLEAN
  /\ rows \in Seq(Row) /\ Len(rows) <= MaxRows
  /\ runs \in Seq(Run) /\ Len(runs) <= MaxRuns
  /\ DOMAIN shards \subseteq DOMAIN rows
  /\ \A pk \in DOMAIN shards : shards[pk] \in Turns \cup {0}
  /\ build \in [run : 0..MaxRuns, edits : SUBSET Pks, map : Seq(Source)]
  /\ boxes \subseteq [edit : 0..MaxRows, page : Nat, run : 0..MaxRuns, index : Nat,
                      shows : {"scan", "file"} \X Nat \X Nat]

EditsInit ==
  /\ phase = "review" /\ late = FALSE
  /\ rows = <<>> /\ runs = <<>> /\ shards = <<>>
  /\ build = Idle /\ boxes = {}

-----------------------------------------------------------------------------
(* What the rows say.                                                      *)

Standing(kind) == {pk \in DOMAIN rows : rows[pk].kind = kind /\ rows[pk].stands}
StandingAt(kind, p) == {pk \in Standing(kind) : rows[pk].page = p}

\* standing structural rows: what ApplyRun.edit_ids must equal
CurrentEdits == {pk \in DOMAIN rows : rows[pk].stands}

Marked(kind) == {rows[pk].page : pk \in Standing(kind)}
At(kind, p)  == CHOOSE pk \in Standing(kind) : rows[pk].page = p

\* The original page each moved page follows.
Moves == [p \in Marked("move") |-> rows[At("move", p)].anchor]

\* The members of S in the order of a key, and those of s that are in S, in order:
\* SetToSortSeq and SelectSeq by a definition, which the provers do not have of those.
InOrder(S, key) ==
  CHOOSE s \in [1..Cardinality(S) -> S] :
    \A i, j \in 1..Cardinality(S) : i < j => key[s[i]] < key[s[j]]

Among(s, S) == FlattenSeq([i \in DOMAIN s |-> IF s[i] \in S THEN <<s[i]>> ELSE <<>>])

\* The images of one gap, in ordinal order.
Inserts(a) ==
  LET images == {pk \in Standing("insert") : rows[pk].anchor = a} IN
  InOrder(images, [pk \in images |-> rows[pk].ordinal])

NextOrdinal(a) == LET taken == {rows[pk].ordinal : pk \in Range(Inserts(a))} IN
                  IF taken = {} THEN 0 ELSE Max(taken) + 1

Ascending(S) == InOrder(S, [n \in S |-> n])

PageSlot(p) == [is |-> "page", n |-> p]
GapSlot(a)  == [is |-> "gap", n |-> a]

\* The pages moved onto a, then the gap where the images anchored on a go.
Gap(a) ==
  LET landing == Ascending({p \in DOMAIN Moves : Moves[p] = a}) IN
  [i \in DOMAIN landing |-> PageSlot(landing[i])] \o <<GapSlot(a)>>

\* The slots of a volume of count pages, in order: a moved page leaves its own
\* slot, its gap stays; what is anchored past the end comes last.
SlotOrder(count, anchors) ==
  LET past == Ascending({a \in Range(Moves) \cup anchors : a > count}) IN
  Gap(0)
  \o FlattenSeq([p \in 1..count |->
       (IF p \in DOMAIN Moves THEN <<>> ELSE <<PageSlot(p)>>) \o Gap(p)])
  \o FlattenSeq([i \in DOMAIN past |-> Gap(past[i])])

-----------------------------------------------------------------------------
(* The plan of a run.                                                      *)

Original(p)   == [edit |-> 0, page |-> p, turn |-> 0]
Upload(pk)    == [k \in 1..rows[pk].pages |-> [edit |-> pk, page |-> k - 1, turn |-> 0]]

Turned(p) == LET pk == At("rotate", p) IN [edit |-> pk, page |-> 0, turn |-> rows[pk].turn]

\* What the rows of a page make of its slot, wherever it lands.
EmitSlot(p) ==
  IF p \in Marked("delete") THEN <<>>
  ELSE IF p \in Marked("replace") THEN Upload(At("replace", p))
  ELSE IF p \in Marked("rotate") THEN <<Turned(p)>>
  ELSE <<Original(p)>>

Emit(slot) ==
  IF slot.is = "page" THEN EmitSlot(slot.n)
  ELSE FlattenSeq([i \in DOMAIN Inserts(slot.n) |-> Upload(Inserts(slot.n)[i])])

\* The pages of the corrected volume.
Plan ==
  LET slots == SlotOrder(PageCount, {rows[pk].anchor : pk \in Standing("insert")}) IN
  FlattenSeq([i \in DOMAIN slots |-> Emit(slots[i])])

\* The edits a map names: they need a shard and job rows.
ShardEdits(map) == {s.edit : s \in Range(map)} \ {0}

\* What a page of a map shows: a page as scanned, turned or not, or a page of an
\* uploaded file.
Picture(s) ==
  IF s.edit = 0 THEN <<"scan", s.page, 0>>
  ELSE IF rows[s.edit].kind = "rotate" THEN <<"scan", rows[s.edit].page, s.turn>>
  ELSE <<"file", s.edit, s.page>>

Pictures(map) == [i \in DOMAIN map |-> Picture(map[i])]

\* The same page in what the stages read: the volume's own pages, and the shards.
ReadFrom(s) == IF s.edit = 0 THEN s ELSE [s EXCEPT !.turn = shards[s.edit]]

Standings  == {n \in DOMAIN runs : runs[n].stands}
CurrentRun == IF Standings = {} THEN NoRun ELSE Max(Standings)

Superseded == [n \in DOMAIN runs |-> [runs[n] EXCEPT !.stands = FALSE]]

\* Mutated form: a built run whose edits have changed is not built again.
BuildDueOnce ==
  LET n == CurrentRun IN
  IF n = NoRun THEN TRUE ELSE ~runs[n].built /\ runs[n].attempts < MaxAttempts

BuildDue ==
  LET n == CurrentRun IN
  IF n = NoRun THEN TRUE
  ELSE IF runs[n].built THEN runs[n].edits # CurrentEdits
  ELSE runs[n].attempts < MaxAttempts

-----------------------------------------------------------------------------
(* The curator's decisions.                                                *)

\* The lock every page edit asks first; a request that has passed it writes
\* whatever has happened since.
PassesLock(kind) ==
  \/ phase = "review" /\ UNCHANGED late
  \/ phase # "review" /\ kind \in LateKinds /\ late /\ late' = FALSE

Withdrawn(S) == [pk \in DOMAIN rows |->
                   IF pk \in S THEN [rows[pk] EXCEPT !.stands = FALSE] ELSE rows[pk]]

Decision(kind, p, a, turn) ==
  [kind |-> kind, page |-> p, anchor |-> a, ordinal |-> 0, turn |-> turn,
   pages |-> 1, stands |-> TRUE, run |-> NoRun]

\* The one write path of the kinds that live on a page: an open row at the address
\* is updated in place, a built one is withdrawn for a new row.
Supersede(kind, p, row) ==
  LET at   == StandingAt(kind, p)
      open == {pk \in at : rows[pk].run = NoRun} IN
  IF open # {} THEN [rows EXCEPT ![CHOOSE pk \in open : TRUE] = row]
  ELSE Append(Withdrawn(at), row)

Decide(kind) == kind \in Kinds /\ PassesLock(kind) /\ UNCHANGED <<phase, runs, shards, build, boxes>>

Written(new) == Len(new) <= MaxRows /\ rows' = new

DeletePage ==
  /\ Decide("delete")
  /\ \E p \in Pages : Written(Supersede("delete", p, Decision("delete", p, 0, 0)))

RotatePage ==
  /\ Decide("rotate")
  /\ \E p \in Pages, turn \in Turns :
       Written(Supersede("rotate", p, Decision("rotate", p, 0, turn)))

MovePage ==
  /\ Decide("move")
  /\ \E p \in Pages : \E a \in Anchors \ {p} :
       Written(Supersede("move", p, Decision("move", p, a, 0)))

\* A second upload for a page withdraws the row before it, whatever became of it.
ReplacePage ==
  /\ Decide("replace")
  /\ \E p \in Pages : Written(Append(Withdrawn(StandingAt("replace", p)),
                                    Decision("replace", p, 0, 0)))

AddPageInsert ==
  /\ Decide("insert")
  /\ \E a \in Anchors, n \in UploadPages :
       Written(Append(rows, [Decision("insert", 0, a, 0) EXCEPT
                               !.ordinal = NextOrdinal(a), !.pages = n]))

\* undo_delete_page, undo_move_page and undo_replace_page; a turn has no undo.
UndoPage ==
  \E kind \in {"delete", "move", "replace"} :
    /\ Decide(kind)
    /\ \E p \in Marked(kind) : rows' = Withdrawn(StandingAt(kind, p))

RemovePageInsert ==
  /\ Decide("insert")
  /\ \E pk \in Standing("insert") : rows' = Withdrawn({pk})

-----------------------------------------------------------------------------
(* The build: apply.build_run.                                             *)

ApprovePages ==
  /\ phase = "review"
  /\ phase' = "approved"
  /\ late' \in {FALSE, LateKinds # {}}
  /\ UNCHANGED <<rows, runs, shards, build, boxes>>

\* Take the standing run that is not built, or close the built one whose edits
\* have changed and make the next; plan from the standing rows.
BeginBuild ==
  LET n == CurrentRun
      reuse == n # NoRun /\ ~runs[n].built
      target == IF reuse THEN n ELSE Len(runs) + 1 IN
  /\ phase = "approved" /\ build = Idle
  /\ BuildDue
  /\ target <= MaxRuns
  /\ runs' = IF reuse THEN runs ELSE Append(Superseded, NewRun)
  /\ build' = [run |-> target, edits |-> CurrentEdits, map |-> Plan]
  /\ UNCHANGED <<phase, late, rows, shards, boxes>>

\* The edits whose shard is not in the bucket yet.
Uncut == {pk \in ShardEdits(build.map) : pk \notin DOMAIN shards}

\* A shard at its key is described, not cut again.
CutShard ==
  /\ \E pk \in Uncut :
       \E i \in DOMAIN build.map :
         /\ build.map[i].edit = pk
         /\ shards' = [e \in DOMAIN shards \cup {pk} |->
                         IF e = pk THEN build.map[i].turn ELSE shards[e]]
  /\ UNCHANGED <<phase, late, rows, runs, build, boxes>>

\* The final PDF and the map are uploaded, the rows that still stand are stamped
\* and the run is built.  A volume nobody changed is the original itself.
CommitBuild ==
  /\ build # Idle /\ Uncut = {}
  /\ rows' = [pk \in DOMAIN rows |->
               IF pk \in build.edits /\ rows[pk].stands
               THEN [rows[pk] EXCEPT !.run = build.run] ELSE rows[pk]]
  /\ runs' = [runs EXCEPT ![build.run] = [@ EXCEPT
               !.built = TRUE, !.edits = build.edits, !.map = build.map, !.attempts = 0]]
  /\ build' = Idle
  /\ UNCHANGED <<phase, late, shards, boxes>>

\* An upload fails, after any of the shards: the attempt is counted.
FailBuild ==
  /\ "raise" \in EditEvents
  /\ build # Idle
  /\ runs' = [runs EXCEPT ![build.run].attempts = @ + 1]
  /\ build' = Idle
  /\ UNCHANGED <<phase, late, rows, shards, boxes>>

KillBuild ==
  /\ "kill" \in EditEvents
  /\ build # Idle
  /\ build' = Idle
  /\ UNCHANGED <<phase, late, rows, runs, shards, boxes>>

-----------------------------------------------------------------------------
(* The second review, and the ways back.                                   *)

\* Mutated form: a page that was replaced or turned still answers for its original.
PlaceInSlot(map, edit, page) ==
  LET slot(s) == IF s.edit # 0 /\ edit = 0 THEN rows[s.edit].page
                 ELSE IF s.edit = edit THEN s.page ELSE -1
      at == {i \in DOMAIN map : slot(map[i]) = page} IN
  IF at = {} THEN 0 ELSE Min(at)

\* A slot of the map, by the address a box carries; 0: the map has none.
Place(map, edit, page) ==
  LET at == {i \in DOMAIN map : map[i].edit = edit /\ map[i].page = page} IN
  IF at = {} THEN 0 ELSE Min(at)

\* A box goes to its page in the new map; one whose page is gone stays as it is.
Relocated(box, n) ==
  LET index == Place(runs[n].map, box.edit, box.page) IN
  IF index = 0 THEN box ELSE [box EXCEPT !.run = n, !.index = index]

\* The glue and the compute over the built run, which open the second review.
OpenRedactionReview ==
  LET n == CurrentRun IN
  /\ phase = "approved" /\ build = Idle
  /\ n # NoRun /\ runs[n].built /\ ~BuildDue
  /\ boxes' = {Relocated(box, n) : box \in boxes}
  /\ phase' = "redaction"
  /\ UNCHANGED <<late, rows, runs, shards, build>>

\* A box is drawn on page i of the standing run's volume, or of the original when
\* no run stands, and keeps the address of that page.
DrawBox ==
  LET n   == CurrentRun
      map == IF n = NoRun THEN [p \in Pages |-> Original(p)] ELSE runs[n].map IN
  /\ phase = "redaction" /\ Cardinality(boxes) < MaxBoxes
  /\ \E i \in DOMAIN map :
       boxes' = boxes \cup {[edit |-> map[i].edit, page |-> map[i].page, run |-> n,
                            index |-> i, shows |-> Picture(map[i])]}
  /\ UNCHANGED <<phase, late, rows, runs, shards, build>>

\* reopen_page_review: an approved volume nobody works on.
ReopenPageReview ==
  /\ "reopen" \in EditEvents
  /\ phase = "approved" /\ build = Idle
  /\ phase' = "review" /\ late' = FALSE
  /\ runs' = Superseded
  /\ UNCHANGED <<rows, shards, build, boxes>>

\* The admin's way out of a run that gave up.
AdminSupersedes ==
  /\ "supersede" \in EditEvents
  /\ CurrentRun # NoRun
  /\ runs' = Superseded
  /\ UNCHANGED <<phase, late, rows, shards, build, boxes>>

\* A compute asked for in the second review fails, and the volume waits again.
ComputeFails ==
  /\ "lost" \in EditEvents
  /\ phase = "redaction"
  /\ phase' = "approved"
  /\ UNCHANGED <<late, rows, runs, shards, build, boxes>>

-----------------------------------------------------------------------------
Edit == DeletePage \/ RotatePage \/ MovePage \/ ReplacePage \/ AddPageInsert
        \/ UndoPage \/ RemovePageInsert

EditsNext ==
  \/ Edit
  \/ ApprovePages \/ BeginBuild \/ CutShard \/ CommitBuild \/ FailBuild \/ KillBuild
  \/ OpenRedactionReview \/ DrawBox
  \/ ReopenPageReview \/ AdminSupersedes \/ ComputeFails

EditsSpec == EditsInit /\ [][EditsNext]_editVars

-----------------------------------------------------------------------------
(* The viewer: the page map as stored, with the standing images drawn into *)
(* it.  An entry of a map is a page of the original, or Missing, the       *)
(* placeholder of a page the sequence analysis found missing.              *)

Missing == 0

\* order_by_moves over the pages that were read.
PagesInOrder(read) ==
  LET slots == SlotOrder(IF read = {} THEN 0 ELSE Max(read), {})
      held  == Among(slots, {PageSlot(p) : p \in read}) IN
  [i \in DOMAIN held |-> held[i].n] \o Ascending(read \ {slot.n : slot \in Range(held)})

Shown(is, n, anchor) == [is |-> is, n |-> n, anchor |-> anchor]
Image(pk) == Shown("insert", pk, 0)

\* An entry of the map: a placeholder takes the next image of its gap, or carries
\* the gap.
Draw(walk, entry) ==
  IF entry # Missing THEN [walk EXCEPT !.out = Append(@, Shown("page", entry, 0))]
  ELSE IF walk.queue = <<>>
  THEN [walk EXCEPT !.out = Append(@, Shown("missing", 0, walk.gap))]
  ELSE [walk EXCEPT !.out = Append(@, Image(Head(walk.queue))), !.queue = Tail(@)]

DrawUntil(walk, map, stop) ==
  [FoldLeft(Draw, walk, SubSeq(map, walk.at, stop - 1)) EXCEPT !.at = Max({stop, walk.at})]

\* The images still queued for the gap the walk is leaving.
Flush(walk) ==
  [walk EXCEPT !.out = @ \o [i \in DOMAIN walk.queue |-> Image(walk.queue[i])],
               !.queue = <<>>]

\* Mutated form: the images of a gap follow the next page.
VisitLate(walk, map, slot) ==
  LET at == {i \in DOMAIN map : map[i] = slot.n /\ slot.n # Missing} IN
  IF slot.is = "gap"
  THEN IF slot.n # 0 /\ at = {} THEN walk
       ELSE [walk EXCEPT !.gap = slot.n, !.queue = @ \o Inserts(slot.n)]
  ELSE IF at = {} \/ Min(at \cup {Len(map)}) < walk.at THEN walk
  ELSE Flush(DrawUntil(walk, map, Min(at) + 1))

\* A slot of the corrected volume; a gap whose page the map has lost is passed over.
Visit(walk, map, slot) ==
  LET at == {i \in DOMAIN map : map[i] = slot.n /\ slot.n # Missing} IN
  IF slot.is = "gap"
  THEN IF slot.n # 0 /\ at = {} THEN walk
       ELSE [walk EXCEPT !.gap = slot.n, !.queue = @ \o Inserts(slot.n)]
  ELSE IF at = {} \/ Min(at \cup {Len(map)}) < walk.at THEN walk
  ELSE DrawUntil(Flush(DrawUntil(walk, map, Min(at))), map, Min(at) + 1)

\* project_inserts: what the viewer draws over a page map.
ProjectInserts(map) ==
  LET slots  == SlotOrder(Max(Range(map) \cup {0}), {})
      walked == FoldLeft(LAMBDA walk, slot : Visit(walk, map, slot),
                         [out |-> <<>>, at |-> 1, gap |-> 0, queue |-> <<>>], slots)
      out    == Flush(DrawUntil(walked, map, Len(map) + 1)).out
      placed == {entry.n : entry \in {e \in Range(out) : e.is = "insert"}}
      unplaced == Ascending(Standing("insert") \ placed) IN
  out \o [i \in DOMAIN unplaced |-> Image(unplaced[i])]

-----------------------------------------------------------------------------
(* Properties.                                                             *)

\* Where a decision puts a page or an image, said once and without a walk: a page
\* after the pages before it, a moved page after its anchor, an image after the
\* pages moved there and after the images uploaded before it.
PlaceOf(is, n) ==
  LET base == CASE is = "page" /\ n \in DOMAIN Moves -> <<Moves[n], 1>>
                [] is = "page" /\ n \notin DOMAIN Moves -> <<n, 0>>
                [] is = "insert" -> <<rows[n].anchor, 2>> IN
  (base[1] * 3 + base[2]) * (MaxRows + PageCount + 1) + n

InPlaceOrder(S) == InOrder(S, [x \in S |-> PlaceOf(x.is, x.n)])

AllPages  == {[is |-> "page", n |-> p] : p \in Pages}
AllImages == {[is |-> "insert", n |-> pk] : pk \in Standing("insert")}

\* What a decided place holds in the corrected volume.
Holds(x) ==
  IF x.is = "insert" THEN [k \in 1..rows[x.n].pages |-> <<"file", x.n, k - 1>>]
  ELSE IF x.n \in Marked("delete") THEN <<>>
  ELSE IF x.n \in Marked("replace") THEN <<<<"file", At("replace", x.n), 0>>>>
  ELSE IF x.n \in Marked("rotate")
  THEN <<<<"scan", x.n, rows[At("rotate", x.n)].turn>>>>
  ELSE <<<<"scan", x.n, 0>>>>

Decided == LET order == InPlaceOrder(AllPages \cup AllImages) IN
           FlattenSeq([i \in DOMAIN order |-> Holds(order[i])])

\* Whatever was decided, withdrawn, decided again, built, lost and built again,
\* the final PDF of a current run is the volume the standing decisions describe
\* (plan_run, slot_order, supersede, ApplyRun.edit_ids).
VolumeIsTheDecision ==
  LET n == CurrentRun IN
  phase # "review" /\ n # NoRun /\ ~BuildDue /\ runs[n].built
    => Pictures(runs[n].map) = Decided

\* The page maps the viewer may be given: in the order of the moves, with one page
\* lost or none, and one placeholder anywhere or none.
MapsOf(read) ==
  LET order == PagesInOrder(read) IN
  {order} \cup {InsertAt(order, i, Missing) : i \in 1..(Len(order) + 1)}

WithoutMissing(out) == Among(out, {e \in Range(out) : e.is # "missing"})
ImagesIn(out) == {e \in Range(out) : e.is = "insert"}

\* A curator sees the volume the apply would build: every page and every image once
\* and in its place, whether or not a placeholder stands among them; over a map that
\* has lost a page every image is still drawn (project_inserts, order_by_moves).
ViewerShowsThePlan ==
  phase = "review" =>
    /\ \A map \in MapsOf(Pages) :
         LET out   == WithoutMissing(ProjectInserts(map))
             order == InPlaceOrder(AllPages \cup AllImages) IN
         [i \in DOMAIN out |-> [is |-> out[i].is, n |-> out[i].n]] = order
    /\ \A p \in Pages : \A map \in MapsOf(Pages \ {p}) :
         LET out == ProjectInserts(map) IN
         /\ {e.n : e \in ImagesIn(out)} = Standing("insert")
         /\ Len(Among(out, ImagesIn(out))) = Cardinality(Standing("insert"))

\* A box stays on the picture it was drawn on: the index it holds in its run's
\* volume shows that picture, however the pages were moved, turned, replaced or
\* deleted between two builds (relocate_rows, index_placer, source_for_index).
BoxesKeepTheirPage ==
  \A box \in boxes :
    box.run # NoRun => Picture(runs[box.run].map[box.index]) = box.shows

\* What the stages read for a page of the corrected volume is that page: the shard
\* of an edit holds the picture the final PDF holds (_ensure_page_shard,
\* walk_final_pages).
ReadsAreOfThePages ==
  LET n == CurrentRun IN
  n # NoRun /\ runs[n].built =>
    \A s \in Range(runs[n].map) : Picture(ReadFrom(s)) = Picture(s)

\* An upload against a placeholder lands where the placeholder stands: what is drawn
\* before it goes before the gap it carries, what is drawn after it follows
\* (project_inserts).
PlaceholderHoldsItsGap ==
  phase = "review" =>
    \A map \in MapsOf(Pages) :
      LET out == ProjectInserts(map) IN
      \A i \in DOMAIN out : out[i].is = "missing" =>
        LET gap == (out[i].anchor * 3 + 2) * (MaxRows + PageCount + 1) + MaxRows + 1 IN
        \A j \in DOMAIN out \ {i} : (PlaceOf(out[j].is, out[j].n) < gap) <=> (j < i)
=============================================================================
