----------------------------- MODULE OpinionRows -----------------------------
(***************************************************************************)
(* One opinion between the approval of its redactions and the approval of  *)
(* its text (scanning/opinions.py, opinion_ocr.py, ensemble.py,            *)
(* opinion_pdf.py, opinion_figures.py, opinion_edits.py,                   *)
(* opinion_review.py).  The row is the ledger: every derived object has a  *)
(* revision in its key, is written first and stamped on the row by a       *)
(* compare-and-swap on the revision the writer read.                       *)
(*                                                                         *)
(* Six processes share the row: the prepare_opinions tick (glue, ensemble, *)
(* promotion, one after the other), the PDF tick, the picture tick, the    *)
(* request of a curator who edits, the request of a curator who approves,  *)
(* and the command that glues again.  Each holds the stamps it read.  What *)
(* an object is made of is abstracted to the redactions it was made under  *)
(* and the number of edits it holds.                                       *)
(***************************************************************************)
EXTENDS Integers, FiniteSets

CONSTANTS
  Inputs,       \* what the redactions of the opinion's pages may read
  Original,     \* the redactions of the first approval
  MaxRev,       \* bound: the highest glue_revision
  MaxEdit,      \* bound: the highest edit_revision
  MaxAttempts,  \* MAX_ATTEMPTS of each work
  Pictures,     \* whether the text holds a picture
  MaxKills,     \* bound: processes that may die in one behaviour
  Events        \* what may happen beside the plain run, a subset of AllEvents

AllEvents == {"engines",  \* the engine documents of the volume come and go
              "reopen",   \* a staff member opens the redaction review again
              "reglue",   \* the command reglue_opinion_ocr
              "edit",     \* a curator edits, undoes, or presses the re-run
              "approve",  \* a curator approves; staff may open the text again
              "rewrite",  \* the command rewrite_approved_text
              "byhand",   \* a tick's command is run by hand, without the lock
              "fault",    \* a work other than the pictures fails
              "unpictured"} \* a picture does not render

None == "none"

ASSUME OpinionAssumption ==
  /\ Original \in Inputs /\ None \notin Inputs
  /\ MaxRev \in Nat /\ MaxEdit \in Nat /\ MaxKills \in Nat
  /\ MaxAttempts \in Nat \ {0}
  /\ Pictures \in BOOLEAN
  /\ Events \subseteq AllEvents

NoRev  == -1

\* What load_inputs finds of the volume: it is held (the corrected volume is not
\* built, the redactions are not measured against it, an engine is owed, a document
\* does not load, or there is none), or it has fewer engine documents than
\* min_engines, or enough.
Volumes == {"held", "few", "enough"}

Revs   == 0..MaxRev
Edits  == 0..MaxEdit
Works  == {"glue", "ensemble", "pdf", "figures"}
Statuses == {"processing", "ready", "done", "error"}

Text    == [of : Inputs \cup {None}, edits : Edits \cup {NoRev}]
NoText  == [of |-> None, edits |-> NoRev]
Approved == [of : Inputs \cup {None}, edits : Edits \cup {NoRev},
             picture : Inputs \cup {None}]

\* The columns a process keeps of the row it read.
Stamps == [glue : Revs, pdf : Revs \cup {NoRev}, ocr : Revs \cup {NoRev},
           ens : Revs \cup {NoRev}, ensEdit : Edits, edit : Edits,
           figures : Inputs \cup {None}]

VARIABLES
  scan,     \* where the volume is: review, creating, created, done
  drawn,    \* the redactions that stand now
  volume,   \* what the glue finds of the volume's engine documents
  row,      \* the Opinion row
  bucket,   \* the objects, by revision
  mem,      \* what each process holds
  kills     \* processes killed so far

rowVars == <<scan, drawn, row, bucket, mem, kills>>
vars    == <<rowVars, volume>>

Processes == {"tick", "pdf", "cut", "web", "approval", "op"}
Builders  == {"tick", "web"}   \* who runs ensemble.write

Steps == {"idle", "inputs", "glueing", "glued",
          "edit", "saved", "build", "loaded", "uploaded", "stamped", "lost",
          "promote", "prune", "demote", "read", "stored", "cutting",
          "gated", "rendered", "carried", "bare"}

NoStamps == [glue |-> 0, pdf |-> NoRev, ocr |-> NoRev, ens |-> NoRev,
             ensEdit |-> 0, edit |-> 0, figures |-> None]
Slot == [step : Steps, at : Stamps, of : Inputs \cup {None},
         edits : Edits \cup {NoRev}, picture : Inputs \cup {None}, tries : 0..2,
         enough : BOOLEAN]
Idle == [step |-> "idle", at |-> NoStamps, of |-> None, edits |-> NoRev,
         picture |-> None, tries |-> 0, enough |-> FALSE]

NoApproval == [of |-> None, edits |-> NoRev, picture |-> None]

RowTypeOK ==
  /\ scan \in {"review", "creating", "created", "done"}
  /\ drawn \in Inputs
  /\ row \in [status : Statuses, message : Works \cup {None}, digest : Inputs,
              glue : Revs, pdf : Revs \cup {NoRev}, ocr : Revs \cup {NoRev},
              ens : Revs \cup {NoRev}, ensEdit : Edits, edit : Edits, enough : BOOLEAN,
              figures : Inputs \cup {None}, cut : Inputs \cup {None},
              attempts : [Works -> 0..MaxAttempts], approved : Approved]
  /\ bucket \in [glues : [Revs -> Inputs \cup {None}],
                 pdfs : [Revs -> Inputs \cup {None}],
                 texts : [Revs \X Edits -> Text],
                 picture : Inputs \cup {None}]
  /\ mem \in [Processes -> Slot]
  /\ kills \in 0..MaxKills

TypeOK == RowTypeOK /\ volume \in Volumes

Init ==
  /\ scan = "done"
  /\ drawn = Original
  /\ volume \in IF "engines" \in Events THEN Volumes ELSE {"enough"}
  /\ row = [status |-> "processing", message |-> None, digest |-> Original,
            glue |-> 0, pdf |-> NoRev, ocr |-> NoRev, ens |-> NoRev,
            ensEdit |-> 0, edit |-> 0, enough |-> FALSE, figures |-> None, cut |-> None,
            attempts |-> [w \in Works |-> 0], approved |-> NoApproval]
  /\ bucket = [glues |-> [r \in Revs |-> None], pdfs |-> [r \in Revs |-> None],
               texts |-> [k \in Revs \X Edits |-> NoText], picture |-> None]
  /\ mem = [p \in Processes |-> Idle]
  /\ kills = 0

-----------------------------------------------------------------------------
(* The rules read off the row.                                             *)

IsAt(p, step)  == mem[p].step = step

OcrWritten      == row.ocr = row.glue
EnsembleWritten == OcrWritten /\ row.ens = row.ocr
PdfWritten      == row.pdf = row.glue
FiguresWritten  == row.figures = None \/ row.cut = row.figures

TextReviewReady == PdfWritten /\ EnsembleWritten /\ FiguresWritten

Tries(work)  == row.attempts[work] < MaxAttempts
GlueDue      == scan = "done" /\ Tries("glue") /\ row.status # "error" /\ ~OcrWritten
PdfDue       == scan = "done" /\ Tries("pdf") /\ row.status # "error" /\ ~PdfWritten
EnsembleDue  == /\ scan = "done" /\ Tries("ensemble") /\ OcrWritten /\ row.enough
                /\ row.status \notin {"error", "done"}
                /\ row.ens # row.ocr \/ row.ensEdit # row.edit
FiguresDue   == /\ scan = "done" /\ Tries("figures") /\ EnsembleWritten
                /\ ~FiguresWritten
                /\ row.status \notin {"error", "done"}

\* One advisory lock (OPINION_MIRROR_LOCK), or the daemon's one loop, holds the
\* three ticks apart.
MirrorFree ==
  "byhand" \in Events \/ \A p \in {"tick", "pdf", "cut"} : IsAt(p, "idle")

StampsRead == [glue |-> row.glue, pdf |-> row.pdf, ocr |-> row.ocr,
               ens |-> row.ens, ensEdit |-> row.ensEdit, edit |-> row.edit,
               figures |-> row.figures]

\* The stamps a process compares or names a key with later; it forgets the rest.
Kept(fields) ==
  [f \in DOMAIN NoStamps |-> IF f \in fields THEN StampsRead[f] ELSE NoStamps[f]]
Holds(p, step, fields) ==
  mem' = [mem EXCEPT ![p] = [Idle EXCEPT !.step = step, !.at = Kept(fields)]]
Goes(p, step)  == mem' = [mem EXCEPT ![p].step = step]
Ends(p)        == mem' = [mem EXCEPT ![p] = Idle]

\* A work spends one attempt; at the cap the row ends, unless it is approved.
\* The ensemble leaves the reason of a row another work ended, the pictures
\* name themselves only when they end it.
Spent(work) ==
  LET spent == row.attempts[work] + 1
      ends  == spent >= MaxAttempts /\ row.status # "done"
      silent == \/ work = "ensemble" /\ row.status = "error"
                \/ work = "figures" /\ (row.status = "error" \/ ~ends) IN
  [row EXCEPT
     !.attempts[work] = spent,
     !.message = IF silent THEN @ ELSE work,
     !.status = IF ends THEN "error" ELSE @]

Cleared(r, work) == [r EXCEPT !.message = IF @ = work THEN None ELSE @]

-----------------------------------------------------------------------------
(* The OCR glue: the inputs of the scan are read once, then its due rows.  *)

\* A held volume is passed over until a later tick.
GlueLoad ==
  /\ MirrorFree /\ IsAt("tick", "idle") /\ GlueDue
  /\ volume # "held"
  /\ mem' = [mem EXCEPT !["tick"] = [Idle EXCEPT !.step = "inputs", !.of = drawn,
                                                !.enough = (volume = "enough")]]
  /\ UNCHANGED <<scan, drawn, row, bucket, kills>>

GlueRead ==
  /\ IsAt("tick", "inputs")
  /\ IF GlueDue
     THEN mem' = [mem EXCEPT !["tick"].step = "glueing", !["tick"].at = Kept({"glue"})]
     ELSE Ends("tick")
  /\ UNCHANGED <<scan, drawn, row, bucket, kills>>

GlueWrite ==
  /\ IsAt("tick", "glueing")
  /\ bucket' = [bucket EXCEPT !.glues[mem["tick"].at.glue] = mem["tick"].of]
  /\ Goes("tick", "glued")
  /\ UNCHANGED <<scan, drawn, row, kills>>

GlueStamp ==
  /\ IsAt("tick", "glued")
  /\ row' = IF row.glue = mem["tick"].at.glue
            THEN [Cleared(row, "glue") EXCEPT !.ocr = row.glue, !.attempts["glue"] = 0,
                                              !.enough = mem["tick"].enough]
            ELSE row
  /\ Ends("tick")
  /\ UNCHANGED <<scan, drawn, bucket, kills>>

\* The failure is counted on whatever revision the row has by now.
GlueFails ==
  /\ "fault" \in Events
  /\ IsAt("tick", "glueing")
  /\ row' = Spent("glue")
  /\ Ends("tick")
  /\ UNCHANGED <<scan, drawn, bucket, kills>>

-----------------------------------------------------------------------------
(* The ensemble: one procedure (load, build, upload, stamp, drop), run by  *)
(* the tick and by a curator's request.                                    *)

EnsembleRead ==
  /\ MirrorFree /\ IsAt("tick", "idle") /\ EnsembleDue
  /\ Holds("tick", "build", {"glue", "ocr"})
  /\ UNCHANGED <<scan, drawn, row, bucket, kills>>

\* The button "Re run OCR ensemble".  It asks for no number of engines.
Rerun ==
  /\ "edit" \in Events
  /\ IsAt("web", "idle")
  /\ row.status # "done" /\ OcrWritten
  /\ Holds("web", "build", {"glue", "ocr"})
  /\ UNCHANGED <<scan, drawn, row, bucket, kills>>

\* An edit is judged over the stamped document; an Undo asks for no revision.
EditGate ==
  /\ "edit" \in Events
  /\ IsAt("web", "idle")
  /\ row.edit < MaxEdit
  /\ row.status = "ready"
  /\ \/ /\ EnsembleWritten /\ row.edit = row.ensEdit
        /\ bucket.texts[<<row.glue, row.ensEdit>>] # NoText
     \/ row.edit > 0
  /\ Holds("web", "edit", {})
  /\ UNCHANGED <<scan, drawn, row, bucket, kills>>

\* The edit and the rise of edit_revision are one transaction.  The status is
\* not looked at again.
Edit ==
  /\ IsAt("web", "edit")
  /\ row' = [row EXCEPT !.edit = @ + 1]
  /\ mem' = [mem EXCEPT !["web"].step = "saved", !["web"].tries = 2]
  /\ UNCHANGED <<scan, drawn, bucket, kills>>

\* The text is built over the row as it is now, whatever its status.
Fresh ==
  /\ IsAt("web", "saved")
  /\ mem' = [mem EXCEPT !["web"].step = "build", !["web"].at = Kept({"glue", "ocr"})]
  /\ UNCHANGED <<scan, drawn, row, bucket, kills>>

\* The documents of the revision held, and then the edit revision.
Load(p) ==
  /\ IsAt(p, "build")
  /\ bucket.glues[mem[p].at.glue] # None
  /\ mem' = [mem EXCEPT ![p].step = "loaded",
                        ![p].of = bucket.glues[mem[p].at.glue],
                        ![p].at.edit = row.edit]
  /\ UNCHANGED <<scan, drawn, row, bucket, kills>>

\* A fact about the row (a document is missing, a page does not read) or an
\* exception: the tick counts it, a request answers it.
EnsembleFails(p) ==
  /\ \/ IsAt(p, "build") /\ bucket.glues[mem[p].at.glue] = None
     \/ IsAt(p, "loaded") /\ "fault" \in Events
  /\ row' = IF p = "tick" THEN Spent("ensemble") ELSE row
  /\ Ends(p)
  /\ UNCHANGED <<scan, drawn, bucket, kills>>

\* Mutated form: the edits are those of the load, read before the revision.
UploadEarlyEdits(p) ==
  /\ IsAt(p, "loaded")
  /\ bucket' = [bucket EXCEPT !.texts[<<mem[p].at.glue, row.edit>>] =
                  [of |-> mem[p].of, edits |-> mem[p].at.edit]]
  /\ mem' = [mem EXCEPT ![p].step = "uploaded", ![p].of = None, ![p].at.edit = row.edit]
  /\ UNCHANGED <<scan, drawn, row, kills>>

\* The edits are read after the revision that names the key.
Upload(p) ==
  /\ IsAt(p, "loaded")
  /\ bucket' = [bucket EXCEPT !.texts[<<mem[p].at.glue, mem[p].at.edit>>] =
                  [of |-> mem[p].of, edits |-> row.edit]]
  /\ mem' = [mem EXCEPT ![p].step = "uploaded", ![p].of = None]
  /\ UNCHANGED <<scan, drawn, row, kills>>

\* The new text names the ledger of its pictures, and answers an ERROR of this
\* work.
Stamped(p) ==
  LET answered == row.message = "ensemble"
      ledger   == IF Pictures THEN drawn ELSE None IN
  [Cleared(row, "ensemble") EXCEPT
     !.ens = mem[p].at.ocr, !.ensEdit = mem[p].at.edit,
     !.figures = ledger,
     !.attempts["ensemble"] = 0,
     !.attempts["figures"] = IF row.figures = ledger THEN @ ELSE 0,
     !.status = IF @ = "error" /\ answered THEN "processing" ELSE @]

EnsembleStamp(p) ==
  /\ IsAt(p, "uploaded")
  /\ IF row.ocr = mem[p].at.ocr /\ row.edit = mem[p].at.edit
     THEN /\ row' = Stamped(p)
          /\ mem' = [mem EXCEPT ![p].step = "stamped", ![p].at.ens = row.ens,
                                ![p].at.ensEdit = row.ensEdit]
     ELSE UNCHANGED row /\ Goes(p, "lost")
  /\ UNCHANGED <<scan, drawn, bucket, kills>>

Deleted(key) == bucket' = [bucket EXCEPT !.texts[key] = NoText]

\* The document the new stamp replaced goes, when it is of the same folder.
DropSuperseded(p) ==
  /\ IsAt(p, "stamped")
  /\ IF mem[p].at.ens = mem[p].at.ocr /\ mem[p].at.ensEdit # mem[p].at.edit
     THEN Deleted(<<mem[p].at.glue, mem[p].at.ensEdit>>)
     ELSE UNCHANGED bucket
  /\ Ends(p)
  /\ UNCHANGED <<scan, drawn, row, kills>>

\* A build that lost the swap deletes what it uploaded, unless the row names it.
\* A request whose edit is saved builds once more.
DropUnstamped(p) ==
  /\ IsAt(p, "lost")
  /\ IF row.ens = mem[p].at.ocr /\ row.ensEdit = mem[p].at.edit
     THEN UNCHANGED bucket
     ELSE Deleted(<<mem[p].at.glue, mem[p].at.edit>>)
  /\ IF mem[p].tries > 1
     THEN mem' = [mem EXCEPT ![p] = [Idle EXCEPT !.step = "saved", !.tries = 1]]
     ELSE Ends(p)
  /\ UNCHANGED <<scan, drawn, row, kills>>

-----------------------------------------------------------------------------
(* The promotion, in both directions, and the prune of older revisions.    *)

PromoteRead ==
  /\ MirrorFree /\ IsAt("tick", "idle")
  /\ scan = "done" /\ row.status = "processing" /\ TextReviewReady
  /\ Holds("tick", "promote", {"glue"})
  /\ UNCHANGED <<scan, drawn, row, bucket, kills>>

\* Mutated form: the revision is not compared.
PromoteBlind ==
  /\ IsAt("tick", "promote")
  /\ IF row.status = "processing"
     THEN row' = [row EXCEPT !.status = "ready"] /\ Goes("tick", "prune")
     ELSE UNCHANGED row /\ Ends("tick")
  /\ UNCHANGED <<scan, drawn, bucket, kills>>

Promote ==
  /\ IsAt("tick", "promote")
  /\ IF row.status = "processing" /\ row.glue = mem["tick"].at.glue
     THEN row' = [row EXCEPT !.status = "ready"] /\ Goes("tick", "prune")
     ELSE UNCHANGED row /\ Ends("tick")
  /\ UNCHANGED <<scan, drawn, bucket, kills>>

\* Mutated form: the live folder goes with the older ones.
PrunedToo(below) ==
  [bucket EXCEPT !.glues = [r \in Revs |-> IF r <= below THEN None ELSE @[r]],
                 !.pdfs = [r \in Revs |-> IF r <= below THEN None ELSE @[r]]]

Pruned(below) ==
  [glues |-> [r \in Revs |-> IF r < below THEN None ELSE bucket.glues[r]],
   pdfs  |-> [r \in Revs |-> IF r < below THEN None ELSE bucket.pdfs[r]],
   texts |-> [k \in Revs \X Edits |-> IF k[1] < below THEN NoText ELSE bucket.texts[k]],
   picture |-> bucket.picture]

Prune ==
  /\ IsAt("tick", "prune")
  /\ bucket' = Pruned(mem["tick"].at.glue)
  /\ Ends("tick")
  /\ UNCHANGED <<scan, drawn, row, kills>>

DemoteRead ==
  /\ MirrorFree /\ IsAt("tick", "idle")
  /\ row.status = "ready" /\ ~TextReviewReady
  /\ Holds("tick", "demote", {"glue"})
  /\ UNCHANGED <<scan, drawn, row, bucket, kills>>

Demote ==
  /\ IsAt("tick", "demote")
  /\ row' = IF row.status = "ready" /\ row.glue = mem["tick"].at.glue
            THEN [row EXCEPT !.status = "processing"] ELSE row
  /\ Ends("tick")
  /\ UNCHANGED <<scan, drawn, bucket, kills>>

-----------------------------------------------------------------------------
(* The redacted PDF and the pictures: each a tick of its own.              *)

PdfRead ==
  /\ MirrorFree /\ IsAt("pdf", "idle") /\ PdfDue
  /\ Holds("pdf", "read", {"glue"})
  /\ UNCHANGED <<scan, drawn, row, bucket, kills>>

\* The redactions are those that stand when the payload is built.
PdfWrite ==
  /\ IsAt("pdf", "read")
  /\ bucket' = [bucket EXCEPT !.pdfs[mem["pdf"].at.glue] = drawn]
  /\ Goes("pdf", "stored")
  /\ UNCHANGED <<scan, drawn, row, kills>>

PdfStamp ==
  /\ IsAt("pdf", "stored")
  /\ row' = IF row.glue = mem["pdf"].at.glue
            THEN [row EXCEPT !.pdf = row.glue, !.attempts["pdf"] = 0] ELSE row
  /\ Ends("pdf")
  /\ UNCHANGED <<scan, drawn, bucket, kills>>

\* A fault of an older revision spends nothing of the new one.
PdfFails ==
  /\ "fault" \in Events
  /\ IsAt("pdf", "read")
  /\ row' = IF row.glue = mem["pdf"].at.glue THEN Spent("pdf") ELSE row
  /\ Ends("pdf")
  /\ UNCHANGED <<scan, drawn, bucket, kills>>

CutRead ==
  /\ MirrorFree /\ IsAt("cut", "idle") /\ FiguresDue
  /\ Holds("cut", "read", {"glue", "ens", "ensEdit", "figures"})
  /\ UNCHANGED <<scan, drawn, row, bucket, kills>>

CutDocument == bucket.texts[<<mem["cut"].at.glue, mem["cut"].at.ensEdit>>]

\* Mutated form: a ledger that moved leaves the row as it was.
CutLookAgain ==
  /\ IsAt("cut", "read") /\ CutDocument # NoText
  /\ IF drawn = mem["cut"].at.figures THEN Goes("cut", "cutting") ELSE Ends("cut")
  /\ UNCHANGED <<scan, drawn, row, bucket, kills>>

\* A ledger that moved with no new text is stamped and cut on the next tick.
CutLook ==
  /\ IsAt("cut", "read") /\ CutDocument # NoText
  /\ IF drawn = mem["cut"].at.figures
     THEN Goes("cut", "cutting") /\ UNCHANGED row
     ELSE /\ row' = IF /\ row.figures = mem["cut"].at.figures
                       /\ row.ens = mem["cut"].at.ens
                       /\ row.ensEdit = mem["cut"].at.ensEdit
                    THEN [row EXCEPT !.figures = drawn, !.attempts["figures"] = 0]
                    ELSE row
          /\ Ends("cut")
  /\ UNCHANGED <<scan, drawn, bucket, kills>>

CutWrite ==
  /\ IsAt("cut", "cutting")
  /\ bucket' = [bucket EXCEPT !.picture = drawn]
  /\ Goes("cut", "stored")
  /\ UNCHANGED <<scan, drawn, row, kills>>

CutStamp ==
  /\ IsAt("cut", "stored")
  /\ row' = IF row.figures = mem["cut"].at.figures
            THEN [row EXCEPT !.cut = row.figures, !.attempts["figures"] = 0] ELSE row
  /\ Ends("cut")
  /\ UNCHANGED <<scan, drawn, bucket, kills>>

CutFails ==
  /\ \/ IsAt("cut", "read") /\ CutDocument = NoText
     \/ IsAt("cut", "cutting") /\ "unpictured" \in Events
  /\ row' = IF row.figures = mem["cut"].at.figures THEN Spent("figures") ELSE row
  /\ Ends("cut")
  /\ UNCHANGED <<scan, drawn, bucket, kills>>

-----------------------------------------------------------------------------
(* The command that glues a row again and carries its PDF.                 *)

ReglueRead ==
  /\ "reglue" \in Events
  /\ IsAt("op", "idle")
  /\ row.status # "done" /\ row.glue < MaxRev
  /\ Holds("op", "read", {"glue", "pdf"})
  /\ UNCHANGED <<scan, drawn, row, bucket, kills>>

ReglueCopy ==
  LET r == mem["op"].at.glue IN
  /\ IsAt("op", "read")
  /\ \/ /\ mem["op"].at.pdf = r /\ bucket.pdfs[r] # None
        /\ bucket' = [bucket EXCEPT !.pdfs[r + 1] = bucket.pdfs[r]]
        /\ Goes("op", "carried")
     \/ Goes("op", "bare") /\ UNCHANGED bucket
  /\ UNCHANGED <<scan, drawn, row, kills>>

Raised == [row EXCEPT !.glue = @ + 1, !.attempts["glue"] = 0]

ReglueSwap ==
  /\ mem["op"].step \in {"carried", "bare"}
  /\ row' = IF row.glue # mem["op"].at.glue \/ row.status = "done" THEN row
            ELSE IF IsAt("op", "bare") THEN Raised
            ELSE [Raised EXCEPT !.pdf = row.glue + 1, !.attempts["pdf"] = 0]
  /\ Ends("op")
  /\ UNCHANGED <<scan, drawn, bucket, kills>>

-----------------------------------------------------------------------------
(* The redaction review, opened again, and the creation of the rows.       *)

Reopen ==
  /\ "reopen" \in Events
  /\ scan = "done"
  /\ scan' = "review"
  /\ UNCHANGED <<drawn, row, bucket, mem, kills>>

Draw ==
  /\ scan = "review"
  /\ drawn' \in Inputs \ {drawn}
  /\ UNCHANGED <<scan, row, bucket, mem, kills>>

ApproveReview ==
  /\ scan = "review"
  /\ scan' = "creating"
  /\ UNCHANGED <<drawn, row, bucket, mem, kills>>

Unchanged == row.digest = drawn /\ row.status # "error"

\* Mutated form: an approved row is raised like another.
CreateRowsApproved ==
  /\ scan = "creating"
  /\ Unchanged \/ row.glue < MaxRev
  /\ scan' = "created"
  /\ row' = IF Unchanged THEN row
            ELSE [row EXCEPT !.digest = drawn, !.glue = @ + 1,
                    !.status = IF @ = "error" THEN "processing" ELSE @,
                    !.attempts = [w \in Works |-> IF w = "figures" THEN @[w] ELSE 0]]
  /\ UNCHANGED <<drawn, bucket, mem, kills>>

\* An approved row keeps its revision, its digest and its objects.
CreateRows ==
  /\ scan = "creating"
  /\ Unchanged \/ row.status = "done" \/ row.glue < MaxRev
  /\ scan' = "created"
  /\ row' = IF Unchanged \/ row.status = "done" THEN row
            ELSE [row EXCEPT !.digest = drawn, !.glue = @ + 1,
                    !.status = IF @ = "error" THEN "processing" ELSE @,
                    !.attempts = [w \in Works |-> IF w = "figures" THEN @[w] ELSE 0]]
  /\ UNCHANGED <<drawn, bucket, mem, kills>>

Park ==
  /\ scan = "created"
  /\ scan' = "done"
  /\ UNCHANGED <<drawn, row, bucket, mem, kills>>

-----------------------------------------------------------------------------
(* The approval of the text.                                               *)

\* check_gate, over the row the request read.  It does not ask for the PDF.
ApproveGate ==
  /\ "approve" \in Events
  /\ IsAt("approval", "idle")
  /\ row.status = "ready" /\ scan = "done"
  /\ EnsembleWritten /\ FiguresWritten /\ row.edit = row.ensEdit
  /\ Holds("approval", "gated", {"glue", "edit", "ens", "ensEdit"})
  /\ UNCHANGED <<scan, drawn, row, bucket, kills>>

\* The stamped document and the cuts are read, and the approved text is put at
\* a key of its own.
ApproveRender ==
  LET text == bucket.texts[<<mem["approval"].at.glue, mem["approval"].at.ensEdit>>] IN
  /\ IsAt("approval", "gated")
  /\ IF text = NoText \/ (Pictures /\ bucket.picture = None) THEN Ends("approval")
     ELSE mem' = [mem EXCEPT !["approval"].step = "rendered",
                            !["approval"].of = text.of, !["approval"].edits = text.edits,
                            !["approval"].picture = bucket.picture]
  /\ UNCHANGED <<scan, drawn, row, bucket, kills>>

\* Mutated form: the swap compares the status alone.
ApproveOverStatus ==
  /\ IsAt("approval", "rendered")
  /\ row' = IF row.status = "ready"
            THEN [row EXCEPT !.status = "done",
                    !.approved = [of |-> mem["approval"].of, edits |-> mem["approval"].edits,
                                  picture |-> mem["approval"].picture]]
            ELSE row
  /\ Ends("approval")
  /\ UNCHANGED <<scan, drawn, bucket, kills>>

Approve ==
  LET at == mem["approval"].at IN
  /\ IsAt("approval", "rendered")
  /\ row' = IF /\ row.status = "ready" /\ scan = "done"
               /\ row.glue = at.glue /\ row.edit = at.edit
               /\ row.ens = at.ens /\ row.ensEdit = at.ensEdit
            THEN [row EXCEPT !.status = "done",
                    !.approved = [of |-> mem["approval"].of, edits |-> mem["approval"].edits,
                                  picture |-> mem["approval"].picture]]
            ELSE row
  /\ Ends("approval")
  /\ UNCHANGED <<scan, drawn, bucket, kills>>

ReopenText ==
  /\ "approve" \in Events
  /\ row.status = "done"
  /\ row' = [row EXCEPT !.status = "ready"]
  /\ UNCHANGED <<scan, drawn, bucket, mem, kills>>

\* The approved text again, from the document stamped now.
Rewrite ==
  LET text == bucket.texts[<<row.glue, row.ensEdit>>] IN
  /\ "rewrite" \in Events
  /\ row.status = "done" /\ text # NoText
  /\ row' = [row EXCEPT !.approved = [of |-> text.of, edits |-> text.edits,
                                      picture |-> bucket.picture]]
  /\ UNCHANGED <<scan, drawn, bucket, mem, kills>>

-----------------------------------------------------------------------------
\* A process dies: what it wrote stays, what it held is gone.
Die(p) ==
  /\ kills < MaxKills
  /\ mem[p].step # "idle"
  /\ kills' = kills + 1
  /\ Ends(p)
  /\ UNCHANGED <<scan, drawn, row, bucket>>

Builds(p) ==
  \/ Load(p) \/ EnsembleFails(p) \/ Upload(p) \/ EnsembleStamp(p)
  \/ DropSuperseded(p) \/ DropUnstamped(p)

GlueNext     == GlueLoad \/ GlueRead \/ GlueWrite \/ GlueStamp \/ GlueFails
PromoteNext  == PromoteRead \/ Promote \/ Prune \/ DemoteRead \/ Demote
TickNext     == GlueNext \/ EnsembleRead \/ Builds("tick") \/ PromoteNext
PdfNext      == PdfRead \/ PdfWrite \/ PdfStamp \/ PdfFails
CutNext      == CutRead \/ CutLook \/ CutWrite \/ CutStamp \/ CutFails
EditNext     == Rerun \/ EditGate \/ Edit \/ Fresh
ReglueNext   == ReglueRead \/ ReglueCopy \/ ReglueSwap
ReviewNext   == Reopen \/ Draw \/ ApproveReview \/ CreateRows \/ Park
ApprovalNext == ApproveGate \/ ApproveRender \/ Approve \/ ReopenText \/ Rewrite

RowNext ==
  \/ TickNext \/ PdfNext \/ CutNext
  \/ EditNext \/ Builds("web") \/ ReglueNext \/ ReviewNext \/ ApprovalNext
  \/ \E p \in Processes : Die(p)

\* A read ends, dies or is asked for again, or another volume is built.
EnginesMove ==
  /\ "engines" \in Events
  /\ volume' \in Volumes \ {volume}
  /\ UNCHANGED rowVars

Next == (RowNext /\ UNCHANGED volume) \/ EnginesMove

Spec == Init /\ [][Next]_vars

\* The three ticks run again and again and go on with what they began, the works
\* of one tick in turn; nobody has to edit, approve or reopen anything.
Fairness == /\ WF_vars(TickNext /\ UNCHANGED volume)
            /\ WF_vars(PdfNext /\ UNCHANGED volume)
            /\ WF_vars(CutNext /\ UNCHANGED volume)

FairSpec == Spec /\ Fairness

-----------------------------------------------------------------------------
(* Properties.                                                             *)

LiveText == bucket.texts[<<row.glue, row.ensEdit>>]

\* A text the row calls current holds exactly the standing edits and the live
\* glue, whichever of the tick and the request built it and however the edits
\* and the glues crossed the builds (ensemble.write, EDIT_NOT_BUILT).
TextIsCurrent ==
  EnsembleWritten /\ row.edit = row.ensEdit /\ LiveText # NoText =>
    LiveText = [of |-> bucket.glues[row.glue], edits |-> row.edit]

\* The glue documents and the PDF the stamps name exist: no prune, carry or late
\* write of an older revision takes them (opinions.prune_glues, _reglue_row).
StampedObjectsExist ==
  /\ OcrWritten => bucket.glues[row.glue] # None
  /\ PdfWritten => bucket.pdfs[row.glue] # None

\* A row enters the text review only over objects of its revision at that very
\* step, though the passes, the command and the creation move the revision at
\* any time (opinions.promote_ready).
PromotedOverLiveStamps ==
  [][row.status = "processing" /\ row'.status = "ready" =>
       row'.pdf = row'.glue /\ row'.ocr = row'.glue /\ row'.ens = row'.glue]_row

\* What a curator approves is the text of the live revision with every standing
\* edit, and nothing else, whatever was built, glued or edited since the page
\* was read (opinion_review.approve_text).
ApprovedIsWhole ==
  [][row.status # "done" /\ row'.status = "done" =>
       /\ row'.approved.edits = row.edit
       /\ row'.approved.of = bucket.glues[row.glue]
       /\ row.ens = row.glue]_row

\* An approved row keeps its revision and the glue documents of that revision until
\* staff open it again (create_rows, reglue, prune_glues).
ApprovedIsKept ==
  [][row.status = "done" /\ row'.status = "done" =>
       /\ row'.glue = row.glue /\ row'.digest = row.digest
       /\ bucket'.glues[row.glue] = bucket.glues[row.glue]]_vars

\* A row that waits where the code lets it wait: for a volume the glue can load, or
\* for a person, over the documents of too few engines.
Waits == \/ ~OcrWritten /\ volume = "held"
         \/ OcrWritten /\ ~EnsembleWritten /\ ~row.enough

\* With the redaction review closed and the volume's documents at rest, no row is in
\* preparation for ever but one that waits for good at a gate of the code (ScanHeld,
\* min_engines): the others are reviewable, approved or in ERROR, where an operator
\* sees them.
EveryOpinionSettles ==
  \A v \in Volumes :
    <>[](scan = "done" /\ row.status = "processing" /\ volume = v) => <>[]Waits

\* A PDF the row names is not written over: who writes a revision stamps it, and
\* what the command copied for a swap it lost is harmless (reglue_opinions).
StampedPdfStands ==
  [][PdfWritten /\ row'.glue = row.glue =>
       bucket'.pdfs[row.glue] = bucket.pdfs[row.glue]]_vars

-----------------------------------------------------------------------------
(* Not so of the code: README.md says with which constants TLC shows it.   *)

\* A volume with enough engine documents opens the pass by itself, though its rows
\* were glued before the last of them came.
ThirdEngineOpens ==
  ~<>[](scan = "done" /\ row.status = "processing" /\ volume = "enough")

\* The text the row calls current is in the bucket.
LiveTextExists == EnsembleWritten => LiveText # NoText

\* The redacted PDF a stamp names was cut under the redactions the row was
\* created from.
PdfOfItsInputs ==
  scan = "done" /\ PdfWritten => bucket.pdfs[row.glue] = row.digest

\* The approved text is the one a curator approved until the text is opened
\* again.
ApprovedTextIsKept ==
  [][row.status = "done" /\ row'.status = "done" =>
       row'.approved.edits = row.approved.edits]_row
=============================================================================
