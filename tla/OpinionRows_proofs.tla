-------------------------- MODULE OpinionRows_proofs --------------------------
(***************************************************************************)
(* Theorems about OpinionRows, for any number of revisions, edits,         *)
(* attempts, kills and readings of the redactions.                         *)
(***************************************************************************)
EXTENDS OpinionRows, TLAPS

\* What two of the theorems leave out: edits of the text and a redaction review
\* that is opened again in one behaviour.
NotBoth == "edit" \notin Events \/ "reopen" \notin Events

-----------------------------------------------------------------------------
(* What the row says of its objects, and what each process knows of a row  *)
(* that still has the revision it read.                                    *)

LiveGlue == bucket.glues[row.glue]
LivePdf  == bucket.pdfs[row.glue]

StampsFit ==
  /\ row.ocr <= row.glue /\ row.pdf <= row.glue
  /\ row.status = "done" => OcrWritten
  /\ OcrWritten => LiveGlue # None
  /\ PdfWritten => LivePdf # None

\* The row has the revision a process read.
Stands(p) == row.glue = mem[p].at.glue

TickFits ==
  /\ mem["tick"].step \in {"inputs", "glueing"} => mem["tick"].of # None
  /\ IsAt("tick", "glueing") => Tries("glue")
  /\ mem["tick"].step \in {"build", "loaded"} => Tries("ensemble")
  /\ mem["tick"].step \in {"glueing", "glued"} /\ Stands("tick") => ~OcrWritten
  /\ IsAt("tick", "glued") /\ Stands("tick") => LiveGlue # None
  /\ IsAt("tick", "promote") /\ Stands("tick") => PdfWritten /\ EnsembleWritten

PdfFits ==
  /\ IsAt("pdf", "read") => Tries("pdf")
  /\ IsAt("pdf", "stored") /\ Stands("pdf") => LivePdf # None

CutFits == mem["cut"].step \in {"read", "cutting"} => Tries("figures")

OpFits ==
  /\ mem["op"].step \in {"read", "carried", "bare"} => mem["op"].at.glue < MaxRev
  /\ IsAt("op", "carried") /\ Stands("op") => bucket.pdfs[row.glue + 1] # None

WebFits == IsAt("web", "edit") => row.edit < MaxEdit

\* What a curator's page showed was whole.
ApprovalFits ==
  mem["approval"].step \in {"gated", "rendered"} =>
    /\ mem["approval"].at.edit = mem["approval"].at.ensEdit
    /\ mem["approval"].at.ens = mem["approval"].at.glue
    /\ mem["approval"].at.edit <= row.edit
    /\ Stands("approval") => OcrWritten

StampedFit ==
  /\ StampsFit
  /\ \A p \in Processes : mem[p].at.glue <= row.glue
  /\ TickFits /\ PdfFits /\ CutFits /\ OpFits /\ WebFits /\ ApprovalFits

-----------------------------------------------------------------------------
(* What the texts hold.                                                    *)

\* A text has the edits its key names, or later ones that stand.
EditsFit ==
  /\ \A k \in Revs \X Edits : bucket.texts[k] # NoText =>
       k[2] <= bucket.texts[k].edits /\ bucket.texts[k].edits <= row.edit
  /\ \A p \in Builders : IsAt(p, "loaded") => mem[p].at.edit <= row.edit

\* With the redactions closed, there is one reading of them.
ReadingsFit ==
  /\ scan = "done" /\ drawn = Original
  /\ \A r \in Revs : bucket.glues[r] \in {None, Original}
  /\ \A k \in Revs \X Edits : bucket.texts[k] # NoText => bucket.texts[k].of = Original
  /\ mem["tick"].step \in {"inputs", "glueing"} => mem["tick"].of = Original
  /\ \A p \in Builders : IsAt(p, "loaded") => mem[p].of = Original

\* With no edits, the tick alone builds, and only over a glue that is stamped.
BuildsFit ==
  /\ IsAt("web", "idle")
  /\ mem["tick"].step \in {"build", "loaded"} => mem["tick"].at.glue <= row.ocr
  /\ IsAt("tick", "loaded") /\ Stands("tick") => mem["tick"].of = LiveGlue
  /\ \A k \in Revs \X Edits : bucket.texts[k] # NoText =>
       k[1] <= row.ocr /\ (k[1] = row.glue => bucket.texts[k].of = LiveGlue)

OfFits ==
  /\ "reopen" \notin Events => ReadingsFit
  /\ "edit" \notin Events => BuildsFit

\* What an approval is about to write.
RenderFits ==
  IsAt("approval", "rendered") /\ Stands("approval") /\ row.edit = mem["approval"].at.edit =>
    /\ mem["approval"].edits = row.edit
    /\ mem["approval"].of = LiveGlue

TextsFit == EditsFit /\ OfFits /\ RenderFits

-----------------------------------------------------------------------------

(* Types.                                                                  *)

USE DEF None, Processes, Builders

RowType == [status : Statuses, message : Works \cup {None}, digest : Inputs,
            glue : Revs, pdf : Revs \cup {NoRev}, ocr : Revs \cup {NoRev},
            ens : Revs \cup {NoRev}, ensEdit : Edits, edit : Edits,
            enough : BOOLEAN, figures : Inputs \cup {None}, cut : Inputs \cup {None},
            attempts : [Works -> 0..MaxAttempts], approved : Approved]

BucketType == [glues : [Revs -> Inputs \cup {None}],
               pdfs : [Revs -> Inputs \cup {None}],
               texts : [Revs \X Edits -> Text],
               picture : Inputs \cup {None}]

LEMMA Bounds ==
  ASSUME OpinionAssumption
  PROVE  0 \in Revs /\ 0 \in Edits /\ 0 \in 0..MaxAttempts /\ None \notin Inputs
BY DEF OpinionAssumption, Revs, Edits

LEMMA IdleSlot == ASSUME OpinionAssumption PROVE Idle \in Slot
BY Bounds DEF Idle, Slot, Steps, NoStamps, Stamps

LEMMA KeptStamps == ASSUME OpinionAssumption, RowTypeOK, NEW fields PROVE Kept(fields) \in Stamps
<1>1. NoStamps \in Stamps
  BY Bounds DEF NoStamps, Stamps
<1>2. StampsRead \in Stamps
  BY DEF RowTypeOK, StampsRead, Stamps
<1>3. DOMAIN NoStamps = {"glue", "pdf", "ocr", "ens", "ensEdit", "edit", "figures"}
  BY DEF NoStamps
<1> QED BY <1>1, <1>2, <1>3 DEF Kept, Stamps

\* A process that reads the row, goes on, or ends.
LEMMA HeldSlot ==
  ASSUME OpinionAssumption, RowTypeOK, NEW p \in Processes, NEW s \in Steps, NEW fields,
         Holds(p, s, fields)
  PROVE  /\ mem' \in [Processes -> Slot]
         /\ mem'[p] = [Idle EXCEPT !.step = s, !.at = Kept(fields)]
         /\ \A q \in Processes : q # p => mem'[q] = mem[q]
<1> DEFINE slot == [Idle EXCEPT !.step = s, !.at = Kept(fields)]
<1>1. slot \in Slot
  BY IdleSlot, KeptStamps DEF Slot
<1>2. mem' = [mem EXCEPT ![p] = slot]
  BY DEF Holds
<1> HIDE DEF slot
<1>3. mem'[p] = slot /\ mem' \in [Processes -> Slot] /\ \A q \in Processes : q # p => mem'[q] = mem[q]
  BY <1>1, <1>2 DEF RowTypeOK
<1> QED BY <1>3 DEF slot

LEMMA MovedSlot ==
  ASSUME RowTypeOK, NEW p \in Processes, NEW s \in Steps, Goes(p, s)
  PROVE  /\ mem' \in [Processes -> Slot]
         /\ mem'[p] = [mem[p] EXCEPT !.step = s]
         /\ \A q \in Processes : q # p => mem'[q] = mem[q]
BY DEF Goes, RowTypeOK, Slot

LEMMA EndedSlot ==
  ASSUME OpinionAssumption, RowTypeOK, NEW p \in Processes, Ends(p)
  PROVE  /\ mem' \in [Processes -> Slot] /\ mem'[p] = Idle
         /\ \A q \in Processes : q # p => mem'[q] = mem[q]
BY IdleSlot DEF Ends, RowTypeOK

\* The row after a failure.
LEMMA SpentRow ==
  ASSUME OpinionAssumption, row \in RowType, NEW w \in Works, Tries(w)
  PROVE  /\ Spent(w) \in RowType
         /\ \A f \in {"digest", "glue", "pdf", "ocr", "ens", "ensEdit", "edit", "figures",
                      "cut", "approved"} : Spent(w)[f] = row[f]
         /\ Spent(w).status \in {row.status, "error"}
         /\ row.status = "done" => Spent(w).status = "done"
         /\ \A v \in Works : v # w => Spent(w).attempts[v] = row.attempts[v]
<1> DEFINE spent == row.attempts[w] + 1
           ends  == spent >= MaxAttempts /\ row.status # "done"
           silent == \/ w = "ensemble" /\ row.status = "error"
                     \/ w = "figures" /\ (row.status = "error" \/ ~ends)
           message == IF silent THEN row.message ELSE w
           status  == IF ends THEN "error" ELSE row.status
<1>1. spent \in 0..MaxAttempts
  BY DEF RowType, Tries, OpinionAssumption
<1>2. message \in Works \cup {None} /\ status \in Statuses
  BY DEF RowType, Statuses
<1>3. status \in {row.status, "error"} /\ (row.status = "done" => status = "done")
  OBVIOUS
<1>4. Spent(w) = [row EXCEPT !.attempts[w] = spent, !.message = message, !.status = status]
  BY DEF Spent
<1> HIDE DEF spent, message, status
<1>5. [row EXCEPT !.attempts[w] = spent, !.message = message, !.status = status] \in RowType
  BY <1>1, <1>2 DEF RowType
<1>6. /\ Spent(w).status = status
      /\ \A v \in Works : v # w => Spent(w).attempts[v] = row.attempts[v]
      /\ \A f \in {"digest", "glue", "pdf", "ocr", "ens", "ensEdit", "edit", "figures",
                   "cut", "approved"} : Spent(w)[f] = row[f]
  BY <1>4 DEF RowType
<1> QED BY <1>3, <1>4, <1>5, <1>6

LEMMA ClearedRow ==
  ASSUME row \in RowType, NEW w
  PROVE  /\ Cleared(row, w) \in RowType
         /\ \A f \in {"status", "digest", "glue", "pdf", "ocr", "ens", "ensEdit", "edit",
                      "figures", "cut", "attempts", "approved"} : Cleared(row, w)[f] = row[f]
BY DEF Cleared, RowType
-----------------------------------------------------------------------------
(* What a step leaves of the slot of its process.                          *)

LEMMA SlotWith ==
  ASSUME NEW s \in Slot, NEW x \in Steps
  PROVE  /\ [s EXCEPT !.step = x] \in Slot
         /\ \A o \in Inputs \cup {None} : [s EXCEPT !.step = x, !.of = o] \in Slot
         /\ \A a \in Stamps : [s EXCEPT !.step = x, !.at = a] \in Slot
         /\ \A n \in 0..2 : [s EXCEPT !.step = x, !.tries = n] \in Slot
         /\ \A o \in Inputs \cup {None}, a \in Stamps :
              [s EXCEPT !.step = x, !.of = o, !.at = a] \in Slot
         /\ \A o \in Inputs \cup {None}, e \in Edits \cup {NoRev}, u \in Inputs \cup {None} :
              [s EXCEPT !.step = x, !.of = o, !.edits = e, !.picture = u] \in Slot
BY DEF Slot

LEMMA SlotHas ==
  ASSUME NEW s \in Slot, NEW x, NEW a, NEW o, NEW e, NEW u, NEW n
  PROVE  /\ LET t == [s EXCEPT !.step = x] IN t.step = x /\ t.at = s.at /\ t.of = s.of
         /\ LET t == [s EXCEPT !.step = x, !.of = o] IN t.step = x /\ t.at = s.at /\ t.of = o
         /\ LET t == [s EXCEPT !.step = x, !.at = a] IN t.step = x /\ t.at = a /\ t.of = s.of
         /\ LET t == [s EXCEPT !.step = x, !.tries = n] IN t.step = x /\ t.at = s.at /\ t.of = s.of /\ t.tries = n
         /\ LET t == [s EXCEPT !.step = x, !.of = o, !.at = a] IN t.step = x /\ t.at = a /\ t.of = o
         /\ LET t == [s EXCEPT !.step = x, !.of = o, !.edits = e, !.picture = u] IN
            t.step = x /\ t.at = s.at /\ t.of = o /\ t.edits = e
BY DEF Slot

LEMMA StampsWith ==
  ASSUME NEW a \in Stamps, NEW e \in Edits, NEW r \in Revs \cup {NoRev}
  PROVE  /\ [a EXCEPT !.edit = e] \in Stamps
         /\ [a EXCEPT !.ens = r, !.ensEdit = e] \in Stamps
         /\ LET b == [a EXCEPT !.edit = e] IN b.glue = a.glue /\ b.ocr = a.ocr /\ b.edit = e
         /\ LET b == [a EXCEPT !.ens = r, !.ensEdit = e] IN b.glue = a.glue
BY DEF Stamps

LEMMA MemSlots ==
  ASSUME RowTypeOK, NEW p \in Processes
  PROVE  mem[p] \in Slot /\ mem[p].at \in Stamps
BY DEF RowTypeOK, Slot

\* Only the slot of its process moves.
LEMMA SlotSet ==
  ASSUME RowTypeOK, NEW p \in Processes, NEW slot \in Slot, mem' = [mem EXCEPT ![p] = slot]
  PROVE  /\ mem' \in [Processes -> Slot] /\ mem'[p] = slot
         /\ \A q \in Processes : q # p => mem'[q] = mem[q]
BY DEF RowTypeOK

LEMMA KeptFields ==
  ASSUME RowTypeOK
  PROVE  /\ \A fields : "glue" \in fields => Kept(fields).glue = row.glue
         /\ \A fields : "ocr" \in fields => Kept(fields).ocr = row.ocr
         /\ \A fields : "pdf" \in fields => Kept(fields).pdf = row.pdf
         /\ \A fields : "ens" \in fields => Kept(fields).ens = row.ens
         /\ \A fields : "ensEdit" \in fields => Kept(fields).ensEdit = row.ensEdit
         /\ \A fields : "edit" \in fields => Kept(fields).edit = row.edit
         /\ \A fields : "figures" \in fields => Kept(fields).figures = row.figures
         /\ Kept({}).glue = 0
BY DEF Kept, NoStamps, StampsRead

LEMMA GlueLoadSlot ==
  ASSUME OpinionAssumption, RowTypeOK, GlueLoad
  PROVE  /\ mem' \in [Processes -> Slot]
         /\ mem'["tick"].step = "inputs" /\ mem'["tick"].at.glue = 0 /\ mem'["tick"].of = drawn
         /\ \A q \in Processes : q # "tick" => mem'[q] = mem[q]
<1> DEFINE enough == volume = "enough"
           slot == [Idle EXCEPT !.step = "inputs", !.of = drawn, !.enough = enough]
<1>1. "inputs" \in Steps /\ drawn \in Inputs \cup {None} /\ enough \in BOOLEAN
  BY DEF Steps, RowTypeOK
<1> HIDE DEF enough
<1>2. slot \in Slot
  BY <1>1, IdleSlot DEF Slot
<1>3. slot.step = "inputs" /\ slot.at = Idle.at /\ slot.of = drawn
  BY IdleSlot DEF Slot
<1>4. Idle.at.glue = 0
  BY DEF Idle, NoStamps
<1>5. mem' = [mem EXCEPT !["tick"] = slot]
  BY DEF GlueLoad, enough
<1> HIDE DEF slot
<1> QED BY <1>2, <1>3, <1>4, <1>5, SlotSet

LEMMA GlueReadSlot ==
  ASSUME OpinionAssumption, RowTypeOK, GlueRead
  PROVE  /\ mem' \in [Processes -> Slot]
         /\ \/ mem'["tick"] = Idle
            \/ /\ GlueDue /\ mem'["tick"].step = "glueing"
               /\ mem'["tick"].at.glue = row.glue /\ mem'["tick"].of = mem["tick"].of
         /\ \A q \in Processes : q # "tick" => mem'[q] = mem[q]
<1>1. CASE GlueDue
  <2> DEFINE at == Kept({"glue"})
             slot == [mem["tick"] EXCEPT !.step = "glueing", !.at = at]
  <2>1. at \in Stamps /\ at.glue = row.glue
    BY KeptStamps, KeptFields
  <2>2. mem' = [mem EXCEPT !["tick"] = slot]
    BY <1>1 DEF GlueRead, RowTypeOK
  <2> HIDE DEF at
  <2>3. "glueing" \in Steps /\ mem["tick"] \in Slot
    BY MemSlots DEF Steps
  <2>4. slot \in Slot
    BY <2>1, <2>3, SlotWith
  <2>5. slot.step = "glueing" /\ slot.at = at /\ slot.of = mem["tick"].of
    BY <2>3, SlotHas
  <2> HIDE DEF slot
  <2> QED BY <1>1, <2>1, <2>2, <2>4, <2>5, SlotSet
<1>2. CASE Ends("tick")
  BY <1>2, EndedSlot
<1> QED BY <1>1, <1>2 DEF GlueRead

LEMMA EditSlot ==
  ASSUME OpinionAssumption, RowTypeOK, Edit
  PROVE  /\ mem' \in [Processes -> Slot]
         /\ mem'["web"].step = "saved" /\ mem'["web"].at = mem["web"].at
         /\ \A q \in Processes : q # "web" => mem'[q] = mem[q]
<1> DEFINE slot == [mem["web"] EXCEPT !.step = "saved", !.tries = 2]
<1>1. "saved" \in Steps /\ mem["web"] \in Slot /\ 2 \in 0..2
  BY MemSlots DEF Steps
<1>2. slot \in Slot
  BY <1>1, SlotWith
<1>3. slot.step = "saved" /\ slot.at = mem["web"].at
  BY <1>1, SlotHas
<1>4. mem' = [mem EXCEPT !["web"] = slot]
  BY DEF Edit, RowTypeOK
<1> HIDE DEF slot
<1> QED BY <1>2, <1>3, <1>4, SlotSet

LEMMA FreshSlot ==
  ASSUME OpinionAssumption, RowTypeOK, Fresh
  PROVE  /\ mem' \in [Processes -> Slot]
         /\ mem'["web"].step = "build" /\ mem'["web"].at.glue = row.glue
         /\ mem'["web"].at.ocr = row.ocr
         /\ \A q \in Processes : q # "web" => mem'[q] = mem[q]
<1> DEFINE at == Kept({"glue", "ocr"})
           slot == [mem["web"] EXCEPT !.step = "build", !.at = at]
<1>1. at \in Stamps /\ at.glue = row.glue /\ at.ocr = row.ocr
  BY KeptStamps, KeptFields
<1>2. mem' = [mem EXCEPT !["web"] = slot]
  BY DEF Fresh, RowTypeOK
<1> HIDE DEF at
<1>3. "build" \in Steps /\ mem["web"] \in Slot
  BY MemSlots DEF Steps
<1>4. slot \in Slot
  BY <1>1, <1>3, SlotWith
<1>5. slot.step = "build" /\ slot.at = at
  BY <1>3, SlotHas
<1> HIDE DEF slot
<1> QED BY <1>1, <1>2, <1>4, <1>5, SlotSet

LEMMA LoadSlot ==
  ASSUME OpinionAssumption, RowTypeOK, NEW p \in Builders, Load(p)
  PROVE  /\ mem' \in [Processes -> Slot]
         /\ mem'[p].step = "loaded" /\ mem'[p].of = bucket.glues[mem[p].at.glue]
         /\ mem'[p].at.glue = mem[p].at.glue /\ mem'[p].at.ocr = mem[p].at.ocr
         /\ mem'[p].at.edit = row.edit
         /\ \A q \in Processes : q # p => mem'[q] = mem[q]
<1> DEFINE at == [mem[p].at EXCEPT !.edit = row.edit]
           of == bucket.glues[mem[p].at.glue]
           slot == [mem[p] EXCEPT !.step = "loaded", !.of = of, !.at = at]
<1>1. mem[p] \in Slot /\ mem[p].at \in Stamps /\ "loaded" \in Steps
  BY MemSlots DEF Steps
<1>2. mem[p].at.glue \in Revs /\ row.edit \in Edits
  BY <1>1 DEF RowTypeOK, Stamps
<1>3. of \in Inputs \cup {None}
  BY <1>2 DEF RowTypeOK
<1>4. at \in Stamps /\ at.glue = mem[p].at.glue /\ at.ocr = mem[p].at.ocr /\ at.edit = row.edit
  BY <1>1, <1>2, StampsWith
<1>5. mem' = [mem EXCEPT ![p] = slot]
  <2>1. mem' = [mem EXCEPT ![p].step = "loaded", ![p].of = of, ![p].at.edit = row.edit]
    BY DEF Load
  <2> HIDE DEF of
  <2> QED BY <2>1, <1>1 DEF Slot, RowTypeOK
<1> HIDE DEF at, of
<1>6. slot \in Slot
  BY <1>1, <1>3, <1>4, SlotWith
<1>7. slot.step = "loaded" /\ slot.of = of /\ slot.at = at
  BY <1>1, SlotHas
<1> HIDE DEF slot
<1>8. mem'[p] = slot /\ mem' \in [Processes -> Slot] /\ \A q \in Processes : q # p => mem'[q] = mem[q]
  BY <1>5, <1>6, SlotSet
<1>9. of = bucket.glues[mem[p].at.glue]
  BY DEF of
<1> QED BY <1>4, <1>7, <1>8, <1>9

LEMMA UploadSlot ==
  ASSUME OpinionAssumption, RowTypeOK, NEW p \in Builders, Upload(p)
  PROVE  /\ mem' \in [Processes -> Slot]
         /\ mem'[p].step = "uploaded" /\ mem'[p].at = mem[p].at
         /\ \A q \in Processes : q # p => mem'[q] = mem[q]
<1> DEFINE slot == [mem[p] EXCEPT !.step = "uploaded", !.of = None]
<1>1. "uploaded" \in Steps /\ mem[p] \in Slot /\ None \in Inputs \cup {None}
  BY MemSlots DEF Steps
<1>2. slot \in Slot
  BY <1>1, SlotWith
<1>3. slot.step = "uploaded" /\ slot.at = mem[p].at
  BY <1>1, SlotHas
<1>4. mem' = [mem EXCEPT ![p] = slot]
  BY DEF Upload, RowTypeOK
<1> HIDE DEF slot
<1> QED BY <1>2, <1>3, <1>4, SlotSet

LEMMA StampSlot ==
  ASSUME OpinionAssumption, RowTypeOK, NEW p \in Builders, EnsembleStamp(p)
  PROVE  /\ mem' \in [Processes -> Slot]
         /\ mem'[p].step \in {"stamped", "lost"} /\ mem'[p].at.glue = mem[p].at.glue
         /\ \A q \in Processes : q # p => mem'[q] = mem[q]
<1>0. mem[p] \in Slot /\ mem[p].at \in Stamps /\ "stamped" \in Steps /\ "lost" \in Steps
  BY MemSlots DEF Steps
<1>1. CASE Goes(p, "lost")
  <2>1. /\ mem' \in [Processes -> Slot] /\ mem'[p] = [mem[p] EXCEPT !.step = "lost"]
        /\ \A q \in Processes : q # p => mem'[q] = mem[q]
    BY <1>0, <1>1, MovedSlot
  <2>2. LET t == [mem[p] EXCEPT !.step = "lost"] IN t.step = "lost" /\ t.at = mem[p].at
    BY <1>0, SlotHas
  <2> QED BY <2>1, <2>2
<1>2. CASE mem' = [mem EXCEPT ![p].step = "stamped", ![p].at.ens = row.ens,
                              ![p].at.ensEdit = row.ensEdit]
  <2> DEFINE at == [mem[p].at EXCEPT !.ens = row.ens, !.ensEdit = row.ensEdit]
             slot == [mem[p] EXCEPT !.step = "stamped", !.at = at]
  <2>0. row.ens \in Revs \cup {NoRev} /\ row.ensEdit \in Edits
    BY DEF RowTypeOK
  <2>1. at \in Stamps /\ at.glue = mem[p].at.glue
    BY <1>0, <2>0, StampsWith
  <2>2. mem' = [mem EXCEPT ![p] = slot]
    BY <1>2, <1>0 DEF RowTypeOK, Slot
  <2> HIDE DEF at
  <2>3. slot \in Slot
    BY <2>1, <1>0, SlotWith
  <2>4. slot.step = "stamped" /\ slot.at = at
    BY <1>0, SlotHas
  <2> HIDE DEF slot
  <2> QED BY <2>1, <2>2, <2>3, <2>4, SlotSet
<1> QED BY <1>1, <1>2 DEF EnsembleStamp

LEMMA DropSlot ==
  ASSUME OpinionAssumption, RowTypeOK, NEW p \in Builders, DropUnstamped(p)
  PROVE  /\ mem' \in [Processes -> Slot]
         /\ mem'[p].step \in {"saved", "idle"} /\ mem'[p].at.glue = 0
         /\ mem'[p].step = "saved" => mem[p].tries > 1
         /\ \A q \in Processes : q # p => mem'[q] = mem[q]
<1> DEFINE slot == [Idle EXCEPT !.step = "saved", !.tries = 1]
<1>0. "saved" \in Steps /\ Idle \in Slot /\ 1 \in 0..2
  BY IdleSlot DEF Steps
<1>1. slot \in Slot
  BY <1>0, SlotWith
<1>2. slot.step = "saved" /\ slot.at = Idle.at
  BY <1>0, SlotHas
<1>3. Idle.step = "idle" /\ Idle.at.glue = 0
  BY DEF Idle, NoStamps
<1>4. \/ mem[p].tries > 1 /\ mem' = [mem EXCEPT ![p] = slot]
      \/ Ends(p)
  BY DEF DropUnstamped
<1> HIDE DEF slot
<1>5. CASE mem[p].tries > 1 /\ mem' = [mem EXCEPT ![p] = slot]
  BY <1>1, <1>2, <1>3, <1>5, SlotSet
<1>6. CASE Ends(p)
  BY <1>3, <1>6, EndedSlot
<1> QED BY <1>4, <1>5, <1>6

LEMMA RenderSlot ==
  ASSUME OpinionAssumption, RowTypeOK, ApproveRender
  PROVE  LET text == bucket.texts[<<mem["approval"].at.glue, mem["approval"].at.ensEdit>>] IN
         /\ mem' \in [Processes -> Slot]
         /\ \/ mem'["approval"] = Idle
            \/ /\ text # NoText
               /\ mem'["approval"].step = "rendered" /\ mem'["approval"].at = mem["approval"].at
               /\ mem'["approval"].of = text.of /\ mem'["approval"].edits = text.edits
         /\ \A q \in Processes : q # "approval" => mem'[q] = mem[q]
<1> DEFINE text == bucket.texts[<<mem["approval"].at.glue, mem["approval"].at.ensEdit>>]
           slot == [mem["approval"] EXCEPT !.step = "rendered", !.of = text.of,
                      !.edits = text.edits, !.picture = bucket.picture]
<1>1. mem["approval"] \in Slot /\ mem["approval"].at \in Stamps /\ "rendered" \in Steps
  BY MemSlots DEF Steps
<1>2. /\ <<mem["approval"].at.glue, mem["approval"].at.ensEdit>> \in Revs \X Edits
      /\ bucket.picture \in Inputs \cup {None}
  BY <1>1 DEF RowTypeOK, Stamps
<1>3. text \in Text
  BY <1>2 DEF RowTypeOK
<1>4. Ends("approval") \/ (text # NoText /\ mem' = [mem EXCEPT !["approval"] = slot])
  <2>1. Ends("approval") \/ (text # NoText /\ mem' = [mem EXCEPT
                              !["approval"].step = "rendered",
                              !["approval"].of = text.of, !["approval"].edits = text.edits,
                              !["approval"].picture = bucket.picture])
    BY DEF ApproveRender
  <2> HIDE DEF text
  <2> QED BY <2>1, <1>1 DEF Slot, RowTypeOK
<1> HIDE DEF text
<1>5. text.of \in Inputs \cup {None} /\ text.edits \in Edits \cup {NoRev}
  BY <1>3 DEF Text
<1>6. slot \in Slot
  BY <1>1, <1>2, <1>5, SlotWith
<1>7. /\ slot.step = "rendered" /\ slot.at = mem["approval"].at
      /\ slot.of = text.of /\ slot.edits = text.edits
  BY <1>1, SlotHas
<1> HIDE DEF slot
<1>8. CASE Ends("approval")
  BY <1>8, EndedSlot DEF text
<1>9. CASE text # NoText /\ mem' = [mem EXCEPT !["approval"] = slot]
  <2>1. /\ mem' \in [Processes -> Slot] /\ mem'["approval"] = slot
        /\ \A q \in Processes : q # "approval" => mem'[q] = mem[q]
    BY <1>6, <1>9, SlotSet
  <2> QED BY <1>7, <1>9, <2>1 DEF text
<1> QED BY <1>4, <1>8, <1>9

-----------------------------------------------------------------------------
(* What a step leaves of the row.                                          *)

\* A work that has tries left keeps them.
TriesLast(works) == \A w \in works : Tries(w) => Tries(w)'

SameObjects == row'.glue = row.glue /\ row'.pdf = row.pdf /\ row'.ocr = row.ocr
SameTexts   == row'.ens = row.ens /\ row'.ensEdit = row.ensEdit
SameInputs  == row'.digest = row.digest /\ row'.edit = row.edit
SameRow     == SameObjects /\ SameTexts /\ SameInputs

LEMMA ResetTries ==
  ASSUME OpinionAssumption, NEW a \in [Works -> 0..MaxAttempts], NEW w \in Works
  PROVE  /\ [a EXCEPT ![w] = 0] \in [Works -> 0..MaxAttempts]
         /\ \A v \in Works : a[v] < MaxAttempts => [a EXCEPT ![w] = 0][v] < MaxAttempts
<1>1. 0 \in 0..MaxAttempts /\ 0 < MaxAttempts
  BY DEF OpinionAssumption
<1> QED BY <1>1

LEMMA AttemptsRow ==
  ASSUME row \in RowType, row'.attempts = row.attempts
  PROVE  TriesLast(Works)
BY DEF TriesLast, Tries

LEMMA GlueStampRow ==
  ASSUME OpinionAssumption, RowTypeOK, row \in RowType, row.glue = mem["tick"].at.glue, GlueStamp
  PROVE  /\ row' \in RowType /\ TriesLast(Works)
         /\ row'.glue = row.glue /\ row'.pdf = row.pdf /\ row'.ocr = row.glue
         /\ SameTexts /\ SameInputs /\ row'.status = row.status
<1> DEFINE c == Cleared(row, "glue")
           a == [c.attempts EXCEPT !["glue"] = 0]
           e == mem["tick"].enough
<1>0. e \in BOOLEAN
  BY MemSlots DEF Slot
<1>1. c \in RowType
      /\ \A f \in {"status", "digest", "glue", "pdf", "ocr", "ens", "ensEdit", "edit",
                   "figures", "cut", "attempts", "approved"} : c[f] = row[f]
  BY ClearedRow
<1>2. row.attempts \in [Works -> 0..MaxAttempts] /\ row.glue \in Revs
  BY DEF RowType
<1>3. c.attempts = row.attempts
  BY <1>1
<1>4. /\ a \in [Works -> 0..MaxAttempts]
      /\ \A v \in Works : row.attempts[v] < MaxAttempts => a[v] < MaxAttempts
  BY <1>2, <1>3, ResetTries DEF Works
<1>5. row' = [c EXCEPT !.ocr = row.glue, !.attempts = a, !.enough = e]
  BY <1>1 DEF GlueStamp, RowType
<1> HIDE DEF c, a, e
<1>6. /\ row' \in RowType /\ row'.attempts = a /\ row'.ocr = row.glue
      /\ row'.glue = c.glue /\ row'.pdf = c.pdf /\ row'.ens = c.ens
      /\ row'.ensEdit = c.ensEdit /\ row'.digest = c.digest /\ row'.edit = c.edit
      /\ row'.status = c.status
  BY <1>0, <1>1, <1>2, <1>4, <1>5 DEF RowType
<1>7. TriesLast(Works)
  BY <1>4, <1>6 DEF TriesLast, Tries
<1> QED BY <1>1, <1>6, <1>7 DEF SameTexts, SameInputs

LEMMA StampedRow ==
  ASSUME OpinionAssumption, RowTypeOK, NEW p \in Builders, row' = Stamped(p)
  PROVE  /\ row' \in RowType /\ TriesLast(Works)
         /\ SameObjects /\ SameInputs
         /\ row'.ens = mem[p].at.ocr /\ row'.ensEdit = mem[p].at.edit
         /\ row'.status = row.status \/ (row.status = "error" /\ row'.status = "processing")
<1> DEFINE c == Cleared(row, "ensemble")
           ledger == IF Pictures THEN drawn ELSE None
           a1 == [row.attempts EXCEPT !["ensemble"] = 0]
           left == IF row.figures = ledger THEN a1["figures"] ELSE 0
           a == [a1 EXCEPT !["figures"] = left]
           status == IF row.status = "error" /\ row.message = "ensemble"
                     THEN "processing" ELSE row.status
           ocr == mem[p].at.ocr
           edit == mem[p].at.edit
<1>0. row \in RowType
  BY DEF RowTypeOK, RowType
<1>1. c \in RowType
      /\ \A f \in {"status", "digest", "glue", "pdf", "ocr", "ens", "ensEdit", "edit",
                   "figures", "cut", "attempts", "approved"} : c[f] = row[f]
  BY <1>0, ClearedRow
<1>2. row.attempts \in [Works -> 0..MaxAttempts] /\ row.status \in Statuses
  BY <1>0 DEF RowType
<1>3. /\ a1 \in [Works -> 0..MaxAttempts]
      /\ \A v \in Works : row.attempts[v] < MaxAttempts => a1[v] < MaxAttempts
  BY <1>2, ResetTries DEF Works
<1>4. left \in 0..MaxAttempts /\ (left = a1["figures"] \/ left < MaxAttempts)
  BY <1>3 DEF Works, OpinionAssumption
<1>5. ledger \in Inputs \cup {None} /\ status \in Statuses
  BY <1>2 DEF RowTypeOK, Statuses
<1>6. mem[p].at \in Stamps
  BY MemSlots
<1>7. ocr \in Revs \cup {NoRev} /\ edit \in Edits
  BY <1>6 DEF Stamps
<1>8. row' = [c EXCEPT !.ens = ocr, !.ensEdit = edit, !.figures = ledger,
                !.attempts = a, !.status = status]
  <2>1. c.attempts = row.attempts /\ c.status = row.status /\ c \in RowType
    BY <1>1
  <2>2. row' = [c EXCEPT !.ens = ocr, !.ensEdit = edit, !.figures = ledger,
                  !.attempts["ensemble"] = 0,
                  !.attempts["figures"] = IF row.figures = ledger THEN @ ELSE 0,
                  !.status = IF @ = "error" /\ row.message = "ensemble" THEN "processing" ELSE @]
    BY DEF Stamped
  <2> HIDE DEF c, ledger, ocr, edit
  <2> QED BY <2>1, <2>2, <1>3 DEF RowType, Works
<1>9. a \in [Works -> 0..MaxAttempts] /\ \A v \in Works : row.attempts[v] < MaxAttempts => a[v] < MaxAttempts
  <2> HIDE DEF a1, left
  <2> QED BY <1>3, <1>4
<1>10. status = row.status \/ (row.status = "error" /\ status = "processing")
  OBVIOUS
<1> HIDE DEF c, a, ledger, status, ocr, edit
<1>11. /\ row' \in RowType /\ row'.attempts = a /\ row'.ens = ocr /\ row'.ensEdit = edit
       /\ row'.status = status
       /\ row'.glue = c.glue /\ row'.pdf = c.pdf /\ row'.ocr = c.ocr
       /\ row'.digest = c.digest /\ row'.edit = c.edit
  BY <1>1, <1>5, <1>7, <1>8, <1>9 DEF RowType
<1>12. TriesLast(Works)
  BY <1>9, <1>11 DEF TriesLast, Tries
<1> QED BY <1>1, <1>10, <1>11, <1>12 DEF SameObjects, SameInputs, ocr, edit

LEMMA EditRow ==
  ASSUME OpinionAssumption, row \in RowType, row.edit < MaxEdit, row' = [row EXCEPT !.edit = @ + 1]
  PROVE  /\ row' \in RowType /\ TriesLast(Works)
         /\ SameObjects /\ SameTexts /\ row'.edit = row.edit + 1 /\ row'.status = row.status
<1>1. row.edit + 1 \in Edits
  BY DEF RowType, Edits, OpinionAssumption
<1>2. /\ row' \in RowType /\ row'.edit = row.edit + 1 /\ row'.status = row.status
      /\ row'.attempts = row.attempts /\ SameObjects /\ SameTexts
  BY <1>1 DEF RowType, SameObjects, SameTexts
<1> QED BY <1>2, AttemptsRow

LEMMA StatusRow ==
  ASSUME row \in RowType, NEW s \in Statuses, row' = [row EXCEPT !.status = s]
  PROVE  row' \in RowType /\ TriesLast(Works) /\ SameRow /\ row'.status = s
<1>1. /\ row' \in RowType /\ row'.status = s /\ row'.attempts = row.attempts /\ SameRow
  BY DEF RowType, SameRow, SameObjects, SameTexts, SameInputs
<1> QED BY <1>1, AttemptsRow

LEMMA ApprovedRow ==
  ASSUME row \in RowType, NEW s \in Statuses, NEW a \in Approved,
         row' = [row EXCEPT !.status = s, !.approved = a]
  PROVE  row' \in RowType /\ TriesLast(Works) /\ SameRow /\ row'.status = s /\ row'.approved = a
<1>1. /\ row' \in RowType /\ row'.status = s /\ row'.approved = a /\ row'.attempts = row.attempts
      /\ SameRow
  BY DEF RowType, SameRow, SameObjects, SameTexts, SameInputs
<1> QED BY <1>1, AttemptsRow

LEMMA PdfStampRow ==
  ASSUME OpinionAssumption, row \in RowType,
         row' = [row EXCEPT !.pdf = row.glue, !.attempts["pdf"] = 0]
  PROVE  /\ row' \in RowType /\ TriesLast(Works)
         /\ row'.glue = row.glue /\ row'.pdf = row.glue /\ row'.ocr = row.ocr
         /\ SameTexts /\ SameInputs /\ row'.status = row.status
<1> DEFINE a == [row.attempts EXCEPT !["pdf"] = 0]
<1>1. row.attempts \in [Works -> 0..MaxAttempts] /\ row.glue \in Revs
  BY DEF RowType
<1>2. /\ a \in [Works -> 0..MaxAttempts]
      /\ \A v \in Works : row.attempts[v] < MaxAttempts => a[v] < MaxAttempts
  BY <1>1, ResetTries DEF Works
<1>3. row' = [row EXCEPT !.pdf = row.glue, !.attempts = a]
  BY DEF RowType
<1> HIDE DEF a
<1>4. /\ row' \in RowType /\ row'.attempts = a
      /\ row'.glue = row.glue /\ row'.pdf = row.glue /\ row'.ocr = row.ocr
      /\ SameTexts /\ SameInputs /\ row'.status = row.status
  BY <1>1, <1>2, <1>3 DEF RowType, SameTexts, SameInputs
<1> QED BY <1>2, <1>4 DEF TriesLast, Tries

LEMMA CutStampRow ==
  ASSUME OpinionAssumption, row \in RowType, NEW f \in Inputs \cup {None},
         \/ row' = [row EXCEPT !.figures = f, !.attempts["figures"] = 0]
         \/ row' = [row EXCEPT !.cut = f, !.attempts["figures"] = 0]
  PROVE  row' \in RowType /\ TriesLast(Works) /\ SameRow /\ row'.status = row.status
<1> DEFINE a == [row.attempts EXCEPT !["figures"] = 0]
<1>1. row.attempts \in [Works -> 0..MaxAttempts]
  BY DEF RowType
<1>2. /\ a \in [Works -> 0..MaxAttempts]
      /\ \A v \in Works : row.attempts[v] < MaxAttempts => a[v] < MaxAttempts
  BY <1>1, ResetTries DEF Works
<1>3. \/ row' = [row EXCEPT !.figures = f, !.attempts = a]
      \/ row' = [row EXCEPT !.cut = f, !.attempts = a]
  BY DEF RowType
<1> HIDE DEF a
<1>4. /\ row' \in RowType /\ row'.attempts = a /\ SameRow /\ row'.status = row.status
  BY <1>2, <1>3 DEF RowType, SameRow, SameObjects, SameTexts, SameInputs
<1> QED BY <1>2, <1>4 DEF TriesLast, Tries

LEMMA RaisedRow ==
  ASSUME OpinionAssumption, row \in RowType, row.glue < MaxRev,
         \/ row' = Raised
         \/ row' = [Raised EXCEPT !.pdf = row.glue + 1, !.attempts["pdf"] = 0]
  PROVE  /\ row' \in RowType /\ TriesLast(Works)
         /\ row'.glue = row.glue + 1 /\ row'.ocr = row.ocr
         /\ row' = Raised => row'.pdf = row.pdf
         /\ row'.pdf = row.pdf \/ row'.pdf = row.glue + 1
         /\ SameTexts /\ SameInputs /\ row'.status = row.status
<1> DEFINE a1 == [row.attempts EXCEPT !["glue"] = 0]
           a2 == [a1 EXCEPT !["pdf"] = 0]
           next == row.glue + 1
<1>1. row.attempts \in [Works -> 0..MaxAttempts] /\ next \in Revs
  BY DEF RowType, Revs, OpinionAssumption
<1>2. /\ a1 \in [Works -> 0..MaxAttempts]
      /\ \A v \in Works : row.attempts[v] < MaxAttempts => a1[v] < MaxAttempts
  BY <1>1, ResetTries DEF Works
<1>3. /\ a2 \in [Works -> 0..MaxAttempts]
      /\ \A v \in Works : a1[v] < MaxAttempts => a2[v] < MaxAttempts
  <2> HIDE DEF a1
  <2> QED BY <1>2, ResetTries DEF Works
<1>4. Raised = [row EXCEPT !.glue = next, !.attempts = a1]
  BY DEF Raised, RowType
<1>5. CASE row' = Raised
  <2> HIDE DEF a1, next
  <2>1. /\ row' \in RowType /\ row'.attempts = a1 /\ row'.glue = next /\ row'.ocr = row.ocr
        /\ row'.pdf = row.pdf /\ SameTexts /\ SameInputs /\ row'.status = row.status
    BY <1>1, <1>2, <1>4, <1>5 DEF RowType, SameTexts, SameInputs
  <2>2. TriesLast(Works)
    BY <1>2, <2>1 DEF TriesLast, Tries
  <2> QED BY <2>1, <2>2 DEF next
<1>6. CASE row' = [Raised EXCEPT !.pdf = row.glue + 1, !.attempts["pdf"] = 0]
  <2>1. row' = [row EXCEPT !.glue = next, !.pdf = next, !.attempts = a2]
    <3> HIDE DEF a1
    <3> QED BY <1>4, <1>6 DEF RowType
  <2> HIDE DEF a1, a2, next
  <2>2. /\ row' \in RowType /\ row'.attempts = a2 /\ row'.glue = next /\ row'.ocr = row.ocr
        /\ row'.pdf = next /\ SameTexts /\ SameInputs /\ row'.status = row.status
    BY <1>1, <1>3, <2>1 DEF RowType, SameTexts, SameInputs
  <2>3. TriesLast(Works)
    BY <1>2, <1>3, <2>2 DEF TriesLast, Tries
  <2>4. row' = Raised => row'.pdf = row.pdf
    BY <1>1, <1>4 DEF RowType
  <2> QED BY <2>2, <2>3, <2>4 DEF next
<1> QED BY <1>5, <1>6

LEMMA CreatedRow ==
  ASSUME OpinionAssumption, RowTypeOK, CreateRows, row' # row
  PROVE  /\ row' \in RowType /\ TriesLast(Works)
         /\ row.status # "done" /\ row'.status # "done"
         /\ row'.status # "ready" \/ row.status = "ready"
         /\ row.glue < MaxRev /\ row'.glue = row.glue + 1 /\ row'.ocr = row.ocr /\ row'.pdf = row.pdf
         /\ SameTexts /\ row'.edit = row.edit
<1> DEFINE a == [w \in Works |-> IF w = "figures" THEN row.attempts[w] ELSE 0]
           status == IF row.status = "error" THEN "processing" ELSE row.status
           next == row.glue + 1
<1>1. ~Unchanged /\ row.status # "done" /\ row.glue < MaxRev
  BY DEF CreateRows
<1>2. row' = [row EXCEPT !.digest = drawn, !.glue = next, !.status = status, !.attempts = a]
  BY <1>1 DEF CreateRows, RowTypeOK
<1>3. row \in RowType /\ next \in Revs /\ drawn \in Inputs /\ status \in Statuses
  BY <1>1 DEF RowTypeOK, RowType, Revs, OpinionAssumption, Statuses
<1>4. /\ a \in [Works -> 0..MaxAttempts]
      /\ \A v \in Works : row.attempts[v] < MaxAttempts => a[v] < MaxAttempts
  BY <1>3 DEF RowType, OpinionAssumption
<1>5. status # "done" /\ (status # "ready" \/ row.status = "ready")
  BY <1>1
<1> HIDE DEF a, status, next
<1>6. /\ row' \in RowType /\ row'.attempts = a /\ row'.status = status
      /\ row'.glue = next /\ row'.ocr = row.ocr /\ row'.pdf = row.pdf
      /\ SameTexts /\ row'.edit = row.edit
  BY <1>2, <1>3, <1>4 DEF RowType, SameTexts
<1>7. TriesLast(Works)
  BY <1>4, <1>6 DEF TriesLast, Tries
<1> QED BY <1>1, <1>5, <1>6, <1>7 DEF next

-----------------------------------------------------------------------------
(* What a step leaves of the bucket.                                       *)

LEMMA GlueBucket ==
  ASSUME RowTypeOK, NEW r \in Revs, NEW o \in Inputs \cup {None},
         bucket' = [bucket EXCEPT !.glues[r] = o]
  PROVE  /\ bucket' \in BucketType
         /\ bucket'.glues = [bucket.glues EXCEPT ![r] = o]
         /\ bucket'.pdfs = bucket.pdfs /\ bucket'.texts = bucket.texts
<1>1. bucket \in BucketType
  BY DEF RowTypeOK, BucketType
<1> QED BY <1>1 DEF BucketType

LEMMA PdfBucket ==
  ASSUME RowTypeOK, NEW r \in Revs, NEW o \in Inputs \cup {None},
         bucket' = [bucket EXCEPT !.pdfs[r] = o]
  PROVE  /\ bucket' \in BucketType
         /\ bucket'.pdfs = [bucket.pdfs EXCEPT ![r] = o]
         /\ bucket'.glues = bucket.glues /\ bucket'.texts = bucket.texts
<1>1. bucket \in BucketType
  BY DEF RowTypeOK, BucketType
<1> QED BY <1>1 DEF BucketType

LEMMA TextBucket ==
  ASSUME RowTypeOK, NEW k \in Revs \X Edits, NEW t \in Text,
         bucket' = [bucket EXCEPT !.texts[k] = t]
  PROVE  /\ bucket' \in BucketType
         /\ bucket'.texts = [bucket.texts EXCEPT ![k] = t]
         /\ bucket'.glues = bucket.glues /\ bucket'.pdfs = bucket.pdfs
<1>1. bucket \in BucketType
  BY DEF RowTypeOK, BucketType
<1> QED BY <1>1 DEF BucketType

LEMMA PictureBucket ==
  ASSUME RowTypeOK, NEW o \in Inputs \cup {None}, bucket' = [bucket EXCEPT !.picture = o]
  PROVE  /\ bucket' \in BucketType
         /\ bucket'.glues = bucket.glues /\ bucket'.pdfs = bucket.pdfs
         /\ bucket'.texts = bucket.texts
<1>1. bucket \in BucketType
  BY DEF RowTypeOK, BucketType
<1> QED BY <1>1 DEF BucketType

LEMMA NoTextText == NoText \in Text
BY DEF NoText, Text

LEMMA DeletedBucket ==
  ASSUME RowTypeOK, NEW k \in Revs \X Edits, Deleted(k)
  PROVE  /\ bucket' \in BucketType
         /\ bucket'.texts = [bucket.texts EXCEPT ![k] = NoText]
         /\ bucket'.glues = bucket.glues /\ bucket'.pdfs = bucket.pdfs
BY NoTextText, TextBucket DEF Deleted

LEMMA PrunedBucket ==
  ASSUME RowTypeOK, NEW below \in Revs, bucket' = Pruned(below)
  PROVE  /\ bucket' \in BucketType
         /\ \A r \in Revs : below <= r => /\ bucket'.glues[r] = bucket.glues[r]
                                          /\ bucket'.pdfs[r] = bucket.pdfs[r]
         /\ \A r \in Revs : bucket'.glues[r] \in {None, bucket.glues[r]}
         /\ \A k \in Revs \X Edits : bucket'.texts[k] \in {NoText, bucket.texts[k]}
<1> DEFINE glues == [r \in Revs |-> IF r < below THEN None ELSE bucket.glues[r]]
           pdfs == [r \in Revs |-> IF r < below THEN None ELSE bucket.pdfs[r]]
           texts == [k \in Revs \X Edits |-> IF k[1] < below THEN NoText ELSE bucket.texts[k]]
<1>1. bucket \in BucketType
  BY DEF RowTypeOK, BucketType
<1>2. bucket' = [glues |-> glues, pdfs |-> pdfs, texts |-> texts, picture |-> bucket.picture]
  BY DEF Pruned
<1>3. bucket'.glues = glues /\ bucket'.pdfs = pdfs /\ bucket'.texts = texts
  BY <1>2
<1>4. glues \in [Revs -> Inputs \cup {None}] /\ pdfs \in [Revs -> Inputs \cup {None}]
  BY <1>1 DEF BucketType
<1>5. texts \in [Revs \X Edits -> Text]
  BY <1>1, NoTextText DEF BucketType
<1>6. bucket' \in BucketType
  <2> HIDE DEF glues, pdfs, texts
  <2> QED BY <1>1, <1>2, <1>4, <1>5 DEF BucketType
<1>7. \A r \in Revs : below <= r => glues[r] = bucket.glues[r] /\ pdfs[r] = bucket.pdfs[r]
  BY DEF Revs, OpinionAssumption
<1>8. \A r \in Revs : glues[r] \in {None, bucket.glues[r]}
  OBVIOUS
<1>9. \A k \in Revs \X Edits : texts[k] \in {NoText, bucket.texts[k]}
  OBVIOUS
<1> QED BY <1>3, <1>6, <1>7, <1>8, <1>9

-----------------------------------------------------------------------------
(* What outlives every step: the revisions rise, and what the row and the  *)
(* bucket say of a revision goes on while the row has it.                  *)

NextPdf == bucket.pdfs[row.glue + 1]

Lasts ==
  /\ row.glue <= row'.glue /\ row.edit <= row'.edit
  /\ row'.glue = row.glue =>
       /\ OcrWritten => OcrWritten'
       /\ PdfWritten => PdfWritten'
       /\ EnsembleWritten => EnsembleWritten'
       /\ LiveGlue # None => LiveGlue' # None
       /\ LivePdf # None => LivePdf' # None
       /\ row.glue < MaxRev /\ NextPdf # None => NextPdf' # None

LEMMA TypeNow ==
  ASSUME RowTypeOK
  PROVE  /\ row \in RowType /\ bucket \in BucketType /\ mem \in [Processes -> Slot]
         /\ drawn \in Inputs
BY DEF RowTypeOK, RowType, BucketType

LEMMA TypeThen ==
  ASSUME RowTypeOK, row' \in RowType, bucket' \in BucketType, mem' \in [Processes -> Slot],
         UNCHANGED <<scan, drawn, kills>>
  PROVE  RowTypeOK'
BY DEF RowTypeOK, RowType, BucketType

LEMMA RowNumbers ==
  ASSUME OpinionAssumption, RowTypeOK
  PROVE  /\ row.glue \in Nat /\ row.glue <= MaxRev /\ row.ocr \in Int /\ row.pdf \in Int
         /\ row.ens \in Int /\ row.edit \in Nat /\ row.ensEdit \in Nat /\ MaxRev \in Nat
         /\ row.glue \in Revs
BY DEF RowTypeOK, Revs, Edits, NoRev, OpinionAssumption

LEMMA HeldNumbers ==
  ASSUME OpinionAssumption, RowTypeOK, NEW p \in Processes
  PROVE  /\ mem[p].at.glue \in Nat /\ mem[p].at.ocr \in Int /\ mem[p].at.pdf \in Int
         /\ mem[p].at.ens \in Int /\ mem[p].at.edit \in Nat /\ mem[p].at.ensEdit \in Nat
         /\ mem[p].at.glue \in Revs /\ mem[p].at.edit \in Edits /\ mem[p].at.ensEdit \in Edits
<1>1. mem[p].at \in Stamps
  BY MemSlots
<1> QED BY <1>1 DEF Stamps, Revs, Edits, NoRev, OpinionAssumption

LEMMA LastsSame ==
  ASSUME OpinionAssumption, RowTypeOK, SameRow,
         bucket'.glues = bucket.glues, bucket'.pdfs = bucket.pdfs
  PROVE  Lasts
BY RowNumbers DEF Lasts, SameRow, SameObjects, SameTexts, SameInputs, OcrWritten, PdfWritten,
   EnsembleWritten, LiveGlue, LivePdf, NextPdf

LEMMA SameRowSame == ASSUME row' = row PROVE SameRow /\ TriesLast(Works)
BY DEF SameRow, SameObjects, SameTexts, SameInputs, TriesLast, Tries

\* The slot of a process after a read of the row, a move and an end.
LEMMA HeldAt ==
  ASSUME OpinionAssumption, RowTypeOK, NEW p \in Processes, NEW s \in Steps, NEW fields,
         Holds(p, s, fields)
  PROVE  /\ mem' \in [Processes -> Slot] /\ mem'[p].step = s /\ mem'[p].at = Kept(fields)
         /\ \A q \in Processes : q # p => mem'[q] = mem[q]
<1>1. /\ mem' \in [Processes -> Slot]
      /\ mem'[p] = [Idle EXCEPT !.step = s, !.at = Kept(fields)]
      /\ \A q \in Processes : q # p => mem'[q] = mem[q]
  BY HeldSlot
<1>2. LET t == [Idle EXCEPT !.step = s, !.at = Kept(fields)] IN t.step = s /\ t.at = Kept(fields)
  BY IdleSlot, SlotHas
<1> QED BY <1>1, <1>2

LEMMA MovedAt ==
  ASSUME RowTypeOK, NEW p \in Processes, NEW s \in Steps, Goes(p, s)
  PROVE  /\ mem' \in [Processes -> Slot] /\ mem'[p].step = s /\ mem'[p].at = mem[p].at
         /\ mem'[p].of = mem[p].of
         /\ \A q \in Processes : q # p => mem'[q] = mem[q]
<1>1. /\ mem' \in [Processes -> Slot] /\ mem'[p] = [mem[p] EXCEPT !.step = s]
      /\ \A q \in Processes : q # p => mem'[q] = mem[q]
  BY MovedSlot
<1>2. LET t == [mem[p] EXCEPT !.step = s] IN t.step = s /\ t.at = mem[p].at /\ t.of = mem[p].of
  BY MemSlots, SlotHas
<1> QED BY <1>1, <1>2

LEMMA EndedAt ==
  ASSUME OpinionAssumption, RowTypeOK, NEW p \in Processes, Ends(p)
  PROVE  /\ mem' \in [Processes -> Slot] /\ mem'[p].step = "idle" /\ mem'[p].at.glue = 0
         /\ mem'[p] = Idle
         /\ \A q \in Processes : q # p => mem'[q] = mem[q]
<1>1. Idle.step = "idle" /\ Idle.at.glue = 0
  BY DEF Idle, NoStamps
<1> QED BY <1>1, EndedSlot

-----------------------------------------------------------------------------
(* What a process knows stays so while another moves.                      *)

HeldLow == \A p \in Processes : mem[p].at.glue <= row.glue

LEMMA FitParts ==
  ASSUME StampedFit
  PROVE  StampsFit /\ HeldLow /\ TickFits /\ PdfFits /\ CutFits /\ OpFits /\ WebFits /\ ApprovalFits
BY DEF StampedFit, HeldLow

LEMMA FitWhole ==
  ASSUME StampsFit', HeldLow', TickFits', PdfFits', CutFits', OpFits', WebFits', ApprovalFits'
  PROVE  StampedFit'
BY DEF StampedFit, HeldLow

LEMMA LowStays ==
  ASSUME OpinionAssumption, RowTypeOK, RowTypeOK', HeldLow, Lasts, NEW p \in Processes,
         mem'[p].at.glue \in {0, row.glue, mem[p].at.glue},
         \A q \in Processes : q # p => mem'[q] = mem[q]
  PROVE  HeldLow'
<1>1. SUFFICES ASSUME NEW q \in Processes PROVE mem'[q].at.glue <= row'.glue
  BY DEF HeldLow
<1>2. row.glue \in Nat /\ row'.glue \in Nat /\ row.glue <= row'.glue
  BY RowNumbers DEF RowTypeOK, Lasts, Revs, OpinionAssumption
<1>3. mem[q].at.glue \in Nat /\ mem[p].at.glue \in Nat /\ mem[q].at.glue <= row.glue /\ mem[p].at.glue <= row.glue
  BY HeldNumbers DEF HeldLow
<1>4. CASE q = p
  BY <1>2, <1>3, <1>4
<1>5. CASE q # p
  BY <1>2, <1>3, <1>5
<1> QED BY <1>4, <1>5

\* A row that still has the revision of a process had it before the step.
LEMMA StoodBefore ==
  ASSUME OpinionAssumption, RowTypeOK, HeldLow, Lasts, NEW p \in Processes,
         mem'[p].at.glue = mem[p].at.glue, row' \in RowType, Stands(p)'
  PROVE  Stands(p) /\ row'.glue = row.glue
<1>1. row.glue \in Nat /\ row'.glue \in Nat /\ row.glue <= row'.glue
  BY RowNumbers DEF RowType, Lasts, Revs, OpinionAssumption
<1>2. mem[p].at.glue \in Nat /\ mem[p].at.glue <= row.glue
  BY HeldNumbers DEF HeldLow
<1>3. row'.glue = mem[p].at.glue
  BY DEF Stands
<1> QED BY <1>1, <1>2, <1>3 DEF Stands

LEMMA TickStays ==
  ASSUME OpinionAssumption, RowTypeOK, row' \in RowType, HeldLow, Lasts, TickFits,
         TriesLast({"glue", "ensemble"}), mem'["tick"] = mem["tick"], row'.ocr = row.ocr
  PROVE  TickFits'
<1>1. Stands("tick")' => Stands("tick") /\ row'.glue = row.glue
  BY StoodBefore
<1>2. (Tries("glue") => Tries("glue")') /\ (Tries("ensemble") => Tries("ensemble")')
  BY DEF TriesLast
<1>3. Stands("tick")' => /\ (~OcrWritten => ~OcrWritten')
                         /\ (LiveGlue # None => LiveGlue' # None)
                         /\ (PdfWritten => PdfWritten') /\ (EnsembleWritten => EnsembleWritten')
  BY <1>1 DEF Lasts, OcrWritten
<1> HIDE DEF Lasts, TriesLast
<1> QED BY <1>1, <1>2, <1>3 DEF TickFits, IsAt

LEMMA PdfStays ==
  ASSUME OpinionAssumption, RowTypeOK, row' \in RowType, HeldLow, Lasts, PdfFits,
         TriesLast({"pdf"}), mem'["pdf"] = mem["pdf"]
  PROVE  PdfFits'
<1>1. Stands("pdf")' => Stands("pdf") /\ row'.glue = row.glue
  BY StoodBefore
<1>2. Tries("pdf") => Tries("pdf")'
  BY DEF TriesLast
<1>3. Stands("pdf")' => (LivePdf # None => LivePdf' # None)
  BY <1>1 DEF Lasts
<1> QED BY <1>1, <1>2, <1>3 DEF PdfFits, IsAt

LEMMA CutStays ==
  ASSUME CutFits, TriesLast({"figures"}), mem'["cut"] = mem["cut"]
  PROVE  CutFits'
<1>1. Tries("figures") => Tries("figures")'
  BY DEF TriesLast
<1> QED BY <1>1 DEF CutFits

LEMMA OpStays ==
  ASSUME OpinionAssumption, RowTypeOK, row' \in RowType, HeldLow, Lasts, OpFits,
         mem'["op"] = mem["op"]
  PROVE  OpFits'
<1>1. Stands("op")' => Stands("op") /\ row'.glue = row.glue
  BY StoodBefore
<1>2. Stands("op")' /\ row.glue < MaxRev => (NextPdf # None => NextPdf' # None)
  BY <1>1 DEF Lasts
<1>3. Stands("op")' /\ IsAt("op", "carried") => row.glue < MaxRev
  BY <1>1 DEF Stands, OpFits, IsAt
<1> QED BY <1>1, <1>2, <1>3 DEF OpFits, IsAt, NextPdf

LEMMA WebStays ==
  ASSUME WebFits, mem'["web"] = mem["web"], row'.edit = row.edit
  PROVE  WebFits'
BY DEF WebFits, IsAt

LEMMA ApprovalStays ==
  ASSUME OpinionAssumption, RowTypeOK, row' \in RowType, HeldLow, Lasts, ApprovalFits,
         mem'["approval"] = mem["approval"]
  PROVE  ApprovalFits'
<1>1. Stands("approval")' => Stands("approval") /\ row'.glue = row.glue
  BY StoodBefore
<1>2. Stands("approval")' => (OcrWritten => OcrWritten')
  BY <1>1 DEF Lasts
<1>3. mem["approval"].at.edit <= row.edit => mem["approval"].at.edit <= row'.edit
  <2>1. row.edit <= row'.edit /\ row'.edit \in Nat
    BY DEF Lasts, RowType, Edits, OpinionAssumption
  <2> QED BY <2>1, RowNumbers, HeldNumbers
<1> QED BY <1>1, <1>2, <1>3 DEF ApprovalFits

LEMMA StampsStay ==
  ASSUME OpinionAssumption, RowTypeOK, StampsFit, Lasts, SameObjects,
         row'.status = "done" => row.status = "done" \/ OcrWritten
  PROVE  StampsFit'
BY DEF StampsFit, Lasts, SameObjects, OcrWritten, PdfWritten

LEMMA Moves ==
  ASSUME OpinionAssumption, RowTypeOK, RowTypeOK', StampedFit, Lasts, StampsFit',
         NEW p \in Processes, mem'[p].at.glue \in {0, row.glue, mem[p].at.glue},
         \A q \in Processes : q # p => mem'[q] = mem[q],
         IF p = "tick" THEN TickFits'
         ELSE row'.ocr = row.ocr /\ TriesLast({"glue", "ensemble"}),
         IF p = "pdf" THEN PdfFits' ELSE TriesLast({"pdf"}),
         IF p = "cut" THEN CutFits' ELSE TriesLast({"figures"}),
         p = "op" => OpFits',
         IF p = "web" THEN WebFits' ELSE row'.edit = row.edit,
         p = "approval" => ApprovalFits'
  PROVE  StampedFit'
<1>1. row' \in RowType
  BY DEF RowTypeOK, RowType
<1>2. HeldLow /\ TickFits /\ PdfFits /\ CutFits /\ OpFits /\ WebFits /\ ApprovalFits
  BY FitParts
<1>3. HeldLow'
  BY <1>2, LowStays
<1>4. TickFits'
  <2>1. CASE p = "tick"
    BY <2>1
  <2>2. CASE p # "tick"
    BY <1>1, <1>2, <2>2, TickStays
  <2> QED BY <2>1, <2>2
<1>5. PdfFits'
  <2>1. CASE p = "pdf"
    BY <2>1
  <2>2. CASE p # "pdf"
    BY <1>1, <1>2, <2>2, PdfStays
  <2> QED BY <2>1, <2>2
<1>6. CutFits'
  <2>1. CASE p = "cut"
    BY <2>1
  <2>2. CASE p # "cut"
    BY <1>2, <2>2, CutStays
  <2> QED BY <2>1, <2>2
<1>7. OpFits'
  <2>1. CASE p = "op"
    BY <2>1
  <2>2. CASE p # "op"
    BY <1>1, <1>2, <2>2, OpStays
  <2> QED BY <2>1, <2>2
<1>8. WebFits'
  <2>1. CASE p = "web"
    BY <2>1
  <2>2. CASE p # "web"
    BY <1>2, <2>2, WebStays
  <2> QED BY <2>1, <2>2
<1>9. ApprovalFits'
  <2>1. CASE p = "approval"
    BY <2>1
  <2>2. CASE p # "approval"
    BY <1>1, <1>2, <2>2, ApprovalStays
  <2> QED BY <2>1, <2>2
<1> QED BY <1>3, <1>4, <1>5, <1>6, <1>7, <1>8, <1>9, FitWhole

LEMMA TriesParts ==
  ASSUME TriesLast(Works)
  PROVE  /\ TriesLast({"glue", "ensemble"}) /\ TriesLast({"pdf"}) /\ TriesLast({"figures"})
BY DEF TriesLast, Works

\* A step that leaves the row, or only its status, and the glues and PDFs alone.
LEMMA QuietMoves ==
  ASSUME OpinionAssumption, RowTypeOK, RowTypeOK', StampedFit, SameRow, TriesLast(Works),
         row'.status = "done" => row.status = "done" \/ OcrWritten,
         bucket'.glues = bucket.glues, bucket'.pdfs = bucket.pdfs,
         NEW p \in Processes, mem'[p].at.glue \in {0, row.glue, mem[p].at.glue},
         \A q \in Processes : q # p => mem'[q] = mem[q],
         p = "tick" => TickFits', p = "pdf" => PdfFits', p = "cut" => CutFits',
         p = "op" => OpFits', p = "web" => WebFits', p = "approval" => ApprovalFits'
  PROVE  Lasts /\ StampedFit'
<1>1. Lasts
  BY LastsSame
<1>2. StampsFit'
  BY <1>1, FitParts, StampsStay DEF SameRow
<1>3. row'.ocr = row.ocr /\ row'.edit = row.edit
  BY DEF SameRow, SameObjects, SameInputs
<1> QED BY <1>1, <1>2, <1>3, TriesParts, Moves

-----------------------------------------------------------------------------
(* One lemma to an action: types, what lasts, and what the stamps say.     *)

GoodStep == RowTypeOK' /\ Lasts /\ StampedFit'

LEMMA TickIdle ==
  ASSUME mem'["tick"].step \notin {"inputs", "glueing", "glued", "build", "loaded", "promote"}
  PROVE  TickFits'
BY DEF TickFits, IsAt

LEMMA PdfIdle == ASSUME mem'["pdf"].step \notin {"read", "stored"} PROVE PdfFits'
BY DEF PdfFits, IsAt

LEMMA CutIdle == ASSUME mem'["cut"].step \notin {"read", "cutting"} PROVE CutFits'
BY DEF CutFits

LEMMA OpIdle == ASSUME mem'["op"].step \notin {"read", "carried", "bare"} PROVE OpFits'
BY DEF OpFits, IsAt

LEMMA WebIdle == ASSUME mem'["web"].step # "edit" PROVE WebFits'
BY DEF WebFits, IsAt

LEMMA ApprovalIdle == ASSUME mem'["approval"].step \notin {"gated", "rendered"} PROVE ApprovalFits'
BY DEF ApprovalFits

LEMMA GlueLoadGood == ASSUME OpinionAssumption, RowTypeOK, StampedFit, GlueLoad PROVE GoodStep
<1>1. /\ mem' \in [Processes -> Slot]
      /\ mem'["tick"].step = "inputs" /\ mem'["tick"].at.glue = 0 /\ mem'["tick"].of = drawn
      /\ \A q \in Processes : q # "tick" => mem'[q] = mem[q]
  BY GlueLoadSlot
<1>2. UNCHANGED <<scan, drawn, row, bucket, kills>>
  BY DEF GlueLoad
<1>3. RowTypeOK'
  BY <1>1, <1>2, TypeNow, TypeThen
<1>4. drawn # None
  BY TypeNow, Bounds
<1>5. TickFits'
  BY <1>1, <1>4 DEF TickFits, IsAt
<1> QED BY <1>1, <1>2, <1>3, <1>5, SameRowSame, QuietMoves DEF GoodStep

LEMMA GlueReadGood == ASSUME OpinionAssumption, RowTypeOK, StampedFit, GlueRead PROVE GoodStep
<1>1. /\ mem' \in [Processes -> Slot]
      /\ \/ mem'["tick"] = Idle
         \/ /\ GlueDue /\ mem'["tick"].step = "glueing"
            /\ mem'["tick"].at.glue = row.glue /\ mem'["tick"].of = mem["tick"].of
      /\ \A q \in Processes : q # "tick" => mem'[q] = mem[q]
  BY GlueReadSlot
<1>2. UNCHANGED <<scan, drawn, row, bucket, kills>> /\ IsAt("tick", "inputs")
  BY DEF GlueRead
<1>3. RowTypeOK'
  BY <1>1, <1>2, TypeNow, TypeThen
<1>4. Idle.step = "idle" /\ Idle.at.glue = 0
  BY DEF Idle, NoStamps
<1>5. CASE mem'["tick"] = Idle
  BY <1>1, <1>2, <1>3, <1>4, <1>5, TickIdle, SameRowSame, QuietMoves DEF GoodStep
<1>6. CASE /\ GlueDue /\ mem'["tick"].step = "glueing"
           /\ mem'["tick"].at.glue = row.glue /\ mem'["tick"].of = mem["tick"].of
  <2>1. Tries("glue")' /\ ~OcrWritten'
    BY <1>2, <1>6 DEF GlueDue, Tries, OcrWritten
  <2>2. mem["tick"].of # None
    BY <1>2, FitParts DEF TickFits, IsAt
  <2>3. TickFits'
    BY <1>6, <2>1, <2>2 DEF TickFits, IsAt
  <2> QED BY <1>1, <1>2, <1>3, <1>6, <2>3, SameRowSame, QuietMoves DEF GoodStep
<1> QED BY <1>1, <1>5, <1>6

LEMMA GlueWriteGood == ASSUME OpinionAssumption, RowTypeOK, StampedFit, GlueWrite PROVE GoodStep
<1> DEFINE r == mem["tick"].at.glue
           o == mem["tick"].of
<1>1. /\ mem' \in [Processes -> Slot] /\ mem'["tick"].step = "glued"
      /\ mem'["tick"].at = mem["tick"].at
      /\ \A q \in Processes : q # "tick" => mem'[q] = mem[q]
  BY MovedAt DEF GlueWrite, Steps
<1>2. UNCHANGED <<scan, drawn, row, kills>> /\ IsAt("tick", "glueing")
  BY DEF GlueWrite
<1>3. r \in Revs /\ o \in Inputs \cup {None} /\ o # None
  BY <1>2, HeldNumbers, MemSlots, FitParts DEF TickFits, IsAt, Slot
<1>4. bucket' = [bucket EXCEPT !.glues[r] = o]
  BY DEF GlueWrite
<1> HIDE DEF r, o
<1>5. /\ bucket' \in BucketType /\ bucket'.glues = [bucket.glues EXCEPT ![r] = o]
      /\ bucket'.pdfs = bucket.pdfs
  BY <1>3, <1>4, GlueBucket
<1>6. RowTypeOK'
  BY <1>1, <1>2, <1>5, TypeNow, TypeThen
<1>7. \A x \in Revs : bucket.glues[x] # None => bucket'.glues[x] # None
  BY <1>3, <1>5, TypeNow DEF BucketType
<1>8. bucket'.glues[r] # None
  BY <1>3, <1>5, TypeNow DEF BucketType
<1>9. Lasts
  BY <1>2, <1>5, <1>7, RowNumbers DEF Lasts, LiveGlue, LivePdf, NextPdf, OcrWritten, PdfWritten, EnsembleWritten
<1>10. StampsFit'
  BY <1>2, <1>9, FitParts, StampsStay DEF SameObjects
<1>11. TickFits'
  <2>1. Stands("tick")' => Stands("tick") /\ row.glue = r
    BY <1>1, <1>2 DEF Stands, r
  <2>2. Stands("tick")' => ~OcrWritten' /\ LiveGlue' # None
    BY <1>2, <1>8, <2>1, FitParts DEF TickFits, IsAt, LiveGlue, OcrWritten
  <2> QED BY <1>1, <2>2 DEF TickFits, IsAt
<1> QED BY <1>1, <1>2, <1>6, <1>9, <1>10, <1>11, SameRowSame, TriesParts, Moves DEF GoodStep

LEMMA GlueStampGood == ASSUME OpinionAssumption, RowTypeOK, StampedFit, GlueStamp PROVE GoodStep
<1>1. /\ mem' \in [Processes -> Slot] /\ mem'["tick"].step = "idle" /\ mem'["tick"].at.glue = 0
      /\ \A q \in Processes : q # "tick" => mem'[q] = mem[q]
  BY EndedAt DEF GlueStamp
<1>2. UNCHANGED <<scan, drawn, bucket, kills>> /\ IsAt("tick", "glued")
  BY DEF GlueStamp
<1>3. TickFits'
  BY <1>1, TickIdle
<1>4. CASE row.glue # mem["tick"].at.glue
  <2>1. row' = row
    BY <1>4 DEF GlueStamp
  <2>2. RowTypeOK'
    BY <1>1, <1>2, <2>1, TypeNow, TypeThen
  <2> QED BY <1>1, <1>2, <1>3, <2>1, <2>2, SameRowSame, QuietMoves DEF GoodStep
<1>5. CASE row.glue = mem["tick"].at.glue
  <2>1. /\ row' \in RowType /\ TriesLast(Works)
        /\ row'.glue = row.glue /\ row'.pdf = row.pdf /\ row'.ocr = row.glue
        /\ SameTexts /\ SameInputs /\ row'.status = row.status
    BY <1>5, TypeNow, GlueStampRow
  <2>2. ~OcrWritten /\ LiveGlue # None
    BY <1>2, <1>5, FitParts DEF TickFits, IsAt, Stands
  <2>3. RowTypeOK'
    BY <1>1, <1>2, <2>1, TypeNow, TypeThen
  <2>4. Lasts
    BY <1>2, <2>1, <2>2, RowNumbers DEF Lasts, OcrWritten, PdfWritten, EnsembleWritten,
       LiveGlue, LivePdf, NextPdf, SameInputs
  <2>5. StampsFit'
    BY <1>2, <2>1, <2>2, FitParts, RowNumbers DEF StampsFit, OcrWritten, PdfWritten, LiveGlue, LivePdf
  <2>6. row'.edit = row.edit
    BY <2>1 DEF SameInputs
  <2> QED BY <1>1, <1>3, <2>1, <2>3, <2>4, <2>5, <2>6, TriesParts, Moves DEF GoodStep
<1> QED BY <1>4, <1>5

\* A failure of a work, and the end of the process that had it.
LEMMA FailsGood ==
  ASSUME OpinionAssumption, RowTypeOK, StampedFit, NEW p \in Processes, Ends(p),
         NEW w \in Works, Tries(w), row' = Spent(w),
         \/ p = "tick" /\ w \in {"glue", "ensemble"}
         \/ p = "pdf" /\ w = "pdf"
         \/ p = "cut" /\ w = "figures",
         UNCHANGED <<scan, drawn, bucket, kills>>
  PROVE  GoodStep /\ (row'.status \in {row.status, "error"}) /\ SameRow
<1>1. /\ mem' \in [Processes -> Slot] /\ mem'[p].step = "idle" /\ mem'[p].at.glue = 0
      /\ \A q \in Processes : q # p => mem'[q] = mem[q]
  BY EndedAt
<1>2. /\ row' \in RowType
      /\ \A f \in {"digest", "glue", "pdf", "ocr", "ens", "ensEdit", "edit", "figures",
                   "cut", "approved"} : row'[f] = row[f]
      /\ row'.status \in {row.status, "error"}
      /\ \A v \in Works : v # w => row'.attempts[v] = row.attempts[v]
  BY SpentRow, TypeNow
<1>3. SameRow
  BY <1>2 DEF SameRow, SameObjects, SameTexts, SameInputs
<1>4. RowTypeOK'
  BY <1>1, <1>2, TypeNow, TypeThen
<1>5. Lasts
  BY <1>3, LastsSame
<1>6. StampsFit'
  <2>1. row'.status = "done" => row.status = "done"
    BY <1>2
  <2> QED BY <1>3, <1>5, <2>1, FitParts, StampsStay DEF SameRow
<1>7. \A v \in Works : v # w => (Tries(v) => Tries(v)')
  BY <1>2 DEF Tries
<1>8. row'.ocr = row.ocr /\ row'.edit = row.edit
  BY <1>3 DEF SameRow, SameObjects, SameInputs
<1>9. CASE p = "tick" /\ w \in {"glue", "ensemble"}
  <2>1. TriesLast({"pdf"}) /\ TriesLast({"figures"})
    BY <1>7, <1>9 DEF TriesLast, Works
  <2>2. TickFits'
    BY <1>1, <1>9, TickIdle
  <2> QED BY <1>1, <1>2, <1>3, <1>4, <1>5, <1>6, <1>8, <1>9, <2>1, <2>2, Moves DEF GoodStep
<1>10. CASE p = "pdf" /\ w = "pdf"
  <2>1. TriesLast({"glue", "ensemble"}) /\ TriesLast({"figures"})
    BY <1>7, <1>10 DEF TriesLast, Works
  <2>2. PdfFits'
    BY <1>1, <1>10, PdfIdle
  <2> QED BY <1>1, <1>2, <1>3, <1>4, <1>5, <1>6, <1>8, <1>10, <2>1, <2>2, Moves DEF GoodStep
<1>11. CASE p = "cut" /\ w = "figures"
  <2>1. TriesLast({"glue", "ensemble"}) /\ TriesLast({"pdf"})
    BY <1>7, <1>11 DEF TriesLast, Works
  <2>2. CutFits'
    BY <1>1, <1>11, CutIdle
  <2> QED BY <1>1, <1>2, <1>3, <1>4, <1>5, <1>6, <1>8, <1>11, <2>1, <2>2, Moves DEF GoodStep
<1> QED BY <1>9, <1>10, <1>11

\* A process that ends, whatever it was at, and leaves the row and the bucket.
LEMMA QuietEnd ==
  ASSUME OpinionAssumption, RowTypeOK, RowTypeOK', StampedFit, NEW p \in Processes, Ends(p),
         SameRow, TriesLast(Works),
         row'.status = "done" => row.status = "done" \/ OcrWritten,
         bucket'.glues = bucket.glues, bucket'.pdfs = bucket.pdfs
  PROVE  GoodStep
<1>1. /\ mem'[p].step = "idle" /\ mem'[p].at.glue = 0
      /\ \A q \in Processes : q # p => mem'[q] = mem[q]
  BY EndedAt
<1>2. /\ p = "tick" => TickFits'
      /\ p = "pdf" => PdfFits'
      /\ p = "cut" => CutFits'
      /\ p = "op" => OpFits'
      /\ p = "web" => WebFits'
      /\ p = "approval" => ApprovalFits'
  BY <1>1, TickIdle, PdfIdle, CutIdle, OpIdle, WebIdle, ApprovalIdle
<1> QED BY <1>1, <1>2, QuietMoves DEF GoodStep

LEMMA GlueFailsGood == ASSUME OpinionAssumption, RowTypeOK, StampedFit, GlueFails PROVE GoodStep
<1>1. Tries("glue")
  BY FitParts DEF GlueFails, TickFits
<1>2. row' = Spent("glue") /\ Ends("tick") /\ UNCHANGED <<scan, drawn, bucket, kills>>
  BY DEF GlueFails
<1>3. "glue" \in Works
  BY DEF Works
<1> QED BY <1>1, <1>2, <1>3, FailsGood

LEMMA EnsembleReadGood == ASSUME OpinionAssumption, RowTypeOK, StampedFit, EnsembleRead PROVE GoodStep
<1>1. /\ mem' \in [Processes -> Slot] /\ mem'["tick"].step = "build"
      /\ mem'["tick"].at = Kept({"glue", "ocr"})
      /\ \A q \in Processes : q # "tick" => mem'[q] = mem[q]
  BY HeldAt DEF EnsembleRead, Steps
<1>2. UNCHANGED <<scan, drawn, row, bucket, kills>>
  BY DEF EnsembleRead
<1>3. mem'["tick"].at.glue = row.glue
  BY <1>1, KeptFields
<1>4. RowTypeOK'
  BY <1>1, <1>2, TypeNow, TypeThen
<1>5. Tries("ensemble")'
  BY <1>2 DEF EnsembleRead, EnsembleDue, Tries
<1>6. TickFits'
  BY <1>1, <1>5 DEF TickFits, IsAt
<1> QED BY <1>1, <1>2, <1>3, <1>4, <1>6, SameRowSame, QuietMoves DEF GoodStep

LEMMA RerunGood == ASSUME OpinionAssumption, RowTypeOK, StampedFit, Rerun PROVE GoodStep
<1>1. /\ mem' \in [Processes -> Slot] /\ mem'["web"].step = "build"
      /\ mem'["web"].at = Kept({"glue", "ocr"})
      /\ \A q \in Processes : q # "web" => mem'[q] = mem[q]
  BY HeldAt DEF Rerun, Steps
<1>2. UNCHANGED <<scan, drawn, row, bucket, kills>>
  BY DEF Rerun
<1>3. mem'["web"].at.glue = row.glue
  BY <1>1, KeptFields
<1>4. RowTypeOK'
  BY <1>1, <1>2, TypeNow, TypeThen
<1>5. WebFits'
  BY <1>1, WebIdle
<1> QED BY <1>1, <1>2, <1>3, <1>4, <1>5, SameRowSame, QuietMoves DEF GoodStep

LEMMA EditGateGood == ASSUME OpinionAssumption, RowTypeOK, StampedFit, EditGate PROVE GoodStep
<1>1. /\ mem' \in [Processes -> Slot] /\ mem'["web"].step = "edit" /\ mem'["web"].at = Kept({})
      /\ \A q \in Processes : q # "web" => mem'[q] = mem[q]
  BY HeldAt DEF EditGate, Steps
<1>2. UNCHANGED <<scan, drawn, row, bucket, kills>> /\ row.edit < MaxEdit
  BY DEF EditGate
<1>3. mem'["web"].at.glue = 0
  BY <1>1, KeptFields
<1>4. RowTypeOK'
  BY <1>1, <1>2, TypeNow, TypeThen
<1>5. WebFits'
  BY <1>2 DEF WebFits
<1> QED BY <1>1, <1>2, <1>3, <1>4, <1>5, SameRowSame, QuietMoves DEF GoodStep

LEMMA EditGood == ASSUME OpinionAssumption, RowTypeOK, StampedFit, Edit PROVE GoodStep
<1>1. /\ mem' \in [Processes -> Slot] /\ mem'["web"].step = "saved" /\ mem'["web"].at = mem["web"].at
      /\ \A q \in Processes : q # "web" => mem'[q] = mem[q]
  BY EditSlot
<1>2. row.edit < MaxEdit /\ row' = [row EXCEPT !.edit = @ + 1] /\ UNCHANGED <<scan, drawn, bucket, kills>>
  BY FitParts DEF Edit, WebFits
<1>3. /\ row' \in RowType /\ TriesLast(Works)
      /\ SameObjects /\ SameTexts /\ row'.edit = row.edit + 1 /\ row'.status = row.status
  BY <1>2, TypeNow, EditRow
<1>4. RowTypeOK'
  BY <1>1, <1>2, <1>3, TypeNow, TypeThen
<1>5. Lasts
  BY <1>2, <1>3, RowNumbers DEF Lasts, SameObjects, SameTexts, OcrWritten, PdfWritten,
     EnsembleWritten, LiveGlue, LivePdf, NextPdf
<1>6. StampsFit'
  BY <1>3, <1>5, FitParts, StampsStay
<1>7. WebFits' /\ row'.ocr = row.ocr
  BY <1>1, <1>3, WebIdle DEF SameObjects
<1> QED BY <1>1, <1>3, <1>4, <1>5, <1>6, <1>7, TriesParts, Moves DEF GoodStep

LEMMA FreshGood == ASSUME OpinionAssumption, RowTypeOK, StampedFit, Fresh PROVE GoodStep
<1>1. /\ mem' \in [Processes -> Slot] /\ mem'["web"].step = "build" /\ mem'["web"].at.glue = row.glue
      /\ \A q \in Processes : q # "web" => mem'[q] = mem[q]
  BY FreshSlot
<1>2. UNCHANGED <<scan, drawn, row, bucket, kills>>
  BY DEF Fresh
<1>3. RowTypeOK'
  BY <1>1, <1>2, TypeNow, TypeThen
<1>4. WebFits'
  BY <1>1, WebIdle
<1> QED BY <1>1, <1>2, <1>3, <1>4, SameRowSame, QuietMoves DEF GoodStep

LEMMA LoadGood ==
  ASSUME OpinionAssumption, RowTypeOK, StampedFit, NEW p \in Builders, Load(p) PROVE GoodStep
<1>1. /\ mem' \in [Processes -> Slot] /\ mem'[p].step = "loaded"
      /\ mem'[p].at.glue = mem[p].at.glue
      /\ \A q \in Processes : q # p => mem'[q] = mem[q]
  BY LoadSlot
<1>2. UNCHANGED <<scan, drawn, row, bucket, kills>> /\ IsAt(p, "build")
  BY DEF Load
<1>3. RowTypeOK'
  BY <1>1, <1>2, TypeNow, TypeThen
<1>4. CASE p = "tick"
  <2>1. Tries("ensemble")'
    BY <1>2, <1>4, FitParts DEF TickFits, IsAt, Tries
  <2>2. TickFits'
    BY <1>1, <1>4, <2>1 DEF TickFits, IsAt
  <2> QED BY <1>1, <1>2, <1>3, <1>4, <2>2, SameRowSame, QuietMoves DEF GoodStep
<1>5. CASE p = "web"
  <2>1. WebFits'
    BY <1>1, <1>5, WebIdle
  <2> QED BY <1>1, <1>2, <1>3, <1>5, <2>1, SameRowSame, QuietMoves DEF GoodStep
<1> QED BY <1>4, <1>5

LEMMA EnsembleFailsGood ==
  ASSUME OpinionAssumption, RowTypeOK, StampedFit, NEW p \in Builders, EnsembleFails(p) PROVE GoodStep
<1>1. UNCHANGED <<scan, drawn, bucket, kills>> /\ Ends(p)
      /\ row' = IF p = "tick" THEN Spent("ensemble") ELSE row
  BY DEF EnsembleFails
<1>2. CASE p = "tick"
  <2>1. Tries("ensemble") /\ "ensemble" \in Works
    BY <1>2, FitParts DEF EnsembleFails, TickFits, IsAt, Works
  <2> QED BY <1>1, <1>2, <2>1, FailsGood
<1>3. CASE p = "web"
  <2>1. row' = row
    BY <1>1, <1>3
  <2>2. mem' \in [Processes -> Slot]
    BY <1>1, EndedAt
  <2>3. RowTypeOK'
    BY <1>1, <2>1, <2>2, TypeNow, TypeThen
  <2> QED BY <1>1, <2>1, <2>3, SameRowSame, QuietEnd
<1> QED BY <1>2, <1>3

LEMMA UploadText ==
  ASSUME OpinionAssumption, RowTypeOK, NEW p \in Builders, Upload(p)
  PROVE  /\ [of |-> mem[p].of, edits |-> row.edit] \in Text
         /\ <<mem[p].at.glue, mem[p].at.edit>> \in Revs \X Edits
         /\ bucket' \in BucketType
         /\ bucket'.texts = [bucket.texts EXCEPT ![<<mem[p].at.glue, mem[p].at.edit>>] =
                               [of |-> mem[p].of, edits |-> row.edit]]
         /\ bucket'.glues = bucket.glues /\ bucket'.pdfs = bucket.pdfs
<1> DEFINE k == <<mem[p].at.glue, mem[p].at.edit>>
           t == [of |-> mem[p].of, edits |-> row.edit]
<1>1. mem[p].of \in Inputs \cup {None} /\ row.edit \in Edits
  BY MemSlots, TypeNow DEF Slot, RowType
<1>2. t \in Text
  BY <1>1 DEF Text
<1>3. k \in Revs \X Edits
  BY HeldNumbers
<1>4. bucket' = [bucket EXCEPT !.texts[k] = t]
  BY DEF Upload
<1> HIDE DEF k, t
<1>5. /\ bucket' \in BucketType /\ bucket'.texts = [bucket.texts EXCEPT ![k] = t]
      /\ bucket'.glues = bucket.glues /\ bucket'.pdfs = bucket.pdfs
  BY <1>2, <1>3, <1>4, TextBucket
<1> QED BY <1>2, <1>3, <1>5 DEF k, t

LEMMA UploadGood ==
  ASSUME OpinionAssumption, RowTypeOK, StampedFit, NEW p \in Builders, Upload(p) PROVE GoodStep
<1>1. /\ mem' \in [Processes -> Slot] /\ mem'[p].step = "uploaded" /\ mem'[p].at = mem[p].at
      /\ \A q \in Processes : q # p => mem'[q] = mem[q]
  BY UploadSlot
<1>2. UNCHANGED <<scan, drawn, row, kills>>
  BY DEF Upload
<1>3. bucket' \in BucketType /\ bucket'.glues = bucket.glues /\ bucket'.pdfs = bucket.pdfs
  BY UploadText
<1>4. RowTypeOK'
  BY <1>1, <1>2, <1>3, TypeNow, TypeThen
<1>5. (p = "tick" => TickFits') /\ (p = "web" => WebFits')
  BY <1>1, TickIdle, WebIdle
<1> QED BY <1>1, <1>2, <1>3, <1>4, <1>5, SameRowSame, QuietMoves DEF GoodStep

LEMMA EnsembleStampGood ==
  ASSUME OpinionAssumption, RowTypeOK, StampedFit, NEW p \in Builders, EnsembleStamp(p) PROVE GoodStep
<1>1. /\ mem' \in [Processes -> Slot] /\ mem'[p].step \in {"stamped", "lost"}
      /\ mem'[p].at.glue = mem[p].at.glue
      /\ \A q \in Processes : q # p => mem'[q] = mem[q]
  BY StampSlot
<1>2. UNCHANGED <<scan, drawn, bucket, kills>>
  BY DEF EnsembleStamp
<1>3. (p = "tick" => TickFits') /\ (p = "web" => WebFits')
  BY <1>1, TickIdle, WebIdle
<1>4. CASE row' = row
  <2>1. RowTypeOK'
    BY <1>1, <1>2, <1>4, TypeNow, TypeThen
  <2> QED BY <1>1, <1>2, <1>3, <1>4, <2>1, SameRowSame, QuietMoves DEF GoodStep
<1>5. CASE row' = Stamped(p) /\ row.ocr = mem[p].at.ocr
  <2>1. /\ row' \in RowType /\ TriesLast(Works) /\ SameObjects /\ SameInputs
        /\ row'.ens = mem[p].at.ocr
        /\ row'.status = row.status \/ (row.status = "error" /\ row'.status = "processing")
    BY <1>5, StampedRow
  <2>2. RowTypeOK'
    BY <1>1, <1>2, <2>1, TypeNow, TypeThen
  <2>3. Lasts
    BY <1>2, <1>5, <2>1, RowNumbers DEF Lasts, SameObjects, SameInputs, OcrWritten, PdfWritten,
       EnsembleWritten, LiveGlue, LivePdf, NextPdf
  <2>4. StampsFit'
    BY <2>1, <2>3, FitParts, StampsStay
  <2>5. row'.ocr = row.ocr /\ row'.edit = row.edit
    BY <2>1 DEF SameObjects, SameInputs
  <2> QED BY <1>1, <1>3, <2>1, <2>2, <2>3, <2>4, <2>5, TriesParts, Moves DEF GoodStep
<1> QED BY <1>4, <1>5 DEF EnsembleStamp

LEMMA DropSupersededBucket ==
  ASSUME OpinionAssumption, RowTypeOK, NEW p \in Builders, DropSuperseded(p)
  PROVE  /\ bucket' \in BucketType /\ bucket'.glues = bucket.glues /\ bucket'.pdfs = bucket.pdfs
         /\ \A k \in Revs \X Edits : bucket'.texts[k] \in {NoText, bucket.texts[k]}
<1>1. <<mem[p].at.glue, mem[p].at.ensEdit>> \in Revs \X Edits
  BY HeldNumbers
<1>2. bucket' = bucket \/ Deleted(<<mem[p].at.glue, mem[p].at.ensEdit>>)
  BY DEF DropSuperseded
<1>3. CASE bucket' = bucket
  BY <1>3, TypeNow
<1>4. CASE Deleted(<<mem[p].at.glue, mem[p].at.ensEdit>>)
  <2> DEFINE key == <<mem[p].at.glue, mem[p].at.ensEdit>>
  <2>1. key \in Revs \X Edits /\ Deleted(key)
    BY <1>1, <1>4
  <2> HIDE DEF key
  <2> QED BY <2>1, DeletedBucket, TypeNow DEF BucketType
<1> QED BY <1>2, <1>3, <1>4

LEMMA DropUnstampedBucket ==
  ASSUME OpinionAssumption, RowTypeOK, NEW p \in Builders, DropUnstamped(p)
  PROVE  /\ bucket' \in BucketType /\ bucket'.glues = bucket.glues /\ bucket'.pdfs = bucket.pdfs
         /\ \A k \in Revs \X Edits : bucket'.texts[k] \in {NoText, bucket.texts[k]}
<1>1. <<mem[p].at.glue, mem[p].at.edit>> \in Revs \X Edits
  BY HeldNumbers
<1>2. bucket' = bucket \/ Deleted(<<mem[p].at.glue, mem[p].at.edit>>)
  BY DEF DropUnstamped
<1>3. CASE bucket' = bucket
  BY <1>3, TypeNow
<1>4. CASE Deleted(<<mem[p].at.glue, mem[p].at.edit>>)
  <2> DEFINE key == <<mem[p].at.glue, mem[p].at.edit>>
  <2>1. key \in Revs \X Edits /\ Deleted(key)
    BY <1>1, <1>4
  <2> HIDE DEF key
  <2> QED BY <2>1, DeletedBucket, TypeNow DEF BucketType
<1> QED BY <1>2, <1>3, <1>4

LEMMA DropSupersededGood ==
  ASSUME OpinionAssumption, RowTypeOK, StampedFit, NEW p \in Builders, DropSuperseded(p) PROVE GoodStep
<1>1. UNCHANGED <<scan, drawn, row, kills>> /\ Ends(p) /\ p \in Processes
  BY DEF DropSuperseded
<1>2. bucket' \in BucketType /\ bucket'.glues = bucket.glues /\ bucket'.pdfs = bucket.pdfs
  BY DropSupersededBucket
<1>3. mem' \in [Processes -> Slot]
  BY <1>1, EndedAt
<1>4. RowTypeOK'
  BY <1>1, <1>2, <1>3, TypeNow, TypeThen
<1> QED BY <1>1, <1>2, <1>4, SameRowSame, QuietEnd

LEMMA DropUnstampedGood ==
  ASSUME OpinionAssumption, RowTypeOK, StampedFit, NEW p \in Builders, DropUnstamped(p) PROVE GoodStep
<1>1. /\ mem' \in [Processes -> Slot]
      /\ mem'[p].step \in {"saved", "idle"} /\ mem'[p].at.glue = 0
      /\ \A q \in Processes : q # p => mem'[q] = mem[q]
  BY DropSlot
<1>2. UNCHANGED <<scan, drawn, row, kills>>
  BY DEF DropUnstamped
<1>3. bucket' \in BucketType /\ bucket'.glues = bucket.glues /\ bucket'.pdfs = bucket.pdfs
  BY DropUnstampedBucket
<1>4. RowTypeOK'
  BY <1>1, <1>2, <1>3, TypeNow, TypeThen
<1>5. (p = "tick" => TickFits') /\ (p = "web" => WebFits')
  BY <1>1, TickIdle, WebIdle
<1> QED BY <1>1, <1>2, <1>3, <1>4, <1>5, SameRowSame, QuietMoves DEF GoodStep

LEMMA PromoteReadGood == ASSUME OpinionAssumption, RowTypeOK, StampedFit, PromoteRead PROVE GoodStep
<1>1. /\ mem' \in [Processes -> Slot] /\ mem'["tick"].step = "promote"
      /\ mem'["tick"].at = Kept({"glue"})
      /\ \A q \in Processes : q # "tick" => mem'[q] = mem[q]
  BY HeldAt DEF PromoteRead, Steps
<1>2. UNCHANGED <<scan, drawn, row, bucket, kills>> /\ PdfWritten /\ EnsembleWritten
  BY DEF PromoteRead, TextReviewReady
<1>3. mem'["tick"].at.glue = row.glue
  BY <1>1, KeptFields
<1>4. RowTypeOK'
  BY <1>1, <1>2, TypeNow, TypeThen
<1>5. TickFits'
  BY <1>1, <1>2 DEF TickFits, IsAt, PdfWritten, EnsembleWritten, OcrWritten
<1> QED BY <1>1, <1>2, <1>3, <1>4, <1>5, SameRowSame, QuietMoves DEF GoodStep

LEMMA PromoteGood == ASSUME OpinionAssumption, RowTypeOK, StampedFit, Promote PROVE GoodStep
<1>1. UNCHANGED <<scan, drawn, bucket, kills>>
  BY DEF Promote
<1>2. CASE row' = [row EXCEPT !.status = "ready"] /\ Goes("tick", "prune")
  <2>1. /\ mem' \in [Processes -> Slot] /\ mem'["tick"].step = "prune"
        /\ mem'["tick"].at = mem["tick"].at
        /\ \A q \in Processes : q # "tick" => mem'[q] = mem[q]
    BY <1>2, MovedAt DEF Steps
  <2>2. row' \in RowType /\ TriesLast(Works) /\ SameRow /\ row'.status = "ready"
    BY <1>2, TypeNow, StatusRow DEF Statuses
  <2>3. RowTypeOK'
    BY <1>1, <2>1, <2>2, TypeNow, TypeThen
  <2>4. TickFits'
    BY <2>1, TickIdle
  <2> QED BY <1>1, <2>1, <2>2, <2>3, <2>4, QuietMoves DEF GoodStep
<1>3. CASE UNCHANGED row /\ Ends("tick")
  <2>1. mem' \in [Processes -> Slot]
    BY <1>3, EndedAt
  <2>2. RowTypeOK'
    BY <1>1, <1>3, <2>1, TypeNow, TypeThen
  <2> QED BY <1>1, <1>3, <2>2, SameRowSame, QuietEnd
<1> QED BY <1>2, <1>3 DEF Promote

LEMMA PruneGood == ASSUME OpinionAssumption, RowTypeOK, StampedFit, Prune PROVE GoodStep
<1> DEFINE below == mem["tick"].at.glue
<1>1. UNCHANGED <<scan, drawn, row, kills>> /\ Ends("tick") /\ bucket' = Pruned(below)
  BY DEF Prune
<1>2. below \in Revs /\ below <= row.glue
  BY HeldNumbers, FitParts DEF HeldLow
<1>3. /\ mem' \in [Processes -> Slot] /\ mem'["tick"].step = "idle" /\ mem'["tick"].at.glue = 0
      /\ \A q \in Processes : q # "tick" => mem'[q] = mem[q]
  BY <1>1, EndedAt
<1> HIDE DEF below
<1>4. /\ bucket' \in BucketType
      /\ \A r \in Revs : below <= r => bucket'.glues[r] = bucket.glues[r] /\ bucket'.pdfs[r] = bucket.pdfs[r]
  BY <1>1, <1>2, PrunedBucket
<1>5. RowTypeOK'
  BY <1>1, <1>3, <1>4, TypeNow, TypeThen
<1>6. row.glue \in Revs /\ (row.glue < MaxRev => row.glue + 1 \in Revs /\ below <= row.glue + 1)
  BY <1>2, RowNumbers DEF Revs
<1>7. LiveGlue' = LiveGlue /\ LivePdf' = LivePdf /\ (row.glue < MaxRev => NextPdf' = NextPdf)
  BY <1>1, <1>2, <1>4, <1>6 DEF LiveGlue, LivePdf, NextPdf
<1>8. Lasts
  BY <1>1, <1>7, RowNumbers DEF Lasts, OcrWritten, PdfWritten, EnsembleWritten
<1>9. StampsFit'
  BY <1>1, <1>8, FitParts, StampsStay DEF SameObjects
<1>10. TickFits'
  BY <1>3, TickIdle
<1> QED BY <1>1, <1>3, <1>5, <1>8, <1>9, <1>10, SameRowSame, TriesParts, Moves DEF GoodStep

LEMMA DemoteReadGood == ASSUME OpinionAssumption, RowTypeOK, StampedFit, DemoteRead PROVE GoodStep
<1>1. /\ mem' \in [Processes -> Slot] /\ mem'["tick"].step = "demote"
      /\ mem'["tick"].at = Kept({"glue"})
      /\ \A q \in Processes : q # "tick" => mem'[q] = mem[q]
  BY HeldAt DEF DemoteRead, Steps
<1>2. UNCHANGED <<scan, drawn, row, bucket, kills>>
  BY DEF DemoteRead
<1>3. mem'["tick"].at.glue = row.glue
  BY <1>1, KeptFields
<1>4. RowTypeOK'
  BY <1>1, <1>2, TypeNow, TypeThen
<1>5. TickFits'
  BY <1>1, TickIdle
<1> QED BY <1>1, <1>2, <1>3, <1>4, <1>5, SameRowSame, QuietMoves DEF GoodStep

LEMMA DemoteGood == ASSUME OpinionAssumption, RowTypeOK, StampedFit, Demote PROVE GoodStep
<1>1. UNCHANGED <<scan, drawn, bucket, kills>> /\ Ends("tick")
  BY DEF Demote
<1>2. row' \in RowType /\ TriesLast(Works) /\ SameRow /\ (row'.status = "done" => row.status = "done")
  <2>1. CASE row' = [row EXCEPT !.status = "processing"]
    BY <2>1, TypeNow, StatusRow DEF Statuses
  <2>2. CASE row' = row
    BY <2>2, TypeNow, SameRowSame
  <2> QED BY <2>1, <2>2 DEF Demote
<1>3. mem' \in [Processes -> Slot]
  BY <1>1, EndedAt
<1>4. RowTypeOK'
  BY <1>1, <1>2, <1>3, TypeNow, TypeThen
<1> QED BY <1>1, <1>2, <1>4, QuietEnd

LEMMA PdfReadGood == ASSUME OpinionAssumption, RowTypeOK, StampedFit, PdfRead PROVE GoodStep
<1>1. /\ mem' \in [Processes -> Slot] /\ mem'["pdf"].step = "read" /\ mem'["pdf"].at = Kept({"glue"})
      /\ \A q \in Processes : q # "pdf" => mem'[q] = mem[q]
  BY HeldAt DEF PdfRead, Steps
<1>2. UNCHANGED <<scan, drawn, row, bucket, kills>> /\ Tries("pdf")'
  BY DEF PdfRead, PdfDue, Tries
<1>3. mem'["pdf"].at.glue = row.glue
  BY <1>1, KeptFields
<1>4. RowTypeOK'
  BY <1>1, <1>2, TypeNow, TypeThen
<1>5. PdfFits'
  BY <1>1, <1>2 DEF PdfFits, IsAt
<1> QED BY <1>1, <1>2, <1>3, <1>4, <1>5, SameRowSame, QuietMoves DEF GoodStep

LEMMA PdfWriteGood == ASSUME OpinionAssumption, RowTypeOK, StampedFit, PdfWrite PROVE GoodStep
<1> DEFINE r == mem["pdf"].at.glue
<1>1. /\ mem' \in [Processes -> Slot] /\ mem'["pdf"].step = "stored"
      /\ mem'["pdf"].at = mem["pdf"].at
      /\ \A q \in Processes : q # "pdf" => mem'[q] = mem[q]
  BY MovedAt DEF PdfWrite, Steps
<1>2. UNCHANGED <<scan, drawn, row, kills>> /\ bucket' = [bucket EXCEPT !.pdfs[r] = drawn]
  BY DEF PdfWrite
<1>3. r \in Revs /\ drawn \in Inputs \cup {None} /\ drawn # None
  BY HeldNumbers, TypeNow, Bounds
<1> HIDE DEF r
<1>4. /\ bucket' \in BucketType /\ bucket'.pdfs = [bucket.pdfs EXCEPT ![r] = drawn]
      /\ bucket'.glues = bucket.glues
  BY <1>2, <1>3, PdfBucket
<1>5. RowTypeOK'
  BY <1>1, <1>2, <1>4, TypeNow, TypeThen
<1>6. (\A x \in Revs : bucket.pdfs[x] # None => bucket'.pdfs[x] # None) /\ bucket'.pdfs[r] # None
  BY <1>3, <1>4, TypeNow DEF BucketType
<1>7. row.glue \in Revs /\ (row.glue < MaxRev => row.glue + 1 \in Revs)
  BY RowNumbers DEF Revs
<1>8. Lasts
  BY <1>2, <1>4, <1>6, <1>7, RowNumbers DEF Lasts, LiveGlue, LivePdf, NextPdf, OcrWritten, PdfWritten, EnsembleWritten
<1>9. StampsFit'
  BY <1>2, <1>8, FitParts, StampsStay DEF SameObjects
<1>10. PdfFits'
  <2>1. Stands("pdf")' => row.glue = r
    BY <1>1, <1>2 DEF Stands, r
  <2>2. Stands("pdf")' => LivePdf' # None
    BY <1>2, <1>6, <2>1 DEF LivePdf
  <2> QED BY <1>1, <2>2 DEF PdfFits, IsAt
<1> QED BY <1>1, <1>2, <1>5, <1>8, <1>9, <1>10, SameRowSame, TriesParts, Moves DEF GoodStep

LEMMA PdfStampGood == ASSUME OpinionAssumption, RowTypeOK, StampedFit, PdfStamp PROVE GoodStep
<1>1. UNCHANGED <<scan, drawn, bucket, kills>> /\ Ends("pdf") /\ IsAt("pdf", "stored")
  BY DEF PdfStamp
<1>2. /\ mem' \in [Processes -> Slot] /\ mem'["pdf"].step = "idle" /\ mem'["pdf"].at.glue = 0
      /\ \A q \in Processes : q # "pdf" => mem'[q] = mem[q]
  BY <1>1, EndedAt
<1>3. CASE row.glue # mem["pdf"].at.glue
  <2>1. row' = row
    BY <1>3 DEF PdfStamp
  <2>2. RowTypeOK'
    BY <1>1, <1>2, <2>1, TypeNow, TypeThen
  <2> QED BY <1>1, <2>1, <2>2, SameRowSame, QuietEnd
<1>4. CASE row.glue = mem["pdf"].at.glue
  <2>1. row' = [row EXCEPT !.pdf = row.glue, !.attempts["pdf"] = 0]
    BY <1>4 DEF PdfStamp
  <2>2. /\ row' \in RowType /\ TriesLast(Works)
        /\ row'.glue = row.glue /\ row'.pdf = row.glue /\ row'.ocr = row.ocr
        /\ SameTexts /\ SameInputs /\ row'.status = row.status
    BY <2>1, TypeNow, PdfStampRow
  <2>3. LivePdf # None
    BY <1>1, <1>4, FitParts DEF PdfFits, Stands
  <2>4. RowTypeOK'
    BY <1>1, <1>2, <2>2, TypeNow, TypeThen
  <2>5. Lasts
    BY <1>1, <2>2, RowNumbers DEF Lasts, LiveGlue, LivePdf, NextPdf, OcrWritten, PdfWritten,
       EnsembleWritten, SameTexts, SameInputs
  <2>6. StampsFit'
    BY <1>1, <2>2, <2>3, FitParts, RowNumbers DEF StampsFit, OcrWritten, PdfWritten, LiveGlue, LivePdf
  <2>7. PdfFits' /\ row'.edit = row.edit
    BY <1>2, <2>2, PdfIdle DEF SameInputs
  <2> QED BY <1>2, <2>2, <2>4, <2>5, <2>6, <2>7, TriesParts, Moves DEF GoodStep
<1> QED BY <1>3, <1>4

LEMMA PdfFailsGood == ASSUME OpinionAssumption, RowTypeOK, StampedFit, PdfFails PROVE GoodStep
<1>1. UNCHANGED <<scan, drawn, bucket, kills>> /\ Ends("pdf") /\ Tries("pdf") /\ "pdf" \in Works
  BY FitParts DEF PdfFails, PdfFits, Works
<1>2. CASE row' = Spent("pdf")
  BY <1>1, <1>2, FailsGood
<1>3. CASE row' = row
  <2>1. mem' \in [Processes -> Slot]
    BY <1>1, EndedAt
  <2>2. RowTypeOK'
    BY <1>1, <1>3, <2>1, TypeNow, TypeThen
  <2> QED BY <1>1, <1>3, <2>2, SameRowSame, QuietEnd
<1> QED BY <1>2, <1>3 DEF PdfFails

LEMMA CutReadGood == ASSUME OpinionAssumption, RowTypeOK, StampedFit, CutRead PROVE GoodStep
<1>1. /\ mem' \in [Processes -> Slot] /\ mem'["cut"].step = "read"
      /\ mem'["cut"].at = Kept({"glue", "ens", "ensEdit", "figures"})
      /\ \A q \in Processes : q # "cut" => mem'[q] = mem[q]
  BY HeldAt DEF CutRead, Steps
<1>2. UNCHANGED <<scan, drawn, row, bucket, kills>> /\ Tries("figures")'
  BY DEF CutRead, FiguresDue, Tries
<1>3. mem'["cut"].at.glue = row.glue
  BY <1>1, KeptFields
<1>4. RowTypeOK'
  BY <1>1, <1>2, TypeNow, TypeThen
<1>5. CutFits'
  BY <1>2 DEF CutFits
<1> QED BY <1>1, <1>2, <1>3, <1>4, <1>5, SameRowSame, QuietMoves DEF GoodStep

LEMMA CutLookGood == ASSUME OpinionAssumption, RowTypeOK, StampedFit, CutLook PROVE GoodStep
<1>1. UNCHANGED <<scan, drawn, bucket, kills>> /\ IsAt("cut", "read")
  BY DEF CutLook
<1>2. CASE Goes("cut", "cutting") /\ UNCHANGED row
  <2>1. /\ mem' \in [Processes -> Slot] /\ mem'["cut"].step = "cutting"
        /\ mem'["cut"].at = mem["cut"].at
        /\ \A q \in Processes : q # "cut" => mem'[q] = mem[q]
    BY <1>2, MovedAt DEF Steps
  <2>2. RowTypeOK'
    BY <1>1, <1>2, <2>1, TypeNow, TypeThen
  <2>3. Tries("figures")'
    BY <1>1, <1>2, FitParts DEF CutFits, IsAt, Tries
  <2>4. CutFits'
    BY <2>3 DEF CutFits
  <2> QED BY <1>1, <1>2, <2>1, <2>2, <2>4, SameRowSame, QuietMoves DEF GoodStep
<1>3. CASE Ends("cut") /\ (row' = row \/ row' = [row EXCEPT !.figures = drawn, !.attempts["figures"] = 0])
  <2>1. row' \in RowType /\ TriesLast(Works) /\ SameRow /\ row'.status = row.status
    <3>1. CASE row' = row
      BY <3>1, TypeNow, SameRowSame
    <3>2. CASE row' = [row EXCEPT !.figures = drawn, !.attempts["figures"] = 0]
      BY <3>2, TypeNow, CutStampRow
    <3> QED BY <1>3, <3>1, <3>2
  <2>2. mem' \in [Processes -> Slot]
    BY <1>3, EndedAt
  <2>3. RowTypeOK'
    BY <1>1, <2>1, <2>2, TypeNow, TypeThen
  <2> QED BY <1>1, <1>3, <2>1, <2>3, QuietEnd
<1> QED BY <1>2, <1>3 DEF CutLook

LEMMA CutWriteGood == ASSUME OpinionAssumption, RowTypeOK, StampedFit, CutWrite PROVE GoodStep
<1>1. /\ mem' \in [Processes -> Slot] /\ mem'["cut"].step = "stored"
      /\ mem'["cut"].at = mem["cut"].at
      /\ \A q \in Processes : q # "cut" => mem'[q] = mem[q]
  BY MovedAt DEF CutWrite, Steps
<1>2. UNCHANGED <<scan, drawn, row, kills>> /\ bucket' = [bucket EXCEPT !.picture = drawn]
  BY DEF CutWrite
<1>3. bucket' \in BucketType /\ bucket'.glues = bucket.glues /\ bucket'.pdfs = bucket.pdfs
  BY <1>2, TypeNow, PictureBucket
<1>4. RowTypeOK'
  BY <1>1, <1>2, <1>3, TypeNow, TypeThen
<1>5. CutFits'
  BY <1>1, CutIdle
<1> QED BY <1>1, <1>2, <1>3, <1>4, <1>5, SameRowSame, QuietMoves DEF GoodStep

LEMMA CutStampGood == ASSUME OpinionAssumption, RowTypeOK, StampedFit, CutStamp PROVE GoodStep
<1>1. UNCHANGED <<scan, drawn, bucket, kills>> /\ Ends("cut")
  BY DEF CutStamp
<1>2. row' \in RowType /\ TriesLast(Works) /\ SameRow /\ row'.status = row.status
  <2>1. CASE row' = row
    BY <2>1, TypeNow, SameRowSame
  <2>2. CASE row' = [row EXCEPT !.cut = row.figures, !.attempts["figures"] = 0]
    <3>1. row.figures \in Inputs \cup {None}
      BY TypeNow DEF RowType
    <3> QED BY <2>2, <3>1, TypeNow, CutStampRow
  <2> QED BY <2>1, <2>2 DEF CutStamp
<1>3. mem' \in [Processes -> Slot]
  BY <1>1, EndedAt
<1>4. RowTypeOK'
  BY <1>1, <1>2, <1>3, TypeNow, TypeThen
<1> QED BY <1>1, <1>2, <1>4, QuietEnd

LEMMA CutFailsGood == ASSUME OpinionAssumption, RowTypeOK, StampedFit, CutFails PROVE GoodStep
<1>1. UNCHANGED <<scan, drawn, bucket, kills>> /\ Ends("cut") /\ Tries("figures") /\ "figures" \in Works
  BY FitParts DEF CutFails, CutFits, Works, IsAt
<1>2. CASE row' = Spent("figures")
  BY <1>1, <1>2, FailsGood
<1>3. CASE row' = row
  <2>1. mem' \in [Processes -> Slot]
    BY <1>1, EndedAt
  <2>2. RowTypeOK'
    BY <1>1, <1>3, <2>1, TypeNow, TypeThen
  <2> QED BY <1>1, <1>3, <2>2, SameRowSame, QuietEnd
<1> QED BY <1>2, <1>3 DEF CutFails

LEMMA ReglueReadGood == ASSUME OpinionAssumption, RowTypeOK, StampedFit, ReglueRead PROVE GoodStep
<1>1. /\ mem' \in [Processes -> Slot] /\ mem'["op"].step = "read"
      /\ mem'["op"].at = Kept({"glue", "pdf"})
      /\ \A q \in Processes : q # "op" => mem'[q] = mem[q]
  BY HeldAt DEF ReglueRead, Steps
<1>2. UNCHANGED <<scan, drawn, row, bucket, kills>> /\ row.glue < MaxRev
  BY DEF ReglueRead
<1>3. mem'["op"].at.glue = row.glue
  BY <1>1, KeptFields
<1>4. RowTypeOK'
  BY <1>1, <1>2, TypeNow, TypeThen
<1>5. OpFits'
  BY <1>1, <1>2, <1>3 DEF OpFits, IsAt
<1> QED BY <1>1, <1>2, <1>3, <1>4, <1>5, SameRowSame, QuietMoves DEF GoodStep

LEMMA ReglueCopyGood == ASSUME OpinionAssumption, RowTypeOK, StampedFit, ReglueCopy PROVE GoodStep
<1> DEFINE r == mem["op"].at.glue
<1>1. UNCHANGED <<scan, drawn, row, kills>> /\ IsAt("op", "read")
  BY DEF ReglueCopy
<1>2. r \in Revs /\ r \in Nat /\ r < MaxRev
  BY <1>1, HeldNumbers, FitParts DEF OpFits, IsAt
<1>3. r + 1 \in Revs
  BY <1>2, RowNumbers DEF Revs
<1>4. CASE Goes("op", "bare") /\ UNCHANGED bucket
  <2>1. /\ mem' \in [Processes -> Slot] /\ mem'["op"].step = "bare"
        /\ mem'["op"].at = mem["op"].at
        /\ \A q \in Processes : q # "op" => mem'[q] = mem[q]
    BY <1>4, MovedAt DEF Steps
  <2>2. RowTypeOK'
    BY <1>1, <1>4, <2>1, TypeNow, TypeThen
  <2>3. OpFits'
    BY <1>2, <2>1 DEF OpFits, IsAt
  <2> QED BY <1>1, <1>4, <2>1, <2>2, <2>3, SameRowSame, QuietMoves DEF GoodStep
<1>5. CASE /\ bucket.pdfs[r] # None /\ bucket' = [bucket EXCEPT !.pdfs[r + 1] = bucket.pdfs[r]]
           /\ Goes("op", "carried")
  <2> DEFINE o == bucket.pdfs[r]
             n == r + 1
  <2>1. /\ mem' \in [Processes -> Slot] /\ mem'["op"].step = "carried"
        /\ mem'["op"].at = mem["op"].at
        /\ \A q \in Processes : q # "op" => mem'[q] = mem[q]
    BY <1>5, MovedAt DEF Steps
  <2>2. o \in Inputs \cup {None} /\ o # None
    BY <1>2, <1>5, TypeNow DEF BucketType
  <2>3. n \in Revs /\ bucket' = [bucket EXCEPT !.pdfs[n] = o]
    BY <1>3, <1>5
  <2> HIDE DEF o, n
  <2>4. /\ bucket' \in BucketType /\ bucket'.pdfs = [bucket.pdfs EXCEPT ![n] = o]
        /\ bucket'.glues = bucket.glues
    BY <2>2, <2>3, PdfBucket
  <2>5. RowTypeOK'
    BY <1>1, <2>1, <2>4, TypeNow, TypeThen
  <2>6. (\A x \in Revs : bucket.pdfs[x] # None => bucket'.pdfs[x] # None) /\ bucket'.pdfs[n] # None
    BY <2>2, <2>3, <2>4, TypeNow DEF BucketType
  <2>7. row.glue \in Revs /\ (row.glue < MaxRev => row.glue + 1 \in Revs)
    BY RowNumbers DEF Revs
  <2>8. Lasts
    BY <1>1, <2>4, <2>6, <2>7, RowNumbers DEF Lasts, LiveGlue, LivePdf, NextPdf, OcrWritten, PdfWritten, EnsembleWritten
  <2>9. StampsFit'
    BY <1>1, <2>8, FitParts, StampsStay DEF SameObjects
  <2>10. OpFits'
    <3>1. Stands("op")' => row'.glue + 1 = n
      BY <1>1, <2>1 DEF Stands, n
    <3>2. mem'["op"].at.glue < MaxRev
      BY <1>2, <2>1
    <3> QED BY <2>1, <2>6, <3>1, <3>2 DEF OpFits, IsAt
  <2> QED BY <1>1, <2>1, <2>5, <2>8, <2>9, <2>10, SameRowSame, TriesParts, Moves DEF GoodStep
<1> QED BY <1>4, <1>5 DEF ReglueCopy

LEMMA ReglueSwapGood == ASSUME OpinionAssumption, RowTypeOK, StampedFit, ReglueSwap PROVE GoodStep
<1>1. UNCHANGED <<scan, drawn, bucket, kills>> /\ Ends("op") /\ mem["op"].step \in {"carried", "bare"}
  BY DEF ReglueSwap
<1>2. /\ mem' \in [Processes -> Slot] /\ mem'["op"].step = "idle" /\ mem'["op"].at.glue = 0
      /\ \A q \in Processes : q # "op" => mem'[q] = mem[q]
  BY <1>1, EndedAt
<1>3. CASE row.glue # mem["op"].at.glue \/ row.status = "done"
  <2>1. row' = row
    BY <1>3 DEF ReglueSwap
  <2>2. RowTypeOK'
    BY <1>1, <1>2, <2>1, TypeNow, TypeThen
  <2> QED BY <1>1, <2>1, <2>2, SameRowSame, QuietEnd
<1>4. CASE row.glue = mem["op"].at.glue /\ row.status # "done"
  <2>1. row.glue < MaxRev
    BY <1>1, <1>4, FitParts DEF OpFits
  <2>2. \/ row' = Raised
        \/ IsAt("op", "carried") /\ row' = [Raised EXCEPT !.pdf = row.glue + 1, !.attempts["pdf"] = 0]
    BY <1>1, <1>4 DEF ReglueSwap, IsAt
  <2>3. /\ row' \in RowType /\ TriesLast(Works)
        /\ row'.glue = row.glue + 1 /\ row'.ocr = row.ocr
        /\ row' = Raised => row'.pdf = row.pdf
        /\ row'.pdf = row.pdf \/ row'.pdf = row.glue + 1
        /\ SameTexts /\ SameInputs /\ row'.status = row.status
    BY <2>1, <2>2, TypeNow, RaisedRow
  <2>4. IsAt("op", "carried") => NextPdf # None
    BY <1>4, FitParts DEF OpFits, Stands, NextPdf
  <2>5. RowTypeOK'
    BY <1>1, <1>2, <2>3, TypeNow, TypeThen
  <2>6. Lasts
    BY <1>1, <2>3, RowNumbers DEF Lasts, SameInputs
  <2>7. StampsFit'
    <3>1. row.ocr <= row.glue /\ row.pdf <= row.glue
      BY FitParts DEF StampsFit
    <3>2. ~OcrWritten' /\ row'.ocr <= row'.glue /\ row'.pdf <= row'.glue /\ row'.status # "done"
      BY <1>4, <2>3, <3>1, RowNumbers DEF OcrWritten
    <3>3. PdfWritten' => LivePdf' # None
      <4>1. PdfWritten' => IsAt("op", "carried")
        BY <2>2, <2>3, <3>1, RowNumbers DEF PdfWritten
      <4> QED BY <1>1, <2>3, <2>4, <4>1 DEF LivePdf, NextPdf
    <3> QED BY <3>2, <3>3 DEF StampsFit
  <2>8. OpFits' /\ row'.edit = row.edit
    BY <1>2, <2>3, OpIdle DEF SameInputs
  <2> QED BY <1>2, <2>3, <2>5, <2>6, <2>7, <2>8, TriesParts, Moves DEF GoodStep
<1> QED BY <1>3, <1>4

\* A step of the review, of staff or of the command over an approved text:
\* nobody's slot moves.
LEMMA StillGood ==
  ASSUME OpinionAssumption, RowTypeOK, RowTypeOK', StampedFit, UNCHANGED <<bucket, mem>>, SameRow,
         TriesLast(Works), row'.status = "done" => row.status = "done"
  PROVE  GoodStep
<1>1. WebFits'
  BY FitParts, WebStays DEF SameRow, SameInputs
<1> QED BY <1>1, QuietMoves DEF GoodStep

LEMMA ReopenGood == ASSUME OpinionAssumption, RowTypeOK, StampedFit, Reopen PROVE GoodStep
<1>1. RowTypeOK'
  BY DEF Reopen, RowTypeOK
<1>2. UNCHANGED <<bucket, mem, row>>
  BY DEF Reopen
<1> QED BY <1>1, <1>2, SameRowSame, StillGood

LEMMA DrawGood == ASSUME OpinionAssumption, RowTypeOK, StampedFit, Draw PROVE GoodStep
<1>1. RowTypeOK'
  BY DEF Draw, RowTypeOK
<1>2. UNCHANGED <<bucket, mem, row>>
  BY DEF Draw
<1> QED BY <1>1, <1>2, SameRowSame, StillGood

LEMMA ApproveReviewGood ==
  ASSUME OpinionAssumption, RowTypeOK, StampedFit, ApproveReview PROVE GoodStep
<1>1. RowTypeOK'
  BY DEF ApproveReview, RowTypeOK
<1>2. UNCHANGED <<bucket, mem, row>>
  BY DEF ApproveReview
<1> QED BY <1>1, <1>2, SameRowSame, StillGood

LEMMA ParkGood == ASSUME OpinionAssumption, RowTypeOK, StampedFit, Park PROVE GoodStep
<1>1. RowTypeOK'
  BY DEF Park, RowTypeOK
<1>2. UNCHANGED <<bucket, mem, row>>
  BY DEF Park
<1> QED BY <1>1, <1>2, SameRowSame, StillGood

LEMMA CreateRowsGood == ASSUME OpinionAssumption, RowTypeOK, StampedFit, CreateRows PROVE GoodStep
<1>1. UNCHANGED <<drawn, bucket, mem, kills>> /\ scan' = "created"
  BY DEF CreateRows
<1>2. CASE row' = row
  <2>1. RowTypeOK'
    BY <1>1, <1>2 DEF RowTypeOK
  <2> QED BY <1>1, <1>2, <2>1, SameRowSame, StillGood
<1>3. CASE row' # row
  <2>1. /\ row' \in RowType /\ TriesLast(Works)
        /\ row'.status # "done"
        /\ row.glue < MaxRev /\ row'.glue = row.glue + 1 /\ row'.ocr = row.ocr /\ row'.pdf = row.pdf
        /\ SameTexts /\ row'.edit = row.edit
    BY <1>3, CreatedRow
  <2>2. RowTypeOK'
    BY <1>1, <2>1 DEF RowTypeOK, RowType
  <2>3. Lasts
    BY <1>1, <2>1, RowNumbers DEF Lasts
  <2>4. StampsFit'
    <3>1. row.ocr <= row.glue /\ row.pdf <= row.glue
      BY FitParts DEF StampsFit
    <3>2. ~OcrWritten' /\ ~PdfWritten' /\ row'.ocr <= row'.glue /\ row'.pdf <= row'.glue
      BY <2>1, <3>1, RowNumbers DEF OcrWritten, PdfWritten
    <3> QED BY <2>1, <3>2 DEF StampsFit
  <2>5. WebFits'
    BY <1>1, <2>1, FitParts, WebStays
  <2> QED BY <1>1, <2>1, <2>2, <2>3, <2>4, <2>5, TriesParts, Moves DEF GoodStep
<1> QED BY <1>2, <1>3

LEMMA ApproveGateGood == ASSUME OpinionAssumption, RowTypeOK, StampedFit, ApproveGate PROVE GoodStep
<1> DEFINE at == Kept({"glue", "edit", "ens", "ensEdit"})
<1>1. /\ mem' \in [Processes -> Slot] /\ mem'["approval"].step = "gated"
      /\ mem'["approval"].at = at
      /\ \A q \in Processes : q # "approval" => mem'[q] = mem[q]
  BY HeldAt DEF ApproveGate, Steps
<1>2. UNCHANGED <<scan, drawn, row, bucket, kills>> /\ EnsembleWritten /\ row.edit = row.ensEdit
  BY DEF ApproveGate
<1>3. /\ at.glue = row.glue /\ at.edit = row.edit /\ at.ens = row.ens
      /\ at.ensEdit = row.ensEdit
  BY KeptFields
<1> HIDE DEF at
<1>4. RowTypeOK'
  BY <1>1, <1>2, TypeNow, TypeThen
<1>5. ApprovalFits'
  BY <1>1, <1>2, <1>3, RowNumbers DEF ApprovalFits, EnsembleWritten, OcrWritten
<1> QED BY <1>1, <1>2, <1>3, <1>4, <1>5, SameRowSame, QuietMoves DEF GoodStep

LEMMA ApproveRenderGood == ASSUME OpinionAssumption, RowTypeOK, StampedFit, ApproveRender PROVE GoodStep
<1>1. /\ mem' \in [Processes -> Slot]
      /\ \/ mem'["approval"] = Idle
         \/ mem'["approval"].step = "rendered" /\ mem'["approval"].at = mem["approval"].at
      /\ \A q \in Processes : q # "approval" => mem'[q] = mem[q]
  BY RenderSlot
<1>2. UNCHANGED <<scan, drawn, row, bucket, kills>> /\ IsAt("approval", "gated")
  BY DEF ApproveRender
<1>3. RowTypeOK'
  BY <1>1, <1>2, TypeNow, TypeThen
<1>4. CASE mem'["approval"] = Idle
  <2>1. Idle.step = "idle" /\ Idle.at.glue = 0
    BY DEF Idle, NoStamps
  <2> QED BY <1>1, <1>2, <1>3, <1>4, <2>1, ApprovalIdle, SameRowSame, QuietMoves DEF GoodStep
<1>5. CASE mem'["approval"].step = "rendered" /\ mem'["approval"].at = mem["approval"].at
  <2>1. ApprovalFits'
    BY <1>2, <1>5, FitParts DEF ApprovalFits, IsAt, Stands, OcrWritten
  <2> QED BY <1>1, <1>2, <1>3, <1>5, <2>1, SameRowSame, QuietMoves DEF GoodStep
<1> QED BY <1>1, <1>4, <1>5

\* What the swap of an approval writes, if it writes.
Approval == [of |-> mem["approval"].of, edits |-> mem["approval"].edits,
             picture |-> mem["approval"].picture]

LEMMA ApproveRow ==
  ASSUME OpinionAssumption, RowTypeOK, StampedFit, Approve
  PROVE  /\ row' \in RowType /\ TriesLast(Works) /\ SameRow
         /\ \/ row' = row
            \/ /\ row.status = "ready" /\ row'.status = "done" /\ row'.approved = Approval
               /\ Stands("approval") /\ row.edit = mem["approval"].at.edit
               /\ row.ens = row.glue /\ OcrWritten
<1> DEFINE at == mem["approval"].at
<1>1. CASE row' = row
  BY <1>1, TypeNow, SameRowSame
<1>2. CASE /\ row.status = "ready"
           /\ row.glue = at.glue /\ row.edit = at.edit /\ row.ens = at.ens
           /\ row' = [row EXCEPT !.status = "done", !.approved = Approval]
  <2>1. Approval \in Approved /\ "done" \in Statuses
    BY MemSlots DEF Approval, Approved, Slot, Statuses
  <2>2. row' \in RowType /\ TriesLast(Works) /\ SameRow /\ row'.status = "done" /\ row'.approved = Approval
    BY <1>2, <2>1, TypeNow, ApprovedRow
  <2>3. Stands("approval") /\ IsAt("approval", "rendered")
    BY <1>2 DEF Stands, Approve
  <2>4. at.ens = at.glue /\ OcrWritten
    BY <2>3, FitParts DEF ApprovalFits, IsAt
  <2> QED BY <1>2, <2>2, <2>3, <2>4
<1> QED BY <1>1, <1>2 DEF Approve, Approval

LEMMA ApproveGood == ASSUME OpinionAssumption, RowTypeOK, StampedFit, Approve PROVE GoodStep
<1>1. UNCHANGED <<scan, drawn, bucket, kills>> /\ Ends("approval")
  BY DEF Approve
<1>2. /\ row' \in RowType /\ TriesLast(Works) /\ SameRow
      /\ row'.status = "done" => row.status = "done" \/ OcrWritten
  BY ApproveRow
<1>3. mem' \in [Processes -> Slot]
  BY <1>1, EndedAt
<1>4. RowTypeOK'
  BY <1>1, <1>2, <1>3, TypeNow, TypeThen
<1> QED BY <1>1, <1>2, <1>4, QuietEnd

LEMMA ReopenTextGood == ASSUME OpinionAssumption, RowTypeOK, StampedFit, ReopenText PROVE GoodStep
<1>1. UNCHANGED <<scan, drawn, bucket, mem, kills>> /\ row' = [row EXCEPT !.status = "ready"]
  BY DEF ReopenText
<1>2. row' \in RowType /\ TriesLast(Works) /\ SameRow /\ row'.status = "ready"
  BY <1>1, TypeNow, StatusRow DEF Statuses
<1>3. RowTypeOK'
  BY <1>1, <1>2, TypeNow, TypeThen
<1> QED BY <1>1, <1>2, <1>3, StillGood

LEMMA RewriteRow ==
  ASSUME OpinionAssumption, RowTypeOK, Rewrite
  PROVE  row' \in RowType /\ TriesLast(Works) /\ SameRow /\ row'.status = row.status
<1> DEFINE text == bucket.texts[<<row.glue, row.ensEdit>>]
           a == [of |-> text.of, edits |-> text.edits, picture |-> bucket.picture]
<1>1. row.ensEdit \in Edits /\ row.status \in Statuses
  BY TypeNow DEF RowType
<1>2. <<row.glue, row.ensEdit>> \in Revs \X Edits
  BY <1>1, RowNumbers
<1>3. text \in Text /\ bucket.picture \in Inputs \cup {None}
  BY <1>2, TypeNow DEF BucketType
<1>4. a \in Approved
  <2> HIDE DEF text
  <2> QED BY <1>3 DEF Text, Approved
<1>5. row' = [row EXCEPT !.approved = a]
  BY DEF Rewrite
<1> HIDE DEF a
<1>6. row' = [row EXCEPT !.status = row.status, !.approved = a]
  BY <1>5, TypeNow DEF RowType
<1> QED BY <1>1, <1>4, <1>6, TypeNow, ApprovedRow

LEMMA RewriteGood == ASSUME OpinionAssumption, RowTypeOK, StampedFit, Rewrite PROVE GoodStep
<1>1. UNCHANGED <<scan, drawn, bucket, mem, kills>>
  BY DEF Rewrite
<1>2. row' \in RowType /\ TriesLast(Works) /\ SameRow /\ row'.status = row.status
  BY RewriteRow
<1>3. RowTypeOK'
  BY <1>1, <1>2, TypeNow, TypeThen
<1> QED BY <1>1, <1>2, <1>3, StillGood

LEMMA DieGood ==
  ASSUME OpinionAssumption, RowTypeOK, StampedFit, NEW p \in Processes, Die(p) PROVE GoodStep
<1>1. UNCHANGED <<scan, drawn, row, bucket>> /\ Ends(p) /\ kills' = kills + 1 /\ kills < MaxKills
  BY DEF Die
<1>2. mem' \in [Processes -> Slot]
  BY <1>1, EndedAt
<1>3. kills' \in 0..MaxKills
  BY <1>1 DEF RowTypeOK, OpinionAssumption
<1>4. RowTypeOK'
  BY <1>1, <1>2, <1>3 DEF RowTypeOK
<1> QED BY <1>1, <1>4, SameRowSame, QuietEnd

LEMMA StutterGood ==
  ASSUME OpinionAssumption, RowTypeOK, StampedFit, UNCHANGED rowVars PROVE GoodStep
<1>1. RowTypeOK'
  BY DEF rowVars, RowTypeOK
<1> QED BY <1>1, SameRowSame, StillGood DEF rowVars

-----------------------------------------------------------------------------
(* Every step, and every behaviour.                                        *)

\* The documents of the volume come and go beside the rows.
LEMMA RowsStep == [Next]_vars => [RowNext]_rowVars
BY DEF Next, EnginesMove, vars

LEMMA BuildsGood ==
  ASSUME OpinionAssumption, RowTypeOK, StampedFit, NEW p \in Builders, Builds(p) PROVE GoodStep
BY LoadGood, EnsembleFailsGood, UploadGood, EnsembleStampGood, DropSupersededGood,
   DropUnstampedGood DEF Builds

LEMMA StepGood ==
  ASSUME OpinionAssumption, RowTypeOK, StampedFit, [RowNext]_rowVars
  PROVE  GoodStep
<1>1. CASE TickNext
  <2>1. CASE GlueNext
    BY <2>1, GlueLoadGood, GlueReadGood, GlueWriteGood, GlueStampGood, GlueFailsGood DEF GlueNext
  <2>2. CASE EnsembleRead
    BY <2>2, EnsembleReadGood
  <2>3. CASE Builds("tick")
    BY <2>3, BuildsGood
  <2>4. CASE PromoteNext
    BY <2>4, PromoteReadGood, PromoteGood, PruneGood, DemoteReadGood, DemoteGood DEF PromoteNext
  <2> QED BY <1>1, <2>1, <2>2, <2>3, <2>4 DEF TickNext
<1>2. CASE PdfNext
  BY <1>2, PdfReadGood, PdfWriteGood, PdfStampGood, PdfFailsGood DEF PdfNext
<1>3. CASE CutNext
  BY <1>3, CutReadGood, CutLookGood, CutWriteGood, CutStampGood, CutFailsGood DEF CutNext
<1>4. CASE EditNext
  BY <1>4, RerunGood, EditGateGood, EditGood, FreshGood DEF EditNext
<1>5. CASE Builds("web")
  BY <1>5, BuildsGood
<1>6. CASE ReglueNext
  BY <1>6, ReglueReadGood, ReglueCopyGood, ReglueSwapGood DEF ReglueNext
<1>7. CASE ReviewNext
  BY <1>7, ReopenGood, DrawGood, ApproveReviewGood, CreateRowsGood, ParkGood DEF ReviewNext
<1>8. CASE ApprovalNext
  BY <1>8, ApproveGateGood, ApproveRenderGood, ApproveGood, ReopenTextGood, RewriteGood
     DEF ApprovalNext
<1>9. CASE \E p \in Processes : Die(p)
  BY <1>9, DieGood
<1>10. CASE UNCHANGED rowVars
  BY <1>10, StutterGood
<1> QED BY <1>1, <1>2, <1>3, <1>4, <1>5, <1>6, <1>7, <1>8, <1>9, <1>10 DEF RowNext

LEMMA InitGood == ASSUME OpinionAssumption, Init PROVE RowTypeOK /\ StampedFit
<1>1. mem = [p \in Processes |-> Idle] /\ Idle \in Slot
  BY IdleSlot DEF Init
<1>2. \A p \in Processes : mem[p].step = "idle" /\ mem[p].at.glue = 0
  BY <1>1 DEF Idle, NoStamps
<1>3. row \in RowType
  <2>1. NoApproval \in Approved
    BY DEF NoApproval, Approved
  <2>2. [w \in Works |-> 0] \in [Works -> 0..MaxAttempts]
    BY Bounds
  <2>3. Original \in Inputs /\ 0 \in Revs /\ 0 \in Edits /\ "processing" \in Statuses
    BY Bounds DEF OpinionAssumption, Statuses
  <2> DEFINE a == [w \in Works |-> 0]
             v == NoApproval
  <2>4. row = [status |-> "processing", message |-> None, digest |-> Original,
               glue |-> 0, pdf |-> NoRev, ocr |-> NoRev, ens |-> NoRev,
               ensEdit |-> 0, edit |-> 0, enough |-> FALSE, figures |-> None,
               cut |-> None, attempts |-> a, approved |-> v]
    BY DEF Init
  <2>5. a \in [Works -> 0..MaxAttempts] /\ v \in Approved
    BY <2>1, <2>2
  <2> HIDE DEF a, v
  <2> QED BY <2>3, <2>4, <2>5 DEF RowType
<1>4. bucket \in BucketType
  BY NoTextText DEF Init, BucketType
<1>5. scan = "done" /\ drawn \in Inputs /\ kills \in 0..MaxKills
  BY DEF Init, OpinionAssumption
<1>6. RowTypeOK
  BY <1>1, <1>3, <1>4, <1>5 DEF RowTypeOK, RowType, BucketType
<1>7. row.glue = 0 /\ row.ocr = NoRev /\ row.pdf = NoRev /\ row.status = "processing"
  BY DEF Init
<1>8. StampsFit
  BY <1>7 DEF StampsFit, OcrWritten, PdfWritten, NoRev
<1>9. TickFits /\ PdfFits /\ CutFits /\ OpFits /\ WebFits /\ ApprovalFits
  BY <1>2 DEF TickFits, PdfFits, CutFits, OpFits, WebFits, ApprovalFits, IsAt
<1>10. \A p \in Processes : mem[p].at.glue <= row.glue
  BY <1>2, <1>7
<1> QED BY <1>6, <1>8, <1>9, <1>10 DEF StampedFit

\* The types, and what the stamps and the processes say, of every state.
THEOREM StampsAlwaysFit == Spec => [](TypeOK /\ StampedFit)
<1>1. Init => TypeOK /\ StampedFit
  BY OpinionAssumption, InitGood DEF Init, TypeOK, Volumes
<1>2. RowTypeOK /\ StampedFit /\ [RowNext]_rowVars => (RowTypeOK /\ StampedFit)'
  BY OpinionAssumption, StepGood DEF GoodStep
<1>3. volume \in Volumes /\ [Next]_vars => (volume \in Volumes)'
  BY DEF Next, EnginesMove, vars
<1>4. TypeOK <=> RowTypeOK /\ volume \in Volumes
  BY DEF TypeOK
<1> QED BY <1>1, <1>2, <1>3, <1>4, RowsStep, PTL DEF Spec

\* The objects the stamps name exist, whatever glues, cuts, prunes, carries and
\* kills a behaviour has (opinions.prune_glues, _reglue_row).
THEOREM StampedAlwaysExist == Spec => []StampedObjectsExist
<1>1. StampedFit => StampedObjectsExist
  BY DEF StampedFit, StampsFit, StampedObjectsExist, LiveGlue, LivePdf
<1> QED BY <1>1, StampsAlwaysFit, PTL

-----------------------------------------------------------------------------
(* What a step may do to the status, the revision and the live glue.       *)

Promotes == row.status = "processing" /\ row'.status = "ready"
Approves == row.status # "done" /\ row'.status = "done"
Keeps    == row.status = "done" /\ row'.status = "done" =>
              row'.glue = row.glue /\ row'.digest = row.digest

LEMMA SameStatus ==
  ASSUME SameRow, row'.status \in {row.status, "error"} PROVE ~Promotes /\ ~Approves /\ Keeps
BY DEF Promotes, Approves, Keeps, SameRow, SameObjects, SameInputs

LEMMA SpentStatus ==
  ASSUME OpinionAssumption, RowTypeOK, NEW w \in Works, Tries(w), row' = Spent(w)
  PROVE  ~Promotes /\ ~Approves /\ Keeps
<1>1. /\ \A f \in {"digest", "glue", "pdf", "ocr", "ens", "ensEdit", "edit", "figures",
                   "cut", "approved"} : row'[f] = row[f]
      /\ row'.status \in {row.status, "error"}
  BY SpentRow, TypeNow
<1> QED BY <1>1 DEF Promotes, Approves, Keeps

LEMMA TickStatus ==
  ASSUME OpinionAssumption, RowTypeOK, StampedFit, TickNext
  PROVE  (Promotes => Promote) /\ ~Approves /\ Keeps
<1>1. CASE row' = row
  BY <1>1, SameRowSame, SameStatus
<1>2. CASE GlueStamp /\ row' # row
  <2>1. row.glue = mem["tick"].at.glue
    BY <1>2 DEF GlueStamp
  <2>2. row'.glue = row.glue /\ SameInputs /\ row'.status = row.status
    BY <1>2, <2>1, TypeNow, GlueStampRow
  <2> QED BY <2>2 DEF Promotes, Approves, Keeps, SameInputs
<1>3. CASE GlueFails
  <2>1. Tries("glue") /\ row' = Spent("glue") /\ "glue" \in Works
    BY <1>3, FitParts DEF GlueFails, TickFits, Works
  <2> QED BY <2>1, SpentStatus
<1>4. CASE EnsembleFails("tick")
  <2>1. Tries("ensemble") /\ row' = Spent("ensemble") /\ "ensemble" \in Works
    BY <1>4, FitParts DEF EnsembleFails, TickFits, IsAt, Works
  <2> QED BY <2>1, SpentStatus
<1>5. CASE EnsembleStamp("tick") /\ row' # row
  <2>1. row' = Stamped("tick")
    BY <1>5 DEF EnsembleStamp
  <2>2. SameObjects /\ SameInputs
        /\ (row'.status = row.status \/ (row.status = "error" /\ row'.status = "processing"))
    BY <2>1, StampedRow
  <2> QED BY <2>2 DEF Promotes, Approves, Keeps, SameObjects, SameInputs
<1>6. CASE Promote /\ row' # row
  <2>1. row' = [row EXCEPT !.status = "ready"] /\ row.status = "processing"
    BY <1>6 DEF Promote
  <2>2. row'.status = "ready"
    BY <2>1, TypeNow, StatusRow DEF Statuses
  <2> QED BY <1>6, <2>1, <2>2 DEF Promotes, Approves, Keeps
<1>7. CASE Demote /\ row' # row
  <2>1. row' = [row EXCEPT !.status = "processing"]
    BY <1>7 DEF Demote
  <2>2. row'.status = "processing"
    BY <2>1, TypeNow, StatusRow DEF Statuses
  <2> QED BY <2>2 DEF Promotes, Approves, Keeps
<1>8. \/ row' = row \/ GlueStamp \/ GlueFails \/ EnsembleFails("tick")
      \/ EnsembleStamp("tick") \/ Promote \/ Demote
  BY DEF TickNext, GlueNext, GlueLoad, GlueRead, GlueWrite, EnsembleRead, Builds, Load, Upload,
     DropSuperseded, DropUnstamped, PromoteNext, PromoteRead, Prune, DemoteRead
<1> QED BY <1>1, <1>2, <1>3, <1>4, <1>5, <1>6, <1>7, <1>8

LEMMA PdfStatus ==
  ASSUME OpinionAssumption, RowTypeOK, StampedFit, PdfNext
  PROVE  ~Promotes /\ ~Approves /\ Keeps
<1>1. CASE row' = row
  BY <1>1, SameRowSame, SameStatus
<1>2. CASE PdfStamp /\ row' # row
  <2>1. row' = [row EXCEPT !.pdf = row.glue, !.attempts["pdf"] = 0]
    BY <1>2 DEF PdfStamp
  <2>2. row'.glue = row.glue /\ SameInputs /\ row'.status = row.status
    BY <2>1, TypeNow, PdfStampRow
  <2> QED BY <2>2 DEF Promotes, Approves, Keeps, SameInputs
<1>3. CASE PdfFails /\ row' # row
  <2>1. Tries("pdf") /\ row' = Spent("pdf") /\ "pdf" \in Works
    BY <1>3, FitParts DEF PdfFails, PdfFits, Works
  <2> QED BY <2>1, SpentStatus
<1> QED BY <1>1, <1>2, <1>3 DEF PdfNext, PdfRead, PdfWrite

LEMMA CutStatus ==
  ASSUME OpinionAssumption, RowTypeOK, StampedFit, CutNext
  PROVE  ~Promotes /\ ~Approves /\ Keeps
<1>1. CASE row' = row
  BY <1>1, SameRowSame, SameStatus
<1>2. CASE (CutLook \/ CutStamp) /\ row' # row
  <2>1. row.figures \in Inputs \cup {None} /\ drawn \in Inputs \cup {None}
    BY TypeNow DEF RowType
  <2>2. \/ row' = [row EXCEPT !.figures = drawn, !.attempts["figures"] = 0]
        \/ row' = [row EXCEPT !.cut = row.figures, !.attempts["figures"] = 0]
    BY <1>2 DEF CutLook, CutStamp
  <2>3. SameRow /\ row'.status = row.status
    BY <2>1, <2>2, TypeNow, CutStampRow
  <2> QED BY <2>3, SameStatus
<1>3. CASE CutFails /\ row' # row
  <2>1. Tries("figures") /\ row' = Spent("figures") /\ "figures" \in Works
    BY <1>3, FitParts DEF CutFails, CutFits, IsAt, Works
  <2> QED BY <2>1, SpentStatus
<1> QED BY <1>1, <1>2, <1>3 DEF CutNext, CutRead, CutWrite

LEMMA WebStatus ==
  ASSUME OpinionAssumption, RowTypeOK, StampedFit, EditNext \/ Builds("web")
  PROVE  ~Promotes /\ ~Approves /\ Keeps
<1>1. CASE row' = row
  BY <1>1, SameRowSame, SameStatus
<1>2. CASE Edit
  <2>1. row' = [row EXCEPT !.edit = @ + 1]
    BY <1>2 DEF Edit
  <2>2. row'.glue = row.glue /\ row'.digest = row.digest /\ row'.status = row.status
    BY <2>1, TypeNow DEF RowType
  <2> QED BY <2>2 DEF Promotes, Approves, Keeps
<1>3. CASE EnsembleStamp("web") /\ row' # row
  <2>1. row' = Stamped("web")
    BY <1>3 DEF EnsembleStamp
  <2>2. SameObjects /\ SameInputs
        /\ (row'.status = row.status \/ (row.status = "error" /\ row'.status = "processing"))
    BY <2>1, StampedRow
  <2> QED BY <2>2 DEF Promotes, Approves, Keeps, SameObjects, SameInputs
<1> QED BY <1>1, <1>2, <1>3 DEF EditNext, Rerun, EditGate, Fresh, Builds, Load, EnsembleFails,
     Upload, EnsembleStamp, DropSuperseded, DropUnstamped

LEMMA OpStatus ==
  ASSUME OpinionAssumption, RowTypeOK, StampedFit, ReglueNext \/ ReviewNext
  PROVE  ~Promotes /\ ~Approves /\ Keeps
<1>1. CASE row' = row
  BY <1>1, SameRowSame, SameStatus
<1>2. CASE ReglueSwap /\ row' # row
  <2>1. /\ row.glue = mem["op"].at.glue /\ row.status # "done"
        /\ mem["op"].step \in {"carried", "bare"}
    BY <1>2 DEF ReglueSwap
  <2>2. row.glue < MaxRev
    BY <2>1, FitParts DEF OpFits
  <2>3. row' = Raised \/ row' = [Raised EXCEPT !.pdf = row.glue + 1, !.attempts["pdf"] = 0]
    BY <1>2, <2>1 DEF ReglueSwap
  <2>4. row'.status = row.status
    BY <2>2, <2>3, TypeNow, RaisedRow
  <2> QED BY <2>1, <2>4 DEF Promotes, Approves, Keeps
<1>3. CASE CreateRows /\ row' # row
  BY <1>3, CreatedRow DEF Promotes, Approves, Keeps
<1> QED BY <1>1, <1>2, <1>3 DEF ReglueNext, ReglueRead, ReglueCopy, ReviewNext, Reopen, Draw,
     ApproveReview, Park

LEMMA ApprovalStatus ==
  ASSUME OpinionAssumption, RowTypeOK, StampedFit, ApprovalNext
  PROVE  ~Promotes /\ (Approves => Approve) /\ Keeps
<1>1. CASE row' = row
  BY <1>1, SameRowSame, SameStatus
<1>2. CASE Approve /\ row' # row
  <2>1. row.status = "ready" /\ row'.status = "done"
    BY <1>2, ApproveRow
  <2> QED BY <1>2, <2>1 DEF Promotes, Approves, Keeps
<1>3. CASE ReopenText
  <2>1. row.status = "done" /\ row' = [row EXCEPT !.status = "ready"]
    BY <1>3 DEF ReopenText
  <2>2. row'.status = "ready"
    BY <2>1, TypeNow, StatusRow DEF Statuses
  <2> QED BY <2>1, <2>2 DEF Promotes, Approves, Keeps
<1>4. CASE Rewrite
  BY <1>4, RewriteRow, SameStatus
<1> QED BY <1>1, <1>2, <1>3, <1>4 DEF ApprovalNext, ApproveGate, ApproveRender

LEMMA StepStatus ==
  ASSUME OpinionAssumption, RowTypeOK, StampedFit, [RowNext]_rowVars
  PROVE  (Promotes => Promote) /\ (Approves => Approve) /\ Keeps
<1>1. CASE (\E p \in Processes : Die(p)) \/ UNCHANGED rowVars
  <2>1. row' = row
    BY <1>1 DEF Die, rowVars
  <2> QED BY <2>1, SameRowSame, SameStatus
<1>2. CASE TickNext \/ PdfNext \/ CutNext
  BY <1>2, TickStatus, PdfStatus, CutStatus
<1>3. CASE EditNext \/ Builds("web") \/ ReglueNext \/ ReviewNext
  BY <1>3, WebStatus, OpStatus
<1>4. CASE ApprovalNext
  BY <1>4, ApprovalStatus
<1> QED BY <1>1, <1>2, <1>3, <1>4 DEF RowNext

\* A row enters the text review only over the PDF, the glue and the text of the
\* revision it has at that step (opinions.promote_ready).
THEOREM PromotedAlwaysOverLiveStamps == Spec => PromotedOverLiveStamps
<1>1. ASSUME RowTypeOK, StampedFit, [RowNext]_rowVars, Promotes
      PROVE  row'.pdf = row'.glue /\ row'.ocr = row'.glue /\ row'.ens = row'.glue
  <2>1. Promote
    BY <1>1, OpinionAssumption, StepStatus
  <2>2. row' # row
    BY <1>1 DEF Promotes
  <2>3. Stands("tick") /\ IsAt("tick", "promote") /\ row' = [row EXCEPT !.status = "ready"]
    BY <2>1, <2>2 DEF Promote, Stands
  <2>4. PdfWritten /\ EnsembleWritten
    BY <1>1, <2>3, FitParts DEF TickFits
  <2>5. SameRow
    BY <1>1, <2>3, TypeNow, StatusRow DEF Statuses
  <2> QED BY <2>4, <2>5 DEF PdfWritten, EnsembleWritten, OcrWritten, SameRow, SameObjects, SameTexts
<1>2. RowTypeOK /\ StampedFit /\ [RowNext]_rowVars
        => [row.status = "processing" /\ row'.status = "ready" =>
              row'.pdf = row'.glue /\ row'.ocr = row'.glue /\ row'.ens = row'.glue]_row
  BY <1>1 DEF Promotes
<1> QED BY <1>2, StampsAlwaysFit, RowsStep, PTL DEF Spec, TypeOK, PromotedOverLiveStamps

LEMMA GluesStep ==
  ASSUME OpinionAssumption, RowTypeOK, [RowNext]_rowVars
  PROVE  bucket'.glues = bucket.glues \/ GlueWrite \/ Prune
<1>1. CASE UNCHANGED bucket
  BY <1>1
<1>2. CASE \E p \in Builders : Upload(p)
  BY <1>2, UploadText
<1>3. CASE \E p \in Builders : DropSuperseded(p)
  BY <1>3, DropSupersededBucket
<1>4. CASE \E p \in Builders : DropUnstamped(p)
  BY <1>4, DropUnstampedBucket
<1>5. CASE PdfWrite
  <2>1. mem["pdf"].at.glue \in Revs /\ drawn \in Inputs \cup {None}
    BY HeldNumbers, TypeNow
  <2>2. bucket' = [bucket EXCEPT !.pdfs[mem["pdf"].at.glue] = drawn]
    BY <1>5 DEF PdfWrite
  <2> QED BY <2>1, <2>2, PdfBucket
<1>6. CASE CutWrite
  <2>1. bucket' = [bucket EXCEPT !.picture = drawn] /\ drawn \in Inputs \cup {None}
    BY <1>6, TypeNow DEF CutWrite
  <2> QED BY <2>1, PictureBucket
<1>7. CASE ReglueCopy
  <2>1. CASE bucket' = bucket
    BY <2>1
  <2>2. CASE bucket' = [bucket EXCEPT !.pdfs[mem["op"].at.glue + 1] = bucket.pdfs[mem["op"].at.glue]]
    BY <2>2, TypeNow DEF BucketType
  <2> QED BY <1>7, <2>1, <2>2 DEF ReglueCopy
<1> QED
  BY <1>1, <1>2, <1>3, <1>4, <1>5, <1>6, <1>7
  DEF RowNext, rowVars, TickNext, GlueNext, GlueLoad, GlueRead, GlueStamp, GlueFails, EnsembleRead,
      Builds, Load, EnsembleFails, EnsembleStamp, PromoteNext, PromoteRead, Promote, DemoteRead,
      Demote, PdfNext, PdfRead, PdfStamp, PdfFails, CutNext, CutRead, CutLook, CutStamp, CutFails,
      EditNext, Rerun, EditGate, Edit, Fresh, ReglueNext, ReglueRead, ReglueSwap, ReviewNext,
      Reopen, Draw, ApproveReview, CreateRows, Park, ApprovalNext, ApproveGate, ApproveRender,
      Approve, ReopenText, Rewrite, Die

\* While the row has its glue stamped, no step takes or writes over it.
LEMMA StampedGlueStands ==
  ASSUME OpinionAssumption, RowTypeOK, StampedFit, [RowNext]_rowVars, OcrWritten
  PROVE  bucket'.glues[row.glue] = bucket.glues[row.glue]
<1>1. CASE bucket'.glues = bucket.glues
  BY <1>1
<1>2. CASE GlueWrite
  <2> DEFINE r == mem["tick"].at.glue
             o == mem["tick"].of
  <2>1. r # row.glue
    BY <1>2, FitParts DEF GlueWrite, TickFits, IsAt, Stands
  <2>2. r \in Revs /\ o \in Inputs \cup {None} /\ row.glue \in Revs
    BY HeldNumbers, MemSlots, RowNumbers DEF Slot
  <2>3. bucket' = [bucket EXCEPT !.glues[r] = o]
    BY <1>2 DEF GlueWrite
  <2> HIDE DEF r, o
  <2>4. bucket'.glues = [bucket.glues EXCEPT ![r] = o]
    BY <2>2, <2>3, GlueBucket
  <2> QED BY <2>1, <2>2, <2>4, TypeNow DEF BucketType
<1>3. CASE Prune
  <2>1. mem["tick"].at.glue \in Revs /\ mem["tick"].at.glue <= row.glue /\ row.glue \in Revs
    BY HeldNumbers, RowNumbers, FitParts DEF HeldLow
  <2>2. bucket' = Pruned(mem["tick"].at.glue)
    BY <1>3 DEF Prune
  <2> QED BY <2>1, <2>2, PrunedBucket
<1> QED BY <1>1, <1>2, <1>3, GluesStep

\* An approved row keeps its revision, its redactions and its glue until staff
\* open it again (create_rows, reglue_opinions, prune_glues).
THEOREM ApprovedIsAlwaysKept == Spec => ApprovedIsKept
<1>1. ASSUME RowTypeOK, StampedFit, [RowNext]_rowVars, row.status = "done", row'.status = "done"
      PROVE  /\ row'.glue = row.glue /\ row'.digest = row.digest
             /\ bucket'.glues[row.glue] = bucket.glues[row.glue]
  <2>1. row'.glue = row.glue /\ row'.digest = row.digest
    BY <1>1, OpinionAssumption, StepStatus DEF Keeps
  <2>2. OcrWritten
    BY <1>1, FitParts DEF StampsFit
  <2> QED BY <1>1, <2>1, <2>2, OpinionAssumption, StampedGlueStands
<1>2. RowTypeOK /\ StampedFit /\ [RowNext]_rowVars
        => [row.status = "done" /\ row'.status = "done" =>
              /\ row'.glue = row.glue /\ row'.digest = row.digest
              /\ bucket'.glues[row.glue] = bucket.glues[row.glue]]_vars
  BY <1>1
<1> QED BY <1>2, StampsAlwaysFit, RowsStep, PTL DEF Spec, TypeOK, ApprovedIsKept

-----------------------------------------------------------------------------
(* What the texts hold, step by step.                                      *)

\* Who moves the slots the texts depend on.
LEMMA OtherSlots ==
  ASSUME RowTypeOK, NEW p \in Processes,
         \/ \E s : Goes(p, s)
         \/ \E s, fields : Holds(p, s, fields)
         \/ Ends(p)
  PROVE  \A q \in Processes : q # p => mem'[q] = mem[q]
BY TypeNow DEF Goes, Holds, Ends

LEMMA PdfLeaves ==
  ASSUME RowTypeOK, PdfNext
  PROVE  \A q \in Processes : q # "pdf" => mem'[q] = mem[q]
BY OtherSlots DEF PdfNext, PdfRead, PdfWrite, PdfStamp, PdfFails

LEMMA CutLeaves ==
  ASSUME RowTypeOK, CutNext
  PROVE  \A q \in Processes : q # "cut" => mem'[q] = mem[q]
BY OtherSlots DEF CutNext, CutRead, CutLook, CutWrite, CutStamp, CutFails

LEMMA OpLeaves ==
  ASSUME RowTypeOK, ReglueNext
  PROVE  \A q \in Processes : q # "op" => mem'[q] = mem[q]
BY OtherSlots DEF ReglueNext, ReglueRead, ReglueCopy, ReglueSwap

LEMMA ReviewLeaves == ASSUME ReviewNext PROVE mem' = mem
BY DEF ReviewNext, Reopen, Draw, ApproveReview, CreateRows, Park

LEMMA ApprovalLeaves ==
  ASSUME OpinionAssumption, RowTypeOK, ApprovalNext
  PROVE  \A q \in Processes : q # "approval" => mem'[q] = mem[q]
BY OtherSlots, RenderSlot DEF ApprovalNext, ApproveGate, Approve, ReopenText, Rewrite

LEMMA BuildsLeaves ==
  ASSUME OpinionAssumption, RowTypeOK, NEW p \in Builders, Builds(p)
  PROVE  /\ \A q \in Processes : q # p => mem'[q] = mem[q]
         /\ mem[p].step # "idle"
         /\ Load(p) \/ mem'[p].step \in {"idle", "uploaded", "stamped", "lost", "saved"}
<1>1. CASE Load(p)
  BY <1>1, LoadSlot DEF Load, IsAt
<1>2. CASE EnsembleFails(p) \/ DropSuperseded(p)
  <2>1. Ends(p) /\ mem[p].step # "idle" /\ p \in Processes
    BY <1>2 DEF EnsembleFails, DropSuperseded, IsAt
  <2> QED BY <2>1, EndedAt
<1>3. CASE Upload(p)
  BY <1>3, UploadSlot DEF Upload, IsAt
<1>4. CASE EnsembleStamp(p)
  BY <1>4, StampSlot DEF EnsembleStamp, IsAt
<1>5. CASE DropUnstamped(p)
  BY <1>5, DropSlot DEF DropUnstamped, IsAt
<1> QED BY <1>1, <1>2, <1>3, <1>4, <1>5 DEF Builds

LEMMA TickLeaves ==
  ASSUME OpinionAssumption, RowTypeOK, TickNext
  PROVE  /\ \A q \in Processes : q # "tick" => mem'[q] = mem[q]
         /\ \/ GlueLoad \/ GlueRead \/ EnsembleRead \/ Load("tick")
            \/ mem'["tick"].step \notin {"inputs", "glueing", "build", "loaded"}
<1>1. CASE GlueLoad \/ GlueRead
  BY <1>1, GlueLoadSlot, GlueReadSlot
<1>2. CASE GlueWrite
  BY <1>2, MovedAt DEF GlueWrite, Steps
<1>3. CASE Ends("tick")
  BY <1>3, EndedAt
<1>4. CASE EnsembleRead
  BY <1>4, OtherSlots DEF EnsembleRead
<1>5. CASE Builds("tick")
  BY <1>5, BuildsLeaves
<1>6. CASE PromoteRead
  BY <1>6, HeldAt DEF PromoteRead, Steps
<1>7. CASE Promote
  BY <1>3, <1>7, MovedAt DEF Promote, Steps
<1>8. CASE DemoteRead
  BY <1>8, HeldAt DEF DemoteRead, Steps
<1> QED BY <1>1, <1>2, <1>3, <1>4, <1>5, <1>6, <1>7, <1>8
        DEF TickNext, GlueNext, GlueStamp, GlueFails, PromoteNext, Prune, Demote

LEMMA EditLeaves ==
  ASSUME OpinionAssumption, RowTypeOK, EditNext
  PROVE  /\ \A q \in Processes : q # "web" => mem'[q] = mem[q]
         /\ mem'["web"].step # "loaded"
         /\ "edit" \in Events \/ mem["web"].step # "idle"
<1>1. CASE Rerun
  BY <1>1, HeldAt DEF Rerun, Steps
<1>2. CASE EditGate
  BY <1>2, HeldAt DEF EditGate, Steps
<1>3. CASE Edit
  BY <1>3, EditSlot DEF Edit, IsAt
<1>4. CASE Fresh
  BY <1>4, FreshSlot DEF Fresh, IsAt
<1> QED BY <1>1, <1>2, <1>3, <1>4 DEF EditNext

LEMMA DieLeaves ==
  ASSUME OpinionAssumption, RowTypeOK, NEW p \in Processes, Die(p)
  PROVE  mem'[p].step = "idle" /\ \A q \in Processes : q # p => mem'[q] = mem[q]
BY EndedAt DEF Die

\* A slot moves by its own process alone.
LEMMA TickSlot ==
  ASSUME OpinionAssumption, RowTypeOK, [RowNext]_rowVars
  PROVE  \/ mem'["tick"] = mem["tick"]
         \/ GlueLoad \/ GlueRead \/ EnsembleRead \/ Load("tick")
         \/ mem'["tick"].step \notin {"inputs", "glueing", "build", "loaded"}
<1>1. CASE TickNext
  BY <1>1, TickLeaves
<1>2. CASE PdfNext \/ CutNext \/ ReglueNext
  BY <1>2, PdfLeaves, CutLeaves, OpLeaves
<1>3. CASE EditNext \/ Builds("web")
  BY <1>3, EditLeaves, BuildsLeaves
<1>4. CASE ReviewNext \/ ApprovalNext
  BY <1>4, ReviewLeaves, ApprovalLeaves
<1>5. CASE \E p \in Processes : Die(p)
  BY <1>5, DieLeaves
<1>6. CASE UNCHANGED rowVars
  BY <1>6 DEF rowVars
<1> QED BY <1>1, <1>2, <1>3, <1>4, <1>5, <1>6 DEF RowNext

LEMMA WebSlot ==
  ASSUME OpinionAssumption, RowTypeOK, [RowNext]_rowVars
  PROVE  /\ mem'["web"] = mem["web"] \/ Load("web") \/ mem'["web"].step # "loaded"
         /\ "edit" \notin Events /\ mem["web"].step = "idle" => mem'["web"].step = "idle"
<1>1. CASE TickNext
  BY <1>1, TickLeaves
<1>2. CASE PdfNext \/ CutNext \/ ReglueNext
  BY <1>2, PdfLeaves, CutLeaves, OpLeaves
<1>3. CASE EditNext
  BY <1>3, EditLeaves
<1>4. CASE Builds("web")
  BY <1>4, BuildsLeaves
<1>5. CASE ReviewNext \/ ApprovalNext
  BY <1>5, ReviewLeaves, ApprovalLeaves
<1>6. CASE \E p \in Processes : Die(p)
  BY <1>6, DieLeaves
<1>7. CASE UNCHANGED rowVars
  BY <1>7 DEF rowVars
<1> QED BY <1>1, <1>2, <1>3, <1>4, <1>5, <1>6, <1>7 DEF RowNext

LEMMA ApprovalSlot ==
  ASSUME OpinionAssumption, RowTypeOK, [RowNext]_rowVars
  PROVE  mem'["approval"] = mem["approval"] \/ ApproveRender \/ mem'["approval"].step # "rendered"
<1>1. CASE TickNext \/ EditNext \/ Builds("web")
  BY <1>1, TickLeaves, EditLeaves, BuildsLeaves
<1>2. CASE PdfNext \/ CutNext \/ ReglueNext
  BY <1>2, PdfLeaves, CutLeaves, OpLeaves
<1>3. CASE ApprovalNext
  <2>1. CASE ApproveGate
    BY <2>1, HeldAt DEF ApproveGate, Steps
  <2>2. CASE Approve
    BY <2>2, EndedAt DEF Approve
  <2>3. CASE ReopenText \/ Rewrite
    BY <2>3 DEF ReopenText, Rewrite
  <2> QED BY <1>3, <2>1, <2>2, <2>3 DEF ApprovalNext
<1>4. CASE ReviewNext
  BY <1>4, ReviewLeaves
<1>5. CASE \E p \in Processes : Die(p)
  BY <1>5, DieLeaves
<1>6. CASE UNCHANGED rowVars
  BY <1>6 DEF rowVars
<1> QED BY <1>1, <1>2, <1>3, <1>4, <1>5, <1>6 DEF RowNext

\* A text is written by an upload alone, and goes by itself.
LEMMA TextsStep ==
  ASSUME OpinionAssumption, RowTypeOK, [RowNext]_rowVars
  PROVE  \/ \E p \in Builders : Upload(p)
         \/ \A k \in Revs \X Edits : bucket'.texts[k] \in {NoText, bucket.texts[k]}
<1>1. CASE UNCHANGED bucket
  BY <1>1
<1>2. CASE \E p \in Builders : DropSuperseded(p)
  BY <1>2, DropSupersededBucket
<1>3. CASE \E p \in Builders : DropUnstamped(p)
  BY <1>3, DropUnstampedBucket
<1>4. CASE GlueWrite
  <2> DEFINE r == mem["tick"].at.glue
             o == mem["tick"].of
  <2>1. r \in Revs /\ o \in Inputs \cup {None}
    BY HeldNumbers, MemSlots DEF Slot
  <2>2. bucket' = [bucket EXCEPT !.glues[r] = o]
    BY <1>4 DEF GlueWrite
  <2> HIDE DEF r, o
  <2> QED BY <2>1, <2>2, GlueBucket
<1>5. CASE PdfWrite
  <2>1. mem["pdf"].at.glue \in Revs /\ drawn \in Inputs \cup {None}
    BY HeldNumbers, TypeNow
  <2>2. bucket' = [bucket EXCEPT !.pdfs[mem["pdf"].at.glue] = drawn]
    BY <1>5 DEF PdfWrite
  <2> QED BY <2>1, <2>2, PdfBucket
<1>6. CASE CutWrite
  <2>1. bucket' = [bucket EXCEPT !.picture = drawn] /\ drawn \in Inputs \cup {None}
    BY <1>6, TypeNow DEF CutWrite
  <2> QED BY <2>1, PictureBucket
<1>7. CASE ReglueCopy
  <2>1. CASE bucket' = bucket
    BY <2>1
  <2>2. CASE bucket' = [bucket EXCEPT !.pdfs[mem["op"].at.glue + 1] = bucket.pdfs[mem["op"].at.glue]]
    BY <2>2, TypeNow DEF BucketType
  <2> QED BY <1>7, <2>1, <2>2 DEF ReglueCopy
<1>8. CASE Prune
  <2>1. mem["tick"].at.glue \in Revs /\ bucket' = Pruned(mem["tick"].at.glue)
    BY <1>8, HeldNumbers DEF Prune
  <2> QED BY <2>1, PrunedBucket
<1> QED
  BY <1>1, <1>2, <1>3, <1>4, <1>5, <1>6, <1>7, <1>8
  DEF RowNext, rowVars, TickNext, GlueNext, GlueLoad, GlueRead, GlueStamp, GlueFails, EnsembleRead,
      Builds, Load, EnsembleFails, EnsembleStamp, PromoteNext, PromoteRead, Promote, DemoteRead,
      Demote, PdfNext, PdfRead, PdfStamp, PdfFails, CutNext, CutRead, CutLook, CutStamp, CutFails,
      EditNext, Rerun, EditGate, Edit, Fresh, ReglueNext, ReglueRead, ReglueSwap, ReviewNext,
      Reopen, Draw, ApproveReview, CreateRows, Park, ApprovalNext, ApproveGate, ApproveRender,
      Approve, ReopenText, Rewrite, Die

\* With the redaction review closed, nothing is drawn.
LEMMA DrawnStays ==
  ASSUME [RowNext]_rowVars, "reopen" \notin Events, scan = "done"
  PROVE  scan' = "done" /\ drawn' = drawn
BY DEF RowNext, rowVars, TickNext, GlueNext, GlueLoad, GlueRead, GlueWrite, GlueStamp, GlueFails,
       EnsembleRead, Builds, Load, EnsembleFails, Upload, EnsembleStamp, DropSuperseded,
       DropUnstamped, PromoteNext, PromoteRead, Promote, Prune, DemoteRead, Demote, PdfNext,
       PdfRead, PdfWrite, PdfStamp, PdfFails, CutNext, CutRead, CutLook, CutWrite, CutStamp,
       CutFails, EditNext, Rerun, EditGate, Edit, Fresh, ReglueNext, ReglueRead, ReglueCopy,
       ReglueSwap, ReviewNext, Reopen, Draw, ApproveReview, CreateRows, Park, ApprovalNext,
       ApproveGate, ApproveRender, Approve, ReopenText, Rewrite, Die

LEMMA TextNumbers ==
  ASSUME OpinionAssumption, RowTypeOK, NEW k \in Revs \X Edits
  PROVE  /\ bucket.texts[k] \in Text /\ bucket.texts[k].edits \in Int
         /\ k[1] \in Nat /\ k[2] \in Nat
<1>1. bucket.texts[k] \in Text
  BY TypeNow DEF BucketType
<1>2. bucket.texts[k].edits \in Int
  BY <1>1 DEF Text, Edits, NoRev
<1> QED BY <1>1, <1>2 DEF Revs, Edits

LEMMA NotLoaded ==
  ASSUME OpinionAssumption, RowTypeOK, GlueLoad \/ GlueRead \/ EnsembleRead
  PROVE  mem'["tick"].step # "loaded"
<1>1. CASE GlueLoad
  BY <1>1, GlueLoadSlot
<1>2. CASE GlueRead
  BY <1>2, GlueReadSlot DEF Idle
<1>3. CASE EnsembleRead
  BY <1>3, HeldAt DEF EnsembleRead, Steps
<1> QED BY <1>1, <1>2, <1>3

LEMMA EditsStep ==
  ASSUME OpinionAssumption, RowTypeOK, EditsFit, [RowNext]_rowVars, GoodStep
  PROVE  EditsFit'
<1>1. row.edit \in Nat /\ row'.edit \in Nat /\ row.edit <= row'.edit
  BY RowNumbers DEF GoodStep, Lasts, RowTypeOK, Edits, OpinionAssumption
<1>2. ASSUME NEW k \in Revs \X Edits, bucket'.texts[k] # NoText
      PROVE  k[2] <= bucket'.texts[k].edits /\ bucket'.texts[k].edits <= row'.edit
  <2>1. CASE bucket'.texts[k] = bucket.texts[k]
    <3>1. k[2] <= bucket.texts[k].edits /\ bucket.texts[k].edits <= row.edit
      BY <1>2, <2>1 DEF EditsFit
    <3> QED BY <1>1, <2>1, <3>1, TextNumbers
  <2>2. ASSUME NEW p \in Builders, Upload(p), bucket'.texts[k] # bucket.texts[k]
        PROVE  k[2] <= bucket'.texts[k].edits /\ bucket'.texts[k].edits <= row'.edit
    <3> DEFINE key == <<mem[p].at.glue, mem[p].at.edit>>
               t == [of |-> mem[p].of, edits |-> row.edit]
    <3>1. key \in Revs \X Edits /\ bucket'.texts = [bucket.texts EXCEPT ![key] = t]
      BY <2>2, UploadText
    <3>2. key[2] = mem[p].at.edit /\ t.edits = row.edit
      OBVIOUS
    <3>3. mem[p].at.edit <= row.edit /\ row' = row
      BY <2>2 DEF EditsFit, Upload
    <3> HIDE DEF key, t
    <3>4. k = key /\ bucket'.texts[k] = t
      BY <2>2, <3>1, TypeNow DEF BucketType
    <3> QED BY <1>1, <3>2, <3>3, <3>4
  <2> QED BY <1>2, <2>1, <2>2, TextsStep
<1>3. ASSUME NEW p \in Builders, IsAt(p, "loaded")' PROVE mem'[p].at.edit <= row'.edit
  <2>1. CASE mem'[p] = mem[p]
    <3>1. mem[p].at.edit <= row.edit /\ mem[p].at.edit \in Nat
      BY <1>3, <2>1, HeldNumbers DEF EditsFit, IsAt
    <3> QED BY <1>1, <2>1, <3>1
  <2>2. CASE Load(p)
    BY <1>1, <2>2, LoadSlot
  <2>3. CASE mem'[p] # mem[p] /\ ~Load(p)
    <3>1. mem'[p].step = "loaded"
      BY <1>3 DEF IsAt
    <3>2. CASE p = "web"
      BY <2>3, <3>1, <3>2, WebSlot
    <3>3. CASE p = "tick"
      <4>1. GlueLoad \/ GlueRead \/ EnsembleRead
        BY <2>3, <3>1, <3>3, TickSlot
      <4>2. mem'["tick"].step # "loaded"
        BY <4>1, NotLoaded
      <4> QED BY <3>1, <3>3, <4>2
    <3> QED BY <3>2, <3>3
  <2> QED BY <2>1, <2>2, <2>3
<1> QED BY <1>2, <1>3 DEF EditsFit

LEMMA ReadingsStep ==
  ASSUME OpinionAssumption, RowTypeOK, ReadingsFit, [RowNext]_rowVars, "reopen" \notin Events
  PROVE  ReadingsFit'
<1>1. scan' = "done" /\ drawn' = Original
  BY DrawnStays DEF ReadingsFit
<1>2. ASSUME NEW r \in Revs PROVE bucket'.glues[r] \in {None, Original}
  <2>1. CASE bucket'.glues = bucket.glues
    BY <2>1 DEF ReadingsFit
  <2>2. CASE GlueWrite
    <3> DEFINE x == mem["tick"].at.glue
               o == mem["tick"].of
    <3>1. x \in Revs /\ o \in Inputs \cup {None} /\ o = Original
      BY <2>2, HeldNumbers, MemSlots DEF Slot, GlueWrite, IsAt, ReadingsFit
    <3>2. bucket' = [bucket EXCEPT !.glues[x] = o]
      BY <2>2 DEF GlueWrite
    <3> HIDE DEF x, o
    <3>3. bucket'.glues = [bucket.glues EXCEPT ![x] = o]
      BY <3>1, <3>2, GlueBucket
    <3>4. bucket.glues[r] \in {None, Original}
      BY DEF ReadingsFit
    <3> QED BY <3>1, <3>3, <3>4, TypeNow DEF BucketType
  <2>3. CASE Prune
    <3>1. mem["tick"].at.glue \in Revs /\ bucket' = Pruned(mem["tick"].at.glue)
      BY <2>3, HeldNumbers DEF Prune
    <3> QED BY <3>1, PrunedBucket DEF ReadingsFit
  <2> QED BY <2>1, <2>2, <2>3, GluesStep
<1>3. ASSUME NEW k \in Revs \X Edits, bucket'.texts[k] # NoText
      PROVE  bucket'.texts[k].of = Original
  <2>1. CASE bucket'.texts[k] = bucket.texts[k]
    BY <1>3, <2>1 DEF ReadingsFit
  <2>2. ASSUME NEW p \in Builders, Upload(p), bucket'.texts[k] # bucket.texts[k]
        PROVE  bucket'.texts[k].of = Original
    <3> DEFINE key == <<mem[p].at.glue, mem[p].at.edit>>
               t == [of |-> mem[p].of, edits |-> row.edit]
    <3>1. key \in Revs \X Edits /\ bucket'.texts = [bucket.texts EXCEPT ![key] = t]
      BY <2>2, UploadText
    <3>2. t.of = Original
      BY <2>2 DEF ReadingsFit, Upload
    <3> HIDE DEF key, t
    <3>3. bucket'.texts[k] = t
      BY <2>2, <3>1, TypeNow DEF BucketType
    <3> QED BY <3>2, <3>3
  <2> QED BY <1>3, <2>1, <2>2, TextsStep
<1>4. ASSUME mem'["tick"].step \in {"inputs", "glueing"} PROVE mem'["tick"].of = Original
  <2>1. CASE mem'["tick"] = mem["tick"]
    BY <1>4, <2>1 DEF ReadingsFit
  <2>2. CASE GlueLoad
    BY <2>2, GlueLoadSlot DEF ReadingsFit
  <2>3. CASE GlueRead
    BY <1>4, <2>3, GlueReadSlot DEF ReadingsFit, GlueRead, IsAt, Idle
  <2>4. CASE EnsembleRead \/ Load("tick")
    <3>1. mem'["tick"].step \in {"build", "loaded"}
      BY <2>4, HeldAt, LoadSlot DEF EnsembleRead, Steps
    <3> QED BY <1>4, <3>1
  <2> QED BY <1>4, <2>1, <2>2, <2>3, <2>4, TickSlot
<1>5. ASSUME NEW p \in Builders, IsAt(p, "loaded")' PROVE mem'[p].of = Original
  <2>0. mem'[p].step = "loaded"
    BY <1>5 DEF IsAt
  <2>1. CASE mem'[p] = mem[p]
    BY <2>0, <2>1 DEF ReadingsFit, IsAt
  <2>2. CASE Load(p)
    <3>1. mem'[p].of = bucket.glues[mem[p].at.glue] /\ bucket.glues[mem[p].at.glue] # None
      BY <2>2, LoadSlot DEF Load
    <3> QED BY <3>1, HeldNumbers DEF ReadingsFit
  <2>3. CASE mem'[p] # mem[p] /\ ~Load(p)
    <3>2. CASE p = "web"
      BY <2>0, <2>3, <3>2, WebSlot
    <3>3. CASE p = "tick"
      <4>1. GlueLoad \/ GlueRead \/ EnsembleRead
        BY <2>0, <2>3, <3>3, TickSlot
      <4>2. mem'["tick"].step # "loaded"
        BY <4>1, NotLoaded
      <4> QED BY <2>0, <3>3, <4>2
    <3> QED BY <3>2, <3>3
  <2> QED BY <2>1, <2>2, <2>3
<1> QED BY <1>1, <1>2, <1>3, <1>4, <1>5 DEF ReadingsFit

\* The stamp of the glue is written by the glue alone.
LEMMA OcrStep ==
  ASSUME OpinionAssumption, RowTypeOK, StampedFit, [RowNext]_rowVars
  PROVE  row'.ocr = row.ocr \/ row'.ocr = row.glue
<1>0. row \in RowType
  BY TypeNow
<1>1. CASE row' = row
  BY <1>1
<1>2. CASE GlueStamp /\ row' # row
  <2>1. row.glue = mem["tick"].at.glue
    BY <1>2 DEF GlueStamp
  <2> QED BY <1>0, <1>2, <2>1, GlueStampRow
<1>3. ASSUME NEW w \in Works, Tries(w), row' = Spent(w) PROVE row'.ocr = row.ocr
  BY <1>0, <1>3, SpentRow
<1>4. CASE (GlueFails \/ PdfFails \/ CutFails \/ \E p \in Builders : EnsembleFails(p)) /\ row' # row
  <2>1. \E w \in Works : Tries(w) /\ row' = Spent(w)
    <3>1. CASE GlueFails
      BY <3>1, FitParts DEF GlueFails, TickFits, Works
    <3>2. CASE PdfFails
      BY <1>4, <3>2, FitParts DEF PdfFails, PdfFits, Works
    <3>3. CASE CutFails
      BY <1>4, <3>3, FitParts DEF CutFails, CutFits, IsAt, Works
    <3>4. ASSUME NEW p \in Builders, EnsembleFails(p) PROVE \E w \in Works : Tries(w) /\ row' = Spent(w)
      <4>1. p = "tick" /\ row' = Spent("ensemble")
        BY <1>4, <3>4 DEF EnsembleFails
      <4>2. Tries("ensemble")
        BY <3>4, <4>1, FitParts DEF EnsembleFails, TickFits, IsAt
      <4> QED BY <4>1, <4>2 DEF Works
    <3> QED BY <1>4, <3>1, <3>2, <3>3, <3>4
  <2> QED BY <1>3, <2>1
<1>5. ASSUME NEW p \in Builders, EnsembleStamp(p), row' # row PROVE row'.ocr = row.ocr
  <2>1. row' = Stamped(p)
    BY <1>5 DEF EnsembleStamp
  <2> QED BY <2>1, StampedRow DEF SameObjects
<1>6. CASE (Edit \/ Promote \/ Demote \/ PdfStamp \/ CutLook \/ CutStamp \/ Approve \/ ReopenText) /\ row' # row
  BY <1>0, <1>6 DEF Edit, Promote, Demote, PdfStamp, CutLook, CutStamp, Approve, ReopenText, RowType
<1>7. CASE Rewrite
  BY <1>7, RewriteRow DEF SameRow, SameObjects
<1>8. CASE ReglueSwap /\ row' # row
  <2>1. row' = Raised \/ row' = [Raised EXCEPT !.pdf = row.glue + 1, !.attempts["pdf"] = 0]
    BY <1>8 DEF ReglueSwap
  <2>2. mem["op"].step \in {"carried", "bare"} /\ row.glue = mem["op"].at.glue
    BY <1>8 DEF ReglueSwap
  <2>3. row.glue < MaxRev
    BY <2>2, FitParts DEF OpFits
  <2> QED BY <1>0, <2>1, <2>3, RaisedRow
<1>9. CASE CreateRows /\ row' # row
  BY <1>9, CreatedRow
<1> QED
  BY <1>1, <1>2, <1>4, <1>5, <1>6, <1>7, <1>8, <1>9
  DEF RowNext, rowVars, TickNext, GlueNext, GlueLoad, GlueRead, GlueWrite, EnsembleRead,
      Builds, Load, Upload, DropSuperseded, DropUnstamped, PromoteNext, PromoteRead, Prune,
      DemoteRead, PdfNext, PdfRead, PdfWrite, CutNext, CutRead, CutWrite, EditNext, Rerun,
      EditGate, Fresh, ReglueNext, ReglueRead, ReglueCopy, ReviewNext, Reopen, Draw,
      ApproveReview, Park, ApprovalNext, ApproveGate, ApproveRender, Die

\* What the glue of a stamped revision is, it stays.
LEMMA LiveStays ==
  ASSUME OpinionAssumption, RowTypeOK, StampedFit, [RowNext]_rowVars, GoodStep,
         NEW r \in Nat, r <= row.ocr, r = row'.glue
  PROVE  r = row.glue /\ OcrWritten /\ LiveGlue' = LiveGlue
<1>1. row.ocr <= row.glue /\ row.glue <= row'.glue
  BY FitParts DEF StampsFit, GoodStep, Lasts
<1>2. r = row.glue /\ OcrWritten
  BY <1>1, RowNumbers DEF OcrWritten
<1>3. bucket'.glues[row.glue] = bucket.glues[row.glue]
  BY <1>2, StampedGlueStands
<1> QED BY <1>2, <1>3 DEF LiveGlue

LEMMA BuildsStep ==
  ASSUME OpinionAssumption, RowTypeOK, StampedFit, BuildsFit, [RowNext]_rowVars, GoodStep,
         "edit" \notin Events
  PROVE  BuildsFit'
<1>0. /\ row.ocr \in Int /\ row'.ocr \in Int /\ row.glue \in Nat /\ row'.glue \in Nat
      /\ row.ocr <= row.glue /\ row.ocr <= row'.ocr /\ row.glue <= row'.glue
  <2>1. row.ocr <= row.glue /\ row.glue <= row'.glue
    BY FitParts DEF StampsFit, GoodStep, Lasts
  <2>2. row'.ocr \in Int /\ row'.glue \in Nat
    BY DEF GoodStep, RowTypeOK, Revs, NoRev, OpinionAssumption
  <2> QED BY <2>1, <2>2, RowNumbers, OcrStep
<1>1. IsAt("web", "idle")'
  BY WebSlot DEF BuildsFit, IsAt
<1>2. ASSUME mem'["tick"].step \in {"build", "loaded"}
      PROVE  /\ mem'["tick"].at.glue <= row'.ocr
             /\ IsAt("tick", "loaded")' /\ Stands("tick")' => mem'["tick"].of = LiveGlue'
  <2>1. CASE mem'["tick"] = mem["tick"]
    <3>1. mem["tick"].at.glue <= row.ocr /\ mem["tick"].at.glue \in Nat
      BY <1>2, <2>1, HeldNumbers DEF BuildsFit
    <3>2. ASSUME IsAt("tick", "loaded")', Stands("tick")' PROVE mem'["tick"].of = LiveGlue'
      <4>1. mem["tick"].at.glue = row'.glue
        BY <2>1, <3>2 DEF Stands
      <4>2. mem["tick"].at.glue = row.glue /\ LiveGlue' = LiveGlue
        BY <3>1, <4>1, LiveStays
      <4> QED BY <2>1, <3>2, <4>2 DEF BuildsFit, IsAt, Stands
    <3> QED BY <1>0, <2>1, <3>1, <3>2
  <2>2. CASE EnsembleRead
    <3>1. mem'["tick"].step = "build" /\ mem'["tick"].at.glue = row.glue
      BY <2>2, HeldAt, KeptFields DEF EnsembleRead, Steps
    <3>2. row.ocr = row.glue
      BY <2>2 DEF EnsembleRead, EnsembleDue, OcrWritten
    <3> QED BY <1>0, <3>1, <3>2 DEF IsAt
  <2>3. CASE Load("tick")
    <3>1. mem["tick"].at.glue <= row.ocr /\ mem["tick"].at.glue \in Nat
      BY <2>3, HeldNumbers DEF Load, IsAt, BuildsFit
    <3>2. /\ mem'["tick"].at.glue = mem["tick"].at.glue
          /\ mem'["tick"].of = bucket.glues[mem["tick"].at.glue]
      BY <2>3, LoadSlot
    <3>3. ASSUME Stands("tick")' PROVE mem'["tick"].of = LiveGlue'
      <4>1. mem["tick"].at.glue = row'.glue
        BY <3>2, <3>3 DEF Stands
      <4>2. mem["tick"].at.glue = row.glue /\ LiveGlue' = LiveGlue
        BY <3>1, <4>1, LiveStays
      <4> QED BY <3>2, <4>2 DEF LiveGlue
    <3> QED BY <1>0, <3>1, <3>2, <3>3
  <2>4. CASE GlueLoad \/ GlueRead
    <3>1. mem'["tick"].step \in {"inputs", "glueing", "idle"}
      BY <2>4, GlueLoadSlot, GlueReadSlot DEF Idle
    <3> QED BY <1>2, <3>1
  <2> QED BY <1>2, <2>1, <2>2, <2>3, <2>4, TickSlot
<1>3. ASSUME NEW k \in Revs \X Edits, bucket'.texts[k] # NoText
      PROVE  k[1] <= row'.ocr /\ (k[1] = row'.glue => bucket'.texts[k].of = LiveGlue')
  <2>1. CASE bucket'.texts[k] = bucket.texts[k]
    <3>1. k[1] <= row.ocr /\ k[1] \in Nat /\ (k[1] = row.glue => bucket.texts[k].of = LiveGlue)
      BY <1>3, <2>1, TextNumbers DEF BuildsFit
    <3>2. ASSUME k[1] = row'.glue PROVE bucket'.texts[k].of = LiveGlue'
      BY <2>1, <3>1, <3>2, LiveStays
    <3> QED BY <1>0, <3>1, <3>2
  <2>2. ASSUME NEW p \in Builders, Upload(p), bucket'.texts[k] # bucket.texts[k]
        PROVE  k[1] <= row'.ocr /\ (k[1] = row'.glue => bucket'.texts[k].of = LiveGlue')
    <3> DEFINE key == <<mem[p].at.glue, mem[p].at.edit>>
               t == [of |-> mem[p].of, edits |-> row.edit]
    <3>1. key \in Revs \X Edits /\ bucket'.texts = [bucket.texts EXCEPT ![key] = t]
      BY <2>2, UploadText
    <3>2. key[1] = mem[p].at.glue /\ t.of = mem[p].of
      OBVIOUS
    <3>3. p = "tick" /\ IsAt("tick", "loaded")
      BY <2>2 DEF Upload, BuildsFit, IsAt
    <3> HIDE DEF key, t
    <3>4. k = key /\ bucket'.texts[k] = t
      BY <2>2, <3>1, TypeNow DEF BucketType
    <3>5. k[1] <= row.ocr /\ k[1] \in Nat
      BY <3>2, <3>3, <3>4, HeldNumbers DEF BuildsFit, IsAt
    <3>6. ASSUME k[1] = row'.glue PROVE bucket'.texts[k].of = LiveGlue'
      <4>1. k[1] = row.glue /\ LiveGlue' = LiveGlue
        BY <3>5, <3>6, LiveStays
      <4>2. Stands("tick")
        BY <3>2, <3>3, <3>4, <4>1 DEF Stands
      <4> QED BY <3>2, <3>3, <3>4, <4>1, <4>2 DEF BuildsFit
    <3> QED BY <1>0, <3>5, <3>6
  <2> QED BY <1>3, <2>1, <2>2, TextsStep
<1> QED BY <1>1, <1>2, <1>3 DEF BuildsFit, IsAt

\* A text of the revision of a stamped row is made of the live glue.
LEMMA OfLive ==
  ASSUME OpinionAssumption, NotBoth, RowTypeOK, StampedFit, OfFits, OcrWritten,
         NEW k \in Revs \X Edits, k[1] = row.glue, bucket.texts[k] # NoText
  PROVE  bucket.texts[k].of = LiveGlue
<1>1. CASE "reopen" \notin Events
  <2>1. ReadingsFit
    BY <1>1 DEF OfFits
  <2>2. LiveGlue # None
    BY FitParts DEF StampsFit
  <2>3. LiveGlue \in {None, Original}
    BY <2>1, RowNumbers DEF ReadingsFit, LiveGlue
  <2> QED BY <2>1, <2>2, <2>3 DEF ReadingsFit
<1>2. CASE "edit" \notin Events
  BY <1>2 DEF OfFits, BuildsFit
<1> QED BY <1>1, <1>2 DEF NotBoth

LEMMA RenderStep ==
  ASSUME OpinionAssumption, NotBoth, RowTypeOK, StampedFit, TextsFit, [RowNext]_rowVars, GoodStep
  PROVE  RenderFits'
<1> DEFINE at == mem["approval"].at
<1>0. /\ HeldLow /\ Lasts /\ row' \in RowType
      /\ row.edit \in Nat /\ row'.edit \in Nat /\ row.edit <= row'.edit
  BY FitParts, RowNumbers DEF GoodStep, Lasts, RowTypeOK, RowType, Edits, OpinionAssumption
<1>1. SUFFICES ASSUME IsAt("approval", "rendered")', Stands("approval")',
                      row'.edit = mem'["approval"].at.edit
               PROVE  /\ mem'["approval"].edits = row'.edit
                      /\ mem'["approval"].of = LiveGlue'
  BY DEF RenderFits
<1>2. CASE mem'["approval"] = mem["approval"]
  <2>1. Stands("approval") /\ row'.glue = row.glue
    BY <1>0, <1>1, <1>2, StoodBefore
  <2>2. IsAt("approval", "rendered") /\ at.edit <= row.edit /\ OcrWritten
    BY <1>1, <1>2, <2>1, FitParts DEF ApprovalFits, IsAt
  <2>3. row.edit = at.edit /\ row'.edit = row.edit
    BY <1>0, <1>1, <1>2, <2>2
  <2>4. mem["approval"].edits = row.edit /\ mem["approval"].of = LiveGlue
    BY <2>1, <2>2, <2>3 DEF TextsFit, RenderFits
  <2>5. LiveGlue' = LiveGlue
    BY <2>1, <2>2, StampedGlueStands DEF LiveGlue
  <2> QED BY <1>2, <2>3, <2>4, <2>5
<1>3. CASE ApproveRender
  <2> DEFINE k == <<at.glue, at.ensEdit>>
             text == bucket.texts[k]
  <2>1. UNCHANGED <<row, bucket>> /\ IsAt("approval", "gated")
    BY <1>3 DEF ApproveRender
  <2>2. mem'["approval"].step = "rendered"
    BY <1>1 DEF IsAt
  <2>3. /\ text # NoText /\ mem'["approval"].at = at
        /\ mem'["approval"].of = text.of /\ mem'["approval"].edits = text.edits
    BY <1>3, <2>2, RenderSlot DEF Idle
  <2>4. k \in Revs \X Edits /\ k[1] = at.glue /\ k[2] = at.ensEdit
    BY HeldNumbers
  <2>5. Stands("approval") /\ row.edit = at.edit
    BY <1>1, <2>1, <2>3 DEF Stands
  <2>6. at.edit = at.ensEdit /\ OcrWritten
    BY <2>1, <2>5, FitParts DEF ApprovalFits, IsAt
  <2> HIDE DEF k
  <2>7. k[2] <= text.edits /\ text.edits <= row.edit
    BY <2>3, <2>4 DEF TextsFit, EditsFit
  <2>8. text.edits = row.edit
    BY <1>0, <2>4, <2>5, <2>6, <2>7, TextNumbers
  <2>9. text.of = LiveGlue
    BY <2>3, <2>4, <2>5, <2>6, OfLive DEF Stands, TextsFit
  <2> QED BY <2>1, <2>3, <2>8, <2>9 DEF LiveGlue
<1>4. CASE mem'["approval"].step # "rendered"
  BY <1>1, <1>4 DEF IsAt
<1> QED BY <1>2, <1>3, <1>4, ApprovalSlot

LEMMA TextsGood ==
  ASSUME OpinionAssumption, NotBoth, RowTypeOK, StampedFit, TextsFit, [RowNext]_rowVars
  PROVE  TextsFit'
<1>1. GoodStep
  BY StepGood
<1>2. EditsFit'
  BY <1>1, EditsStep DEF TextsFit
<1>3. OfFits'
  <2>1. "reopen" \notin Events => ReadingsFit'
    BY ReadingsStep DEF TextsFit, OfFits
  <2>2. "edit" \notin Events => BuildsFit'
    BY <1>1, BuildsStep DEF TextsFit, OfFits
  <2> QED BY <2>1, <2>2 DEF OfFits
<1>4. RenderFits'
  BY <1>1, RenderStep
<1> QED BY <1>2, <1>3, <1>4 DEF TextsFit

LEMMA TextsInit == ASSUME OpinionAssumption, Init PROVE TextsFit
<1>1. \A p \in Processes : mem[p].step = "idle"
  BY DEF Init, Idle
<1>2. /\ \A k \in Revs \X Edits : bucket.texts[k] = NoText
      /\ \A r \in Revs : bucket.glues[r] = None
      /\ scan = "done" /\ drawn = Original
  BY DEF Init
<1>3. EditsFit
  BY <1>1, <1>2 DEF EditsFit, IsAt
<1>4. ReadingsFit
  BY <1>1, <1>2 DEF ReadingsFit, IsAt
<1>5. BuildsFit
  BY <1>1, <1>2 DEF BuildsFit, IsAt
<1>6. RenderFits
  BY <1>1 DEF RenderFits, IsAt
<1> QED BY <1>3, <1>4, <1>5, <1>6 DEF TextsFit, OfFits

LEMMA TextsAlwaysFit == NotBoth /\ Spec => [](RowTypeOK /\ StampedFit /\ TextsFit)
<1>1. Init => RowTypeOK /\ StampedFit /\ TextsFit
  BY OpinionAssumption, InitGood, TextsInit
<1>2. NotBoth /\ RowTypeOK /\ StampedFit /\ TextsFit /\ [RowNext]_rowVars => (RowTypeOK /\ StampedFit /\ TextsFit)'
  BY OpinionAssumption, StepGood, TextsGood DEF GoodStep
<1>3. NotBoth => NotBoth'
  BY DEF NotBoth
<1> QED BY <1>1, <1>2, <1>3, RowsStep, PTL DEF Spec

\* A text the row calls current holds the standing edits and the live glue, in
\* a behaviour without edits or without a redaction review opened again
\* (ensemble.write).
THEOREM TextIsAlwaysCurrent == NotBoth /\ Spec => []TextIsCurrent
<1>1. ASSUME NotBoth, RowTypeOK, StampedFit, TextsFit, EnsembleWritten, row.edit = row.ensEdit,
             LiveText # NoText
      PROVE  LiveText = [of |-> LiveGlue, edits |-> row.edit]
  <2> DEFINE k == <<row.glue, row.ensEdit>>
  <2>1. k \in Revs \X Edits /\ k[1] = row.glue /\ k[2] = row.ensEdit
    BY <1>1, OpinionAssumption, RowNumbers, TypeNow DEF RowType
  <2>2. LiveText = bucket.texts[k] /\ OcrWritten
    BY <1>1 DEF LiveText, EnsembleWritten
  <2> HIDE DEF k
  <2>3. k[2] <= bucket.texts[k].edits /\ bucket.texts[k].edits <= row.edit
    BY <1>1, <2>1, <2>2 DEF TextsFit, EditsFit
  <2>4. bucket.texts[k].edits = row.edit
    BY <1>1, <2>1, <2>3, OpinionAssumption, TextNumbers, RowNumbers
  <2>5. bucket.texts[k].of = LiveGlue
    BY <1>1, <2>1, <2>2, OpinionAssumption, OfLive DEF TextsFit
  <2>6. bucket.texts[k] \in Text
    BY <1>1, <2>1, OpinionAssumption, TextNumbers
  <2> QED BY <2>2, <2>4, <2>5, <2>6 DEF Text
<1>2. NotBoth /\ RowTypeOK /\ StampedFit /\ TextsFit => TextIsCurrent
  BY <1>1 DEF TextIsCurrent, LiveGlue
<1>3. NotBoth => NotBoth'
  BY DEF NotBoth
<1> QED BY <1>2, <1>3, TextsAlwaysFit, PTL

\* What a curator approves is the text of the live revision with every standing
\* edit, in the same behaviours (opinion_review.approve_text).
THEOREM ApprovedIsAlwaysWhole == NotBoth /\ Spec => ApprovedIsWhole
<1>1. ASSUME NotBoth, RowTypeOK, StampedFit, TextsFit, [RowNext]_rowVars, Approves
      PROVE  /\ row'.approved.edits = row.edit
             /\ row'.approved.of = bucket.glues[row.glue]
             /\ row.ens = row.glue
  <2>1. Approve
    BY <1>1, OpinionAssumption, StepStatus
  <2>2. row' # row
    BY <1>1 DEF Approves
  <2>3. /\ row'.approved = Approval
        /\ Stands("approval") /\ row.edit = mem["approval"].at.edit /\ row.ens = row.glue
    BY <1>1, <2>1, <2>2, OpinionAssumption, ApproveRow
  <2>4. mem["approval"].edits = row.edit /\ mem["approval"].of = LiveGlue
    BY <1>1, <2>1, <2>3 DEF Approve, TextsFit, RenderFits
  <2> QED BY <2>3, <2>4 DEF Approval, LiveGlue
<1>2. NotBoth /\ RowTypeOK /\ StampedFit /\ TextsFit /\ [RowNext]_rowVars
        => [row.status # "done" /\ row'.status = "done" =>
              /\ row'.approved.edits = row.edit
              /\ row'.approved.of = bucket.glues[row.glue]
              /\ row.ens = row.glue]_row
  BY <1>1 DEF Approves
<1>3. NotBoth => NotBoth'
  BY DEF NotBoth
<1> QED BY <1>2, <1>3, TextsAlwaysFit, RowsStep, PTL DEF Spec, ApprovedIsWhole
=============================================================================
