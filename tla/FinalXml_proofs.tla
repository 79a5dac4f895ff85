---------------------------- MODULE FinalXml_proofs ----------------------------
(***************************************************************************)
(* Theorems about FinalXml, for any number of texts, runs, attempts and    *)
(* kills.                                                                  *)
(***************************************************************************)
EXTENDS FinalXml, FiniteSetTheorems, TLAPS

\* What two of the theorems leave out: a PUT whose answer is lost, and an
\* exporter that dies between its PUT and its stamp.
NothingLost == "lost" \notin Events

-----------------------------------------------------------------------------
(* Texts and runs are numbered in the order they are written, so a text no *)
(* process has read yet is above every text one has.                       *)

Numbered ==
  /\ \E n \in 0..MaxTexts : UsedTexts = 1..n
  /\ \E n \in 0..MaxRuns : UsedRuns = 1..n

\* The runs with a result, and that each was made from the body of its run.
Resulted   == {r \in Runs : HasResult(r)}
ResultsFit == \A r \in Resulted : runs[r].made = runs[r].of

\* Spans over a text: made from the body the text has.
Fits(tag, text) ==
  /\ text \in UsedTexts
  /\ Exists => /\ text <= opinion.text /\ tag.over <= text
               /\ tag.run \in Resulted /\ runs[tag.run].made = body[text]

RowFits ==
  /\ opinion.text \in UsedTexts \cup {NoText}
  /\ opinion.status = "approved" => opinion.text # NoText
  /\ Exists /\ UsedRuns # {} => opinion.text # NoText
  /\ opinion.tag = NoSpans <=> opinion.tagged = NoText
  /\ opinion.tag # NoSpans => Exists /\ Fits(opinion.tag, opinion.tagged)
  /\ Exists /\ opinion.stamp # NoSpans => opinion.stamp.over <= opinion.text

FileFits == Exists /\ file # NoFile => Fits(file.tag, file.text)

\* What a run that is being glued, a press and a rewrite hold.
GluerFits(p) ==
  /\ mem[p].step \in {"place", "placed", "consume"} =>
       mem[p].run \in Runs /\ (Exists => mem[p].run \in Resulted)
  /\ mem[p].step = "placed" =>
       /\ mem[p].text \in UsedTexts
       /\ Exists => /\ mem[p].text <= opinion.text
                    /\ runs[mem[p].run].made = body[mem[p].text]

PressFits ==
  IsAt("press", "pressed") =>
    /\ mem["press"].text \in UsedTexts
    /\ Exists => mem["press"].text <= opinion.text

RewriteFits ==
  IsAt("rewrite", "read") => mem["rewrite"].text \in UsedTexts

\* The exporter holds a pair of text and spans that fit each other.
HolderFits ==
  /\ Holder.step \in {"render", "put", "moved"} =>
       Holder.tag \in Spans /\ Fits(Holder.tag, Holder.text)
  /\ Holder.step = "render" => Holder.attempts < MaxAttempts
  /\ Holder.step \in {"delete", "clear"} => Holder.tag \in Spans

AdminFits == IsAt("admin", "gone") => ~Exists

PairsFit ==
  /\ Numbered /\ ResultsFit /\ RowFits /\ FileFits
  /\ \A p \in Gluers : GluerFits(p)
  /\ PressFits /\ RewriteFits /\ HolderFits /\ AdminFits

-----------------------------------------------------------------------------
(* The stamp and the object.                                               *)

\* The row will not ask for the stamped pair again: its text is above it, and
\* spans over that text are other spans.
Surpassed ==
  opinion.status = "approved" =>
    /\ opinion.stamp.over < opinion.text
    /\ opinion.tagged = opinion.text => opinion.stamp.over < opinion.tag.over

\* The object is of the stamped spans, and of the row's text when these are the
\* row's spans.
Matched ==
  /\ file # NoFile /\ file.tag = opinion.stamp
  /\ IsTagged /\ opinion.stamp = opinion.tag => file.text = opinion.text

StampFits ==
  /\ Exists /\ opinion.current /\ Holder.step \notin {"put", "moved"} =>
       Matched \/ Surpassed
  /\ Holder.step \in {"delete", "clear"} /\ Exists =>
       opinion.stamp = Holder.tag /\ Surpassed
  /\ Holder.step = "clear" => file = NoFile
  /\ Holder.step \in {"put", "moved"} /\ Exists =>
       file = [text |-> Holder.text, tag |-> Holder.tag]
  /\ Holder.orphan => ~Exists

ObjectFits == StampFits /\ ObjectIsNamed

-----------------------------------------------------------------------------

(* Types.                                                                  *)

USE DEF None, Processes, Gluers

LEMMA SlotSet == Slot = [step : Steps, text : Texts \cup {NoText}, tagged : Texts \cup {NoText},
                         tag : Spans \cup {NoSpans}, run : Runs \cup {0},
                         attempts : 0..MaxAttempts, command : BOOLEAN, orphan : BOOLEAN]
BY DEF Slot

LEMMA CountTexts ==
  ASSUME FinalXmlAssumption, Numbered
  PROVE  /\ NewText - 1 \in 0..MaxTexts /\ UsedTexts = 1..(NewText - 1)
         /\ LiveRun \in 0..MaxRuns /\ UsedRuns = 1..LiveRun
<1>1. PICK n \in 0..MaxTexts : UsedTexts = 1..n
  BY DEF Numbered
<1>2. PICK k \in 0..MaxRuns : UsedRuns = 1..k
  BY DEF Numbered
<1>3. Cardinality(1..n) = n
  BY <1>1, FS_Interval DEF FinalXmlAssumption
<1>4. Cardinality(1..k) = k
  BY <1>2, FS_Interval DEF FinalXmlAssumption
<1> QED BY <1>1, <1>2, <1>3, <1>4 DEF NewText, LiveRun, FinalXmlAssumption

\* A text that is written is a new one, above all others.
LEMMA NextText ==
  ASSUME TypeOK, FinalXmlAssumption, Numbered, NEW b \in Bodies, Written(b), runs' = runs
  PROVE  /\ NewText \in Texts /\ NewText \notin UsedTexts
         /\ UsedTexts' = UsedTexts \cup {NewText}
         /\ \A t \in UsedTexts : t < NewText /\ body'[t] = body[t]
         /\ body'[NewText] = b
         /\ Numbered'
<1>1. /\ NewText \in Texts /\ UsedTexts = 1..(NewText - 1)
      /\ NewText - 1 \in 0..MaxTexts
  BY CountTexts DEF Written
<1>2. NewText \notin UsedTexts /\ \A t \in UsedTexts : t < NewText
  BY <1>1 DEF Texts, FinalXmlAssumption
<1>3. body' = [body EXCEPT ![NewText] = b] /\ b # None
  BY DEF Written, FinalXmlAssumption
<1>4. /\ UsedTexts' = UsedTexts \cup {NewText}
      /\ \A t \in UsedTexts : body'[t] = body[t]
      /\ body'[NewText] = b
  BY <1>1, <1>2, <1>3 DEF UsedTexts, TypeOK
<1>5. UsedTexts' = 1..NewText
  BY <1>1, <1>4 DEF Texts, FinalXmlAssumption
<1>6. UsedRuns' = UsedRuns
  BY DEF UsedRuns
<1> QED BY <1>1, <1>2, <1>4, <1>5, <1>6 DEF Numbered, Texts, FinalXmlAssumption

RunType == [of : Bodies \cup {None}, made : Bodies \cup {None},
            state : RunStates, gaveUp : BOOLEAN]

\* A new run is over the body, and with a result only over one of that body.
LEMMA NewRunIs ==
  ASSUME TypeOK, NEW b \in Bodies, NEW run \in NewRuns(b)
  PROVE  /\ run \in RunType /\ run.of = b
         /\ \/ run.state = "pending"
            \/ /\ run.state = "completed"
               /\ \E r \in Runs : HasResult(r) /\ runs[r].of = b /\ run.made = runs[r].made
<1>1. CASE run = [NoRun EXCEPT !.of = b, !.state = "pending"]
  BY <1>1 DEF NoRun, RunType, RunStates
<1>2. CASE \E r \in PaidRuns(b) :
             run = [NoRun EXCEPT !.of = b, !.made = runs[r].made, !.state = "completed"]
  <2>1. PICK r \in PaidRuns(b) :
               run = [NoRun EXCEPT !.of = b, !.made = runs[r].made, !.state = "completed"]
    BY <1>2
  <2>2. r \in Runs /\ HasResult(r) /\ runs[r].of = b /\ runs[r].made \in Bodies \cup {None}
    BY <2>1 DEF PaidRuns, UsedRuns, TypeOK
  <2> QED BY <2>1, <2>2 DEF NoRun, RunType, RunStates
<1> QED BY <1>1, <1>2 DEF NewRuns

LEMMA TypeInit == Init => TypeOK
<1> SUFFICES ASSUME Init PROVE TypeOK
  OBVIOUS
<1>1. Idle \in Slot
  BY FinalXmlAssumption DEF Idle, Slot, Steps
<1> QED BY <1>1, FinalXmlAssumption DEF Init, TypeOK, Blank, NoRun, RunStates

LEMMA IdleSlot == Idle \in Slot
BY FinalXmlAssumption DEF Idle, Slot, Steps

Row == [status : {"open", "approved", "gone"},
        text : Texts \cup {NoText}, tag : Spans \cup {NoSpans},
        tagged : Texts \cup {NoText}, stamp : Spans \cup {NoSpans},
        current : BOOLEAN, attempts : 0..MaxAttempts]

LEMMA RowFields ==
  ASSUME NEW r \in Row
  PROVE  /\ \A x \in {"open", "approved", "gone"} : [r EXCEPT !.status = x] \in Row
         /\ \A x \in Texts : [r EXCEPT !.text = x] \in Row
         /\ \A x \in Texts : [r EXCEPT !.tagged = x] \in Row
         /\ \A x \in Spans \cup {NoSpans} : [r EXCEPT !.stamp = x] \in Row
         /\ \A x \in BOOLEAN : [r EXCEPT !.current = x] \in Row
         /\ \A x \in 0..MaxAttempts : [r EXCEPT !.attempts = x] \in Row
BY DEF Row

LEMMA RowChanges ==
  ASSUME FinalXmlAssumption, NEW r \in Row, NEW t \in Texts, NEW tag \in Spans \cup {NoSpans}
  PROVE  /\ [r EXCEPT !.text = t, !.tagged = t, !.current = FALSE, !.attempts = 0] \in Row
         /\ [r EXCEPT !.tag = tag, !.tagged = t, !.attempts = 0] \in Row
<1>1. 0 \in 0..MaxAttempts
  BY DEF FinalXmlAssumption
<1>2. [r EXCEPT !.text = t, !.tagged = t, !.current = FALSE, !.attempts = 0] \in Row
  BY <1>1 DEF Row
<1>3. [r EXCEPT !.tag = tag, !.tagged = t, !.attempts = 0] \in Row
  BY <1>1 DEF Row
<1> QED BY <1>2, <1>3

LEMMA RowStamped ==
  ASSUME FinalXmlAssumption, NEW r \in Row, NEW tag \in Spans \cup {NoSpans}
  PROVE  [r EXCEPT !.stamp = tag, !.current = TRUE, !.attempts = 0] \in Row
<1>1. 0 \in 0..MaxAttempts
  BY DEF FinalXmlAssumption
<1> QED BY <1>1 DEF Row

LEMMA BlankRow == ASSUME FinalXmlAssumption PROVE [Blank EXCEPT !.status = "gone"] \in Row
<1>1. 0 \in 0..MaxAttempts
  BY DEF FinalXmlAssumption
<1> QED BY <1>1 DEF Blank, Row

\* One process moves to another step, or ends.
LEMMA TypeOfMove ==
  ASSUME TypeOK, FinalXmlAssumption, NEW p \in Processes, NEW s \in Steps,
         Goes(p, s) \/ Ends(p)
  PROVE  mem' \in [Processes -> Slot]
BY IdleSlot DEF TypeOK, Goes, Ends, Slot

LEMMA TypeStep == TypeOK /\ PairsFit /\ [Next]_vars => TypeOK'
<1> SUFFICES ASSUME TypeOK, PairsFit, [Next]_vars PROVE TypeOK'
  OBVIOUS
<1> USE FinalXmlAssumption, IdleSlot
<1>0. /\ opinion.text \in UsedTexts \cup {NoText} /\ UsedTexts \subseteq Texts
      /\ UsedRuns \subseteq Runs /\ (opinion.status = "approved" => opinion.text \in Texts)
      /\ LiveRun \in Nat /\ (LiveRun # 0 => LiveRun \in Runs)
  BY CountTexts DEF PairsFit, RowFits, UsedTexts, UsedRuns, NoText, Runs
<1>1. CASE Approve
  <2>1. PICK b \in Bodies : Written(b)
    BY <1>1 DEF Approve
  <2>2. body' \in [Texts -> Bodies \cup {None}] /\ NewText \in Texts
    BY <2>1 DEF Written, TypeOK
  <2>3. opinion' \in Row
    BY <1>1, <2>2 DEF Approve, Row, TypeOK
  <2> QED BY <1>1, <2>2, <2>3 DEF Approve, Row, TypeOK
<1>2. CASE ReopenText
  BY <1>2 DEF ReopenText, TypeOK
<1>3. CASE RewriteRead
  BY <1>3 DEF RewriteRead, TypeOK, Slot, Idle, Steps
<1>4. CASE RewriteSwap
  <2>1. PICK b \in Bodies :
          /\ Written(b)
          /\ \/ opinion' = opinion
             \/ opinion' = [opinion EXCEPT !.text = NewText, !.tagged = NewText,
                                           !.current = FALSE, !.attempts = 0]
             \/ opinion' = [opinion EXCEPT !.text = NewText]
    BY <1>4 DEF RewriteSwap
  <2>2. body' \in [Texts -> Bodies \cup {None}] /\ NewText \in Texts
    BY <2>1 DEF Written, TypeOK
  <2>3. opinion' \in Row
    <3>1. opinion \in Row
      BY DEF Row, TypeOK
    <3>2. [opinion EXCEPT !.text = NewText, !.tagged = NewText,
                          !.current = FALSE, !.attempts = 0] \in Row
      BY <3>1, <2>2, RowChanges
    <3>3. [opinion EXCEPT !.text = NewText] \in Row
      BY <3>1, <2>2, RowFields
    <3> QED BY <2>1, <3>1, <3>2, <3>3
  <2>4. mem' \in [Processes -> Slot]
    BY <1>4 DEF RewriteSwap, Ends, TypeOK
  <2> QED BY <1>4, <2>2, <2>3, <2>4 DEF RewriteSwap, Row, TypeOK
<1>5. CASE PressRead
  BY <1>5 DEF PressRead, TypeOK, Slot, Idle, Steps
<1>6. CASE PressEnsure
  <2> DEFINE wanted == body[mem["press"].text]
             reused == LiveRun # 0 /\ runs[LiveRun].of = wanted /\ runs[LiveRun].state # "dead"
             target == IF reused THEN LiveRun ELSE LiveRun + 1
  <2>1. wanted \in Bodies /\ target \in Runs
    BY <1>6, <1>0 DEF PressEnsure, PairsFit, PressFits, UsedTexts, TypeOK
  <2>2. runs' \in [Runs -> RunType]
    <3>1. runs' = runs \/ \E run \in NewRuns(wanted) : runs' = [runs EXCEPT ![target] = run]
      BY <1>6 DEF PressEnsure
    <3> HIDE DEF target, wanted
    <3> QED BY <2>1, <3>1, NewRunIs DEF TypeOK, RunType
  <2>3. mem' \in [Processes -> Slot]
    <3>1. \/ mem' = [mem EXCEPT !["press"] = [Idle EXCEPT !.step = "place", !.run = target]]
          \/ Ends("press")
      BY <1>6 DEF PressEnsure
    <3>2. [Idle EXCEPT !.step = "place", !.run = target] \in Slot
      <4> HIDE DEF target
      <4> QED BY <2>1 DEF Slot, Idle, Steps
    <3> DEFINE slot == [Idle EXCEPT !.step = "place", !.run = target]
    <3> HIDE DEF slot
    <3>3. mem' = [mem EXCEPT !["press"] = slot] \/ Ends("press")
      BY <3>1 DEF slot
    <3> QED BY <3>2, <3>3 DEF Ends, TypeOK, slot
  <2> QED BY <1>6, <2>2, <2>3 DEF PressEnsure, TypeOK, RunType
<1>7. CASE RunEnds
  <2>1. PICK r \in UsedRuns, state \in {"completed", "dead"} :
          runs' = [runs EXCEPT ![r].state = state,
                               ![r].made = IF state = "completed" THEN runs[r].of ELSE None]
    BY <1>7 DEF RunEnds
  <2>2. runs \in [Runs -> RunType]
    BY DEF TypeOK, RunType
  <2>3. runs' \in [Runs -> RunType]
    <3> DEFINE run == [runs[r] EXCEPT !.state = state,
                         !.made = IF state = "completed" THEN runs[r].of ELSE None]
    <3>1. r \in Runs /\ run \in RunType
      BY <2>2 DEF UsedRuns, RunType, RunStates
    <3>2. runs' = [runs EXCEPT ![r] = run]
      BY <2>1
    <3> QED BY <2>2, <3>1, <3>2
  <2> QED BY <1>7, <2>3 DEF RunEnds, TypeOK, RunType
<1>8. CASE GluePick
  BY <1>8, <1>0 DEF GluePick, TypeOK, Slot, Idle, Steps
<1>9. ASSUME NEW p \in Gluers, GlueRead(p) PROVE TypeOK'
  BY <1>9 DEF GlueRead, Goes, TypeOK, Slot, Steps
<1>10. ASSUME NEW p \in Gluers, GlueStamp(p) PROVE TypeOK'
  <2>1. mem[p].run \in Runs /\ mem[p].text \in Texts
    BY <1>10, <1>0 DEF GlueStamp, IsAt, PairsFit, GluerFits
  <2>2. [run |-> mem[p].run, over |-> mem[p].text] \in Spans
    BY <2>1 DEF Spans
  <2>3. mem' \in [Processes -> Slot]
    BY <1>10 DEF GlueStamp, Goes, TypeOK, Slot, Steps
  <2> DEFINE tag == [run |-> mem[p].run, over |-> mem[p].text]
  <2>4. tag \in Spans
    BY <2>2
  <2>5. \/ opinion' = opinion
        \/ opinion' = [opinion EXCEPT !.tag = tag, !.tagged = mem[p].text, !.attempts = 0]
    BY <1>10 DEF GlueStamp
  <2> HIDE DEF tag
  <2>6. opinion' \in Row
    <3>1. opinion \in Row
      BY DEF Row, TypeOK
    <3>2. [opinion EXCEPT !.tag = tag, !.tagged = mem[p].text, !.attempts = 0] \in Row
      BY <3>1, <2>1, <2>4, RowChanges
    <3> QED BY <2>5, <3>1, <3>2
  <2> QED BY <1>10, <2>3, <2>6 DEF GlueStamp, Row, TypeOK
<1>11. ASSUME NEW p \in Gluers, GlueFails(p) PROVE TypeOK'
  BY <1>11 DEF GlueFails, Ends, PairsFit, GluerFits, TypeOK
<1>12. ASSUME NEW p \in Gluers, Consume(p) PROVE TypeOK'
  BY <1>12 DEF Consume, Ends, IsAt, PairsFit, GluerFits, TypeOK, RunStates
<1>13. CASE CommandLists
  <2>1. PICK rewrite \in BOOLEAN :
          opinion' = [opinion EXCEPT
                        !.attempts = IF Owed \/ (rewrite /\ IsWritten) THEN 0 ELSE @,
                        !.current = @ /\ ~(rewrite /\ IsWritten)]
    BY <1>13 DEF CommandLists
  <2>2. PICK n \in 0..MaxAttempts, c \in BOOLEAN :
          opinion' = [opinion EXCEPT !.attempts = n, !.current = c]
    <3>1. (IF Owed \/ (rewrite /\ IsWritten) THEN 0 ELSE opinion.attempts) \in 0..MaxAttempts
      BY DEF TypeOK
    <3>2. (opinion.current /\ ~(rewrite /\ IsWritten)) \in BOOLEAN
      OBVIOUS
    <3> QED BY <2>1, <3>1, <3>2
  <2>3. opinion' \in Row
    BY <2>2 DEF Row, TypeOK
  <2>4. [Idle EXCEPT !.step = "listed", !.command = TRUE, !.orphan = Orphaned] \in Slot
    BY DEF Slot, Idle, Steps, Orphaned
  <2>5. mem' \in [Processes -> Slot]
    BY <1>13, <2>4 DEF CommandLists, TypeOK
  <2> QED BY <1>13, <2>3, <2>5 DEF CommandLists, Row, TypeOK
<1>14. CASE WithdrawRead
  <2>1. opinion.stamp \in Spans \cup {NoSpans}
    BY DEF TypeOK
  <2>2. mem' \in [Processes -> Slot]
    <3> DEFINE slot == [mem["exporter"] EXCEPT !.step = "delete", !.tag = opinion.stamp]
    <3>1. slot \in Slot
      BY <2>1 DEF TypeOK, Slot, Steps
    <3>2. mem' = [mem EXCEPT !["exporter"] = slot]
      BY <1>14 DEF WithdrawRead, TypeOK
    <3> HIDE DEF slot
    <3> QED BY <3>1, <3>2 DEF TypeOK
  <2> QED BY <1>14, <2>2 DEF WithdrawRead, TypeOK
<1>15. CASE WithdrawDelete
  BY <1>15 DEF WithdrawDelete, AfterWithdraw, Goes, Ends, TypeOK, Slot, Steps
<1>16. CASE WithdrawClear
  <2>1. mem' \in [Processes -> Slot]
    BY <1>16, TypeOfMove DEF WithdrawClear, AfterWithdraw, Steps
  <2>2. opinion' \in Row
    BY <1>16 DEF WithdrawClear, Row, TypeOK
  <2> QED BY <1>16, <2>1, <2>2 DEF WithdrawClear, Row, TypeOK
<1>17. CASE ExportRead
  <2>1. /\ opinion.text \in Texts \cup {NoText} /\ opinion.tag \in Spans \cup {NoSpans}
        /\ opinion.attempts \in 0..MaxAttempts
    BY DEF TypeOK
  <2>2. mem' \in [Processes -> Slot]
    <3> DEFINE slot == [mem["exporter"] EXCEPT !.step = "render", !.text = opinion.text,
                          !.tag = opinion.tag, !.attempts = opinion.attempts]
    <3>1. slot \in Slot
      BY <2>1 DEF TypeOK, Slot, Steps
    <3>2. mem' = [mem EXCEPT !["exporter"] = slot]
      BY <1>17 DEF ExportRead, TypeOK
    <3> HIDE DEF slot
    <3> QED BY <3>1, <3>2 DEF TypeOK
  <2> QED BY <1>17, <2>2 DEF ExportRead, TypeOK
<1>18. CASE ExportPut
  <2>1. Holder.tag \in Spans /\ Holder.text \in Texts
    BY <1>18, <1>0 DEF ExportPut, IsAt, Holder, PairsFit, HolderFits, Fits
  <2>2. file' \in Files \cup {NoFile}
    BY <1>18, <2>1 DEF ExportPut, Files, TypeOK
  <2> QED BY <1>18, <2>2 DEF ExportPut, AfterExport, Goes, Ends, TypeOK, Slot, Steps
<1>19. CASE ExportFails
  <2>1. Holder.attempts + 1 \in 0..MaxAttempts
    BY <1>19 DEF ExportFails, IsAt, Holder, PairsFit, HolderFits, TypeOK, Slot
  <2> QED BY <1>19, <2>1 DEF ExportFails, AfterExport, Goes, Ends, TypeOK, Slot, Steps
<1>20. CASE ExportStamp
  <2>1. mem' \in [Processes -> Slot]
    BY <1>20, TypeOfMove DEF ExportStamp, AfterExport, Steps
  <2>2. Holder.tag \in Spans \cup {NoSpans}
    BY DEF Holder, TypeOK, Slot
  <2>3. opinion' \in Row
    <3>1. opinion \in Row
      BY DEF Row, TypeOK
    <3>2. \/ opinion' = opinion
          \/ opinion' = [opinion EXCEPT !.stamp = Holder.tag, !.current = TRUE, !.attempts = 0]
      BY <1>20 DEF ExportStamp
    <3>3. [opinion EXCEPT !.stamp = Holder.tag, !.current = TRUE, !.attempts = 0] \in Row
      BY <3>1, <2>2, RowStamped
    <3> QED BY <3>1, <3>2, <3>3
  <2> QED BY <1>20, <2>1, <2>3 DEF ExportStamp, Row, TypeOK
<1>21. CASE ExportMark
  <2>1. mem' \in [Processes -> Slot]
    BY <1>21, TypeOfMove DEF ExportMark, AfterExport, Steps
  <2>2. (IF opinion.stamp = NoSpans THEN Holder.tag ELSE opinion.stamp) \in Spans \cup {NoSpans}
    BY DEF Holder, TypeOK, Slot
  <2>3. opinion' \in Row
    BY <1>21, <2>2 DEF ExportMark, Row, TypeOK
  <2> QED BY <1>21, <2>1, <2>3 DEF ExportMark, Row, TypeOK
<1>22. CASE Sweep
  BY <1>22 DEF Sweep, Ends, TypeOK
<1>23. CASE DeleteScan
  <2>1. mem' \in [Processes -> Slot]
    BY <1>23, TypeOfMove DEF DeleteScan, Steps
  <2>2. opinion' \in Row
    BY <1>23, BlankRow DEF DeleteScan
  <2>3. runs' \in [Runs -> RunType]
    BY <1>23 DEF DeleteScan, NoRun, RunStates, RunType
  <2> QED BY <1>23, <2>1, <2>2, <2>3 DEF DeleteScan, Row, RunType, TypeOK
<1>24. CASE DeleteExport
  BY <1>24 DEF DeleteExport, Ends, TypeOK
<1>25. ASSUME NEW p \in {"exporter", "glue"}, Die(p) PROVE TypeOK'
  BY <1>25 DEF Die, Ends, TypeOK
<1>26. CASE UNCHANGED vars
  BY <1>26 DEF vars, TypeOK
<1> QED
  BY <1>1, <1>2, <1>3, <1>4, <1>5, <1>6, <1>7, <1>8, <1>9, <1>10, <1>11, <1>12, <1>13,
     <1>14, <1>15, <1>16, <1>17, <1>18, <1>19, <1>20, <1>21, <1>22, <1>23, <1>24, <1>25,
     <1>26 DEF Next, TextNext, TaggerNext, ExportNext, DeleteNext

-----------------------------------------------------------------------------
(* Pairs.                                                                  *)

\* No step takes back a text, or, while the scan is there, a run; the row's text
\* only moves up.
Monotone ==
  /\ UsedTexts \subseteq UsedTexts' /\ UsedTexts' \subseteq Texts
  /\ \A t \in UsedTexts : body'[t] = body[t]
  /\ Exists' => /\ Exists /\ opinion.text <= opinion'.text
                /\ Resulted \subseteq Resulted'
                /\ \A r \in Resulted : runs'[r].made = runs[r].made

LEMMA FitsStays ==
  ASSUME NEW tag, NEW text, tag.over \in Texts, Fits(tag, text), Monotone, TypeOK, TypeOK'
  PROVE  Fits(tag, text)'
<1>1. opinion.text \in Nat /\ opinion'.text \in Nat /\ text \in Nat /\ tag.over \in Nat
  BY DEF TypeOK, Texts, NoText, Fits, UsedTexts
<1> QED BY <1>1 DEF Fits, Monotone

LEMMA GluerStays ==
  ASSUME PairsFit, Monotone, TypeOK, TypeOK', NEW p \in Gluers, mem'[p] \in {mem[p], Idle}
  PROVE  GluerFits(p)'
<1>1. GluerFits(p)
  BY DEF PairsFit
<1>2. mem[p].text \in UsedTexts => mem[p].text \in Nat
  BY DEF UsedTexts, Texts
<1>3. opinion.text \in Nat /\ opinion'.text \in Nat
  BY DEF TypeOK, Texts, NoText
<1>4. CASE mem'[p] = mem[p]
  BY <1>1, <1>2, <1>3, <1>4 DEF GluerFits, Monotone
<1>5. CASE mem'[p] = Idle
  BY <1>5 DEF GluerFits, Idle
<1> QED BY <1>4, <1>5

LEMMA PressStays ==
  ASSUME PairsFit, Monotone, TypeOK, TypeOK',
         mem'["press"] = mem["press"] \/ mem'["press"].step # "pressed"
  PROVE  PressFits'
<1>1. mem["press"].text \in UsedTexts => mem["press"].text \in Nat
  BY DEF UsedTexts, Texts
<1>2. opinion.text \in Nat /\ opinion'.text \in Nat
  BY DEF TypeOK, Texts, NoText
<1> QED BY <1>1, <1>2 DEF PairsFit, PressFits, IsAt, Monotone

LEMMA RewriteStays ==
  ASSUME PairsFit, Monotone, mem'["rewrite"] \in {mem["rewrite"], Idle}
  PROVE  RewriteFits'
BY DEF PairsFit, RewriteFits, IsAt, Monotone, Idle

LEMMA AdminStays ==
  ASSUME PairsFit, Monotone, mem'["admin"] \in {mem["admin"], Idle}
  PROVE  AdminFits'
BY DEF PairsFit, AdminFits, IsAt, Monotone, Idle

\* The exporter goes on with the pair it holds, or lets go of it.
HolderGoes ==
  /\ Holder'.step \in {"render", "put", "moved"} =>
       /\ Holder.step \in {"render", "put", "moved"}
       /\ Holder'.tag = Holder.tag /\ Holder'.text = Holder.text
  /\ Holder'.step = "render" => Holder.step = "render" /\ Holder'.attempts = Holder.attempts
  /\ Holder'.step \in {"delete", "clear"} =>
       Holder.step \in {"delete", "clear"} /\ Holder'.tag = Holder.tag

LEMMA HolderStays ==
  ASSUME PairsFit, Monotone, TypeOK, TypeOK', HolderGoes
  PROVE  HolderFits'
<1>1. HolderFits
  BY DEF PairsFit
<1>2. ASSUME Holder'.step \in {"render", "put", "moved"}
      PROVE  Holder'.tag \in Spans /\ Fits(Holder.tag, Holder.text)'
  <2>1. SUFFICES ASSUME NEW tag, tag = Holder.tag, NEW text, text = Holder.text
                 PROVE  Holder'.tag \in Spans /\ Fits(Holder.tag, Holder.text)'
    OBVIOUS
  <2>2. tag \in Spans /\ Fits(tag, text) /\ tag.over \in Texts
    BY <1>1, <1>2, <2>1 DEF HolderGoes, HolderFits, Spans
  <2>3. Fits(tag, text)'
    BY <2>2, FitsStays
  <2>4. Holder'.tag = tag /\ Holder'.text = text
    BY <1>2, <2>1 DEF HolderGoes
  <2> QED BY <2>2, <2>3, <2>4 DEF Fits
<1>3. Holder'.step = "render" => Holder'.attempts < MaxAttempts
  BY <1>1 DEF HolderGoes, HolderFits
<1>4. Holder'.step \in {"delete", "clear"} => Holder'.tag \in Spans
  BY <1>1 DEF HolderGoes, HolderFits
<1> QED BY <1>2, <1>3, <1>4 DEF HolderFits

LEMMA FileStays ==
  ASSUME PairsFit, Monotone, TypeOK, TypeOK', file' \in {file, NoFile}
  PROVE  FileFits'
<1>1. SUFFICES ASSUME Exists', file' # NoFile PROVE Fits(file.tag, file.text)'
  BY DEF FileFits
<1>2. SUFFICES ASSUME NEW tag, tag = file.tag, NEW text, text = file.text
               PROVE  Fits(file.tag, file.text)'
  OBVIOUS
<1>3. Fits(tag, text) /\ tag.over \in Texts
  BY <1>1, <1>2 DEF PairsFit, FileFits, Monotone, TypeOK, Files, Spans
<1>4. Fits(tag, text)'
  BY <1>3, FitsStays
<1>5. file'.tag = tag /\ file'.text = text
  BY <1>1, <1>2
<1> QED BY <1>4, <1>5 DEF Fits

LEMMA SameTexts ==
  ASSUME TypeOK, PairsFit, body' = body,
         \A r \in Runs : /\ runs'[r].of = runs[r].of /\ runs'[r].made = runs[r].made
                         /\ runs'[r].state # "none" <=> runs[r].state # "none"
                         /\ runs'[r].state \in {"completed", "consumed"} <=>
                              runs[r].state \in {"completed", "consumed"},
         Exists' => Exists /\ opinion'.text = opinion.text
  PROVE  Monotone /\ Numbered' /\ ResultsFit' /\ UsedRuns' = UsedRuns
<1>1. UsedTexts' = UsedTexts /\ UsedRuns' = UsedRuns
  BY DEF UsedTexts, UsedRuns
<1>2. Resulted' = Resulted /\ ResultsFit'
  BY DEF PairsFit, Resulted, ResultsFit, HasResult
<1>3. Numbered'
  BY <1>1 DEF PairsFit, Numbered
<1>4. opinion.text \in Nat
  BY DEF TypeOK, Texts, NoText
<1> QED BY <1>1, <1>2, <1>3, <1>4 DEF Monotone, UsedTexts, Resulted

LEMMA NewTexts ==
  ASSUME TypeOK, PairsFit, FinalXmlAssumption, NEW b \in Bodies, Written(b), runs' = runs,
         Exists' => Exists, opinion'.text \in {opinion.text, NewText}
  PROVE  Monotone /\ Numbered' /\ ResultsFit' /\ UsedRuns' = UsedRuns
<1>1. Numbered
  BY DEF PairsFit
<1>2. /\ UsedTexts' = UsedTexts \cup {NewText} /\ NewText \in Texts
      /\ \A t \in UsedTexts : t < NewText /\ body'[t] = body[t]
      /\ Numbered'
  BY <1>1, NextText
<1>3. opinion.text \in Nat /\ opinion.text < NewText
  BY <1>2 DEF TypeOK, PairsFit, RowFits, Texts, NoText
<1>4. UsedRuns' = UsedRuns /\ Resulted' = Resulted /\ ResultsFit'
  BY DEF UsedRuns, PairsFit, Resulted, ResultsFit, HasResult
<1> QED BY <1>2, <1>3, <1>4 DEF Monotone, UsedTexts, Texts

LEMMA MonotoneStep ==
  ASSUME TypeOK, PairsFit, FinalXmlAssumption, [Next]_vars
  PROVE  Monotone /\ Numbered' /\ ResultsFit'
<1> USE FinalXmlAssumption
<1>1. CASE Approve
  <2>1. PICK b \in Bodies : Written(b)
    BY <1>1 DEF Approve
  <2>2. opinion'.text = NewText /\ Exists /\ runs' = runs
    BY <1>1 DEF Approve, Exists, TypeOK
  <2> QED BY <2>1, <2>2, NewTexts
<1>2. CASE ReopenText
  BY <1>2, SameTexts DEF ReopenText, Exists, TypeOK
<1>3. CASE RewriteRead
  BY <1>3, SameTexts DEF RewriteRead, Exists
<1>4. CASE RewriteSwap
  <2>1. PICK b \in Bodies :
          /\ Written(b)
          /\ \/ opinion' = opinion
             \/ opinion' = [opinion EXCEPT !.text = NewText, !.tagged = NewText,
                                           !.current = FALSE, !.attempts = 0]
             \/ opinion' = [opinion EXCEPT !.text = NewText]
    BY <1>4 DEF RewriteSwap
  <2>2. opinion'.text \in {opinion.text, NewText} /\ opinion'.status = opinion.status
    BY <2>1 DEF TypeOK
  <2> QED BY <1>4, <2>1, <2>2, NewTexts DEF RewriteSwap, Exists
<1>5. CASE PressRead
  BY <1>5, SameTexts DEF PressRead, Exists
<1>6. CASE PressEnsure
  <2> DEFINE wanted == body[mem["press"].text]
             reused == LiveRun # 0 /\ runs[LiveRun].of = wanted /\ runs[LiveRun].state # "dead"
             target == IF reused THEN LiveRun ELSE LiveRun + 1
  <2>1. CASE runs' = runs
    BY <1>6, <2>1, SameTexts DEF PressEnsure, Exists
  <2>2. CASE runs' # runs
    <3>1. ~reused /\ LiveRun + 1 \in Runs
      BY <1>6, <2>2 DEF PressEnsure
    <3>2. PICK run \in NewRuns(wanted) : runs' = [runs EXCEPT ![LiveRun + 1] = run]
      <4>1. target = LiveRun + 1
        BY <3>1
      <4> QED BY <1>6, <3>1, <4>1 DEF PressEnsure
    <3>a. run.state # "none"
          /\ (run.state \in {"completed", "consumed"} => run.made = run.of)
      <4>1. wanted \in Bodies
        BY <1>6 DEF PressEnsure, PairsFit, PressFits, UsedTexts, TypeOK
      <4> HIDE DEF wanted
      <4>2. \/ run.state = "pending"
            \/ /\ run.state = "completed" /\ run.of = wanted
               /\ \E r \in Runs : HasResult(r) /\ runs[r].of = wanted /\ run.made = runs[r].made
        BY <3>2, <4>1, NewRunIs
      <4> QED BY <4>2 DEF PairsFit, ResultsFit, Resulted
    <3>3. LiveRun \in 0..MaxRuns /\ UsedRuns = 1..LiveRun
      BY CountTexts DEF PairsFit
    <3>4. \A r \in Runs : r # LiveRun + 1 => runs'[r] = runs[r]
      BY <3>2 DEF TypeOK
    <3>5. runs'[LiveRun + 1].state # "none"
      BY <3>1, <3>2, <3>a DEF TypeOK
    <3>6. UsedRuns' = UsedRuns \cup {LiveRun + 1}
      BY <3>1, <3>4, <3>5 DEF UsedRuns
    <3>7. UsedRuns' = 1..(LiveRun + 1) /\ LiveRun + 1 \in 0..MaxRuns
      BY <3>1, <3>3, <3>6 DEF Runs
    <3>8. UsedTexts' = UsedTexts /\ body' = body /\ opinion' = opinion
      BY <1>6 DEF PressEnsure, UsedTexts
    <3>9. \E n \in 0..MaxTexts : UsedTexts' = 1..n
      BY <3>8 DEF PairsFit, Numbered
    <3>10. /\ Resulted \subseteq Resulted' /\ ResultsFit'
           /\ \A r \in Resulted : runs'[r].made = runs[r].made
      <4>1. LiveRun + 1 \notin Resulted
        BY <3>1, <3>3 DEF Resulted, HasResult, UsedRuns
      <4>2. \A r \in Runs : r \in Resulted' => r \in Resulted \/ r = LiveRun + 1
        BY <3>4 DEF Resulted, HasResult
      <4>3. /\ runs'[LiveRun + 1] = run
            /\ LiveRun + 1 \in Resulted' => run.state \in {"completed", "consumed"}
        BY <3>1, <3>2 DEF Resulted, HasResult, TypeOK
      <4>4. \A r \in Resulted : r \in Runs /\ runs'[r] = runs[r]
        BY <3>4, <4>1 DEF Resulted
      <4>5. Resulted \subseteq Resulted'
        BY <4>4 DEF Resulted, HasResult
      <4>6. ResultsFit'
        BY <3>a, <4>2, <4>3, <4>4 DEF ResultsFit, PairsFit, Resulted
      <4> QED BY <4>4, <4>5, <4>6
    <3>11. opinion.text \in Nat
      BY DEF TypeOK, Texts, NoText
    <3> QED BY <3>6, <3>7, <3>8, <3>9, <3>10, <3>11 DEF Monotone, Numbered, Exists, UsedTexts
  <2> QED BY <2>1, <2>2
<1>7. CASE RunEnds
  <2>1. PICK r \in UsedRuns, state \in {"completed", "dead"} :
          /\ runs[r].state = "pending"
          /\ runs' = [runs EXCEPT ![r].state = state,
                                 ![r].made = IF state = "completed" THEN runs[r].of ELSE None]
    BY <1>7 DEF RunEnds
  <2>2. /\ \A q \in Runs : q # r => runs'[q] = runs[q]
        /\ r \in Runs /\ r \notin Resulted
        /\ runs'[r].of = runs[r].of /\ runs'[r].state = state
        /\ state = "completed" => runs'[r].made = runs[r].of
    BY <2>1 DEF TypeOK, UsedRuns, Resulted, HasResult
  <2>3. /\ \A q \in Resulted : q \in Runs /\ runs'[q] = runs[q]
        /\ \A q \in Resulted' : q \in Runs /\ (q \in Resulted \/ (q = r /\ state = "completed"))
    BY <2>2 DEF Resulted, HasResult
  <2>4. Resulted \subseteq Resulted' /\ ResultsFit'
    BY <2>2, <2>3 DEF Resulted, HasResult, ResultsFit, PairsFit
  <2>5. UsedTexts' = UsedTexts /\ UsedRuns' = UsedRuns /\ body' = body /\ opinion' = opinion
    BY <1>7, <2>1, <2>2 DEF RunEnds, UsedTexts, UsedRuns
  <2>6. Numbered'
    BY <2>5 DEF PairsFit, Numbered
  <2>7. opinion.text \in Nat
    BY DEF TypeOK, Texts, NoText
  <2> QED BY <2>3, <2>4, <2>5, <2>6, <2>7 DEF Monotone, Exists, UsedTexts
<1>8. CASE GluePick
  BY <1>8, SameTexts DEF GluePick, Exists
<1>9. ASSUME NEW p \in Gluers, GlueRead(p) PROVE Monotone /\ Numbered' /\ ResultsFit'
  BY <1>9, SameTexts DEF GlueRead, Exists
<1>10. ASSUME NEW p \in Gluers, GlueStamp(p) PROVE Monotone /\ Numbered' /\ ResultsFit'
  <2>1. opinion'.text = opinion.text /\ opinion'.status = opinion.status
    BY <1>10 DEF GlueStamp, TypeOK
  <2> QED BY <1>10, <2>1, SameTexts DEF GlueStamp, Exists
<1>11. ASSUME NEW p \in Gluers, GlueFails(p) PROVE Monotone /\ Numbered' /\ ResultsFit'
  <2>1. \A r \in Runs : /\ runs'[r].of = runs[r].of /\ runs'[r].made = runs[r].made
                        /\ runs'[r].state = runs[r].state
    BY <1>11 DEF GlueFails, TypeOK
  <2> QED BY <1>11, <2>1, SameTexts DEF GlueFails, Exists
<1>12. ASSUME NEW p \in Gluers, Consume(p) PROVE Monotone /\ Numbered' /\ ResultsFit'
  <2>1. \A r \in Runs : /\ runs'[r].of = runs[r].of /\ runs'[r].made = runs[r].made
                        /\ runs'[r].state # "none" <=> runs[r].state # "none"
                        /\ runs'[r].state \in {"completed", "consumed"} <=>
                             runs[r].state \in {"completed", "consumed"}
    BY <1>12 DEF Consume, TypeOK
  <2> QED BY <1>12, <2>1, SameTexts DEF Consume, Exists
<1>13. CASE CommandLists
  <2>1. opinion'.text = opinion.text /\ opinion'.status = opinion.status
    BY <1>13 DEF CommandLists, TypeOK
  <2> QED BY <1>13, <2>1, SameTexts DEF CommandLists, Exists
<1>14. CASE WithdrawRead
  BY <1>14, SameTexts DEF WithdrawRead, Exists
<1>15. CASE WithdrawDelete
  BY <1>15, SameTexts DEF WithdrawDelete, Exists
<1>16. CASE WithdrawClear
  <2>1. opinion'.text = opinion.text /\ opinion'.status = opinion.status
    BY <1>16 DEF WithdrawClear, TypeOK
  <2> QED BY <1>16, <2>1, SameTexts DEF WithdrawClear, Exists
<1>17. CASE ExportRead
  BY <1>17, SameTexts DEF ExportRead, Exists
<1>18. CASE ExportPut
  BY <1>18, SameTexts DEF ExportPut, Exists
<1>19. CASE ExportFails
  <2>1. opinion'.text = opinion.text /\ opinion'.status = opinion.status
    BY <1>19 DEF ExportFails, TypeOK
  <2> QED BY <1>19, <2>1, SameTexts DEF ExportFails, Exists
<1>20. CASE ExportStamp
  <2>1. opinion'.text = opinion.text /\ opinion'.status = opinion.status
    BY <1>20 DEF ExportStamp, TypeOK
  <2> QED BY <1>20, <2>1, SameTexts DEF ExportStamp, Exists
<1>21. CASE ExportMark
  <2>1. opinion'.text = opinion.text /\ opinion'.status = opinion.status
    BY <1>21 DEF ExportMark, TypeOK
  <2> QED BY <1>21, <2>1, SameTexts DEF ExportMark, Exists
<1>22. CASE Sweep
  BY <1>22, SameTexts DEF Sweep, Exists
<1>23. CASE DeleteScan
  <2>1. ~Exists' /\ body' = body /\ UsedTexts' = UsedTexts
    BY <1>23 DEF DeleteScan, Blank, Exists, UsedTexts
  <2>2. \A r \in Runs : runs'[r].state = "none"
    BY <1>23 DEF DeleteScan, NoRun
  <2>3. UsedRuns' = 1..0 /\ ResultsFit'
    BY <2>2 DEF UsedRuns, ResultsFit, Resulted, HasResult
  <2>4. 0 \in 0..MaxRuns
    BY DEF FinalXmlAssumption
  <2> QED BY <2>1, <2>3, <2>4 DEF Monotone, Numbered, PairsFit, UsedTexts
<1>24. CASE DeleteExport
  BY <1>24, SameTexts DEF DeleteExport, Exists
<1>25. ASSUME NEW p \in {"exporter", "glue"}, Die(p) PROVE Monotone /\ Numbered' /\ ResultsFit'
  BY <1>25, SameTexts DEF Die, Exists
<1>26. CASE UNCHANGED vars
  BY <1>26, SameTexts DEF vars, Exists
<1> QED
  BY <1>1, <1>2, <1>3, <1>4, <1>5, <1>6, <1>7, <1>8, <1>9, <1>10, <1>11, <1>12, <1>13,
     <1>14, <1>15, <1>16, <1>17, <1>18, <1>19, <1>20, <1>21, <1>22, <1>23, <1>24, <1>25,
     <1>26 DEF Next, TextNext, TaggerNext, ExportNext, DeleteNext

LEMMA RowStays ==
  ASSUME PairsFit, Monotone, TypeOK, TypeOK', Exists <=> Exists',
         opinion'.text = opinion.text, opinion'.tag = opinion.tag,
         opinion'.tagged = opinion.tagged,
         opinion'.status = "approved" => opinion.status = "approved",
         Exists /\ UsedRuns' # {} => opinion.text # NoText,
         Exists /\ opinion'.stamp # NoSpans => opinion'.stamp.over <= opinion.text
  PROVE  RowFits'
<1>1. RowFits
  BY DEF PairsFit
<1>2. ASSUME opinion'.tag # NoSpans PROVE Exists' /\ Fits(opinion.tag, opinion.tagged)'
  <2>1. SUFFICES ASSUME NEW tag, tag = opinion.tag, NEW text, text = opinion.tagged
                 PROVE  Exists' /\ Fits(opinion.tag, opinion.tagged)'
    OBVIOUS
  <2>2. Exists /\ Fits(tag, text) /\ tag.over \in Texts
    BY <1>1, <1>2, <2>1 DEF RowFits, TypeOK, Spans
  <2>3. Fits(tag, text)'
    BY <2>2, FitsStays
  <2> QED BY <2>1, <2>2, <2>3 DEF Fits
<1>3. opinion'.text \in UsedTexts' \cup {NoText}
  BY <1>1 DEF RowFits, Monotone
<1> QED BY <1>1, <1>2, <1>3 DEF RowFits

LEMMA SlotsStay ==
  ASSUME PairsFit, Monotone, TypeOK, TypeOK', NEW p \in Processes,
         \A q \in Processes : q # p => mem'[q] = mem[q],
         p \in Gluers => GluerFits(p)',
         p = "press" => PressFits',
         p = "rewrite" => RewriteFits',
         p = "exporter" => HolderFits',
         p = "admin" => AdminFits'
  PROVE  (\A q \in Gluers : GluerFits(q)') /\ PressFits' /\ RewriteFits' /\ HolderFits' /\ AdminFits'
<1>1. ASSUME NEW q \in Gluers PROVE GluerFits(q)'
  BY <1>1, GluerStays
<1>2. PressFits'
  BY PressStays
<1>3. RewriteFits'
  BY RewriteStays
<1>4. HolderFits'
  <2>1. CASE p # "exporter"
    <3>1. HolderGoes
      BY <2>1 DEF HolderGoes, Holder
    <3> QED BY <3>1, HolderStays
  <2> QED BY <2>1
<1>5. AdminFits'
  BY AdminStays
<1> QED BY <1>1, <1>2, <1>3, <1>4, <1>5

\* Steps that leave the opinion and the file alone.
LEMMA OnlyASlot ==
  ASSUME PairsFit, Monotone, Numbered', ResultsFit', TypeOK, TypeOK', NEW p \in Processes,
         \A q \in Processes : q # p => mem'[q] = mem[q],
         p \in Gluers => GluerFits(p)',
         p = "press" => PressFits',
         p = "rewrite" => RewriteFits',
         p = "exporter" => HolderFits',
         p = "admin" => AdminFits',
         opinion' = opinion, file' \in {file, NoFile},
         Exists /\ UsedRuns' # {} => opinion.text # NoText
  PROVE  PairsFit'
<1>1. RowFits'
  BY RowStays DEF PairsFit, RowFits, Exists
<1>2. FileFits'
  BY FileStays
<1> QED BY <1>1, <1>2, SlotsStay DEF PairsFit

LEMMA SameRuns == ASSUME PairsFit, runs' = runs PROVE Exists /\ UsedRuns' # {} => opinion.text # NoText
BY DEF PairsFit, RowFits, UsedRuns

-----------------------------------------------------------------------------
LEMMA ApprovePairs ==
  ASSUME TypeOK, TypeOK', PairsFit, Monotone, Numbered', ResultsFit', FinalXmlAssumption, Approve
  PROVE  PairsFit'
<1>1. PICK b \in Bodies : Written(b)
  BY DEF Approve
<1>2. NewText \in Texts /\ NewText \in UsedTexts'
  BY <1>1, NextText DEF Approve, PairsFit
<1>3. /\ opinion'.text = NewText /\ opinion'.tag = opinion.tag /\ opinion'.stamp = opinion.stamp
      /\ opinion'.tagged = opinion.tagged /\ Exists' /\ Exists /\ file' = file /\ mem' = mem
  BY DEF Approve, TypeOK, Exists
<1>4. ASSUME opinion'.tag # NoSpans PROVE Fits(opinion.tag, opinion.tagged)'
  <2>1. SUFFICES ASSUME NEW tag, tag = opinion.tag, NEW text, text = opinion.tagged
                 PROVE  Fits(opinion.tag, opinion.tagged)'
    OBVIOUS
  <2>2. Fits(tag, text) /\ tag.over \in Texts
    BY <1>3, <1>4, <2>1 DEF PairsFit, RowFits, TypeOK, Spans
  <2>3. Fits(tag, text)'
    BY <2>2, FitsStays
  <2> QED BY <1>3, <2>1, <2>3 DEF Fits
<1>5. opinion'.stamp # NoSpans => opinion'.stamp.over <= opinion'.text
  <2>1. opinion.text \in Nat /\ opinion'.text \in Nat
    BY DEF TypeOK, Texts, NoText
  <2>2. opinion.stamp # NoSpans => opinion.stamp.over \in Nat
    BY DEF TypeOK, Spans, Texts
  <2> QED BY <1>3, <2>1, <2>2 DEF PairsFit, RowFits, Monotone
<1>6. RowFits'
  BY <1>2, <1>3, <1>4, <1>5 DEF PairsFit, RowFits, Texts, NoText
<1>7. FileFits'
  BY <1>3, FileStays
<1>8. AdminFits'
  BY <1>3, AdminStays
<1> QED BY <1>3, <1>6, <1>7, <1>8, SlotsStay DEF PairsFit

LEMMA ReopenTextPairs ==
  ASSUME TypeOK, TypeOK', PairsFit, Monotone, Numbered', ResultsFit', ReopenText
  PROVE  PairsFit'
<1>1. /\ opinion'.text = opinion.text /\ opinion'.tag = opinion.tag
      /\ opinion'.stamp = opinion.stamp /\ opinion'.tagged = opinion.tagged
      /\ opinion'.status = "open" /\ Exists' /\ Exists
      /\ file' = file /\ mem' = mem /\ runs' = runs
  BY DEF ReopenText, TypeOK, Exists
<1>2. RowFits'
  BY <1>1, RowStays, SameRuns DEF PairsFit, RowFits
<1>3. FileFits'
  BY <1>1, FileStays
<1>4. AdminFits'
  BY <1>1, AdminStays
<1> QED BY <1>1, <1>2, <1>3, <1>4, SlotsStay DEF PairsFit

LEMMA RewriteReadPairs ==
  ASSUME TypeOK, TypeOK', PairsFit, Monotone, Numbered', ResultsFit', RewriteRead
  PROVE  PairsFit'
<1>1. /\ mem'["rewrite"].text = opinion.text /\ opinion.text # NoText
      /\ \A q \in Processes : q # "rewrite" => mem'[q] = mem[q]
  BY DEF RewriteRead, TypeOK, Idle, PairsFit, RowFits
<1>2. RewriteFits'
  BY <1>1 DEF PairsFit, RowFits, RewriteFits, Monotone
<1> QED BY <1>1, <1>2, OnlyASlot, SameRuns DEF RewriteRead

LEMMA RewriteSwapPairs ==
  ASSUME TypeOK, TypeOK', PairsFit, Monotone, Numbered', ResultsFit', FinalXmlAssumption, RewriteSwap
  PROVE  PairsFit'
<1>1. PICK b \in Bodies :
        /\ Written(b)
        /\ \/ opinion' = opinion
           \/ /\ Carries(b) /\ opinion.status = "approved"
              /\ opinion.text = mem["rewrite"].text
              /\ opinion.tagged = mem["rewrite"].tagged
              /\ opinion' = [opinion EXCEPT !.text = NewText, !.tagged = NewText,
                                            !.current = FALSE, !.attempts = 0]
           \/ /\ opinion.status = "approved"
              /\ opinion' = [opinion EXCEPT !.text = NewText]
  BY DEF RewriteSwap
<1>2. /\ NewText \in Texts /\ NewText \in UsedTexts' /\ body'[NewText] = b
      /\ \A t \in UsedTexts : t < NewText /\ body'[t] = body[t]
  BY <1>1, NextText DEF RewriteSwap, PairsFit
<1>3. /\ file' = file /\ runs' = runs /\ UsedRuns' = UsedRuns /\ Resulted' = Resulted
      /\ \A q \in Processes : q # "rewrite" => mem'[q] = mem[q]
      /\ mem'["rewrite"] = Idle
  BY DEF RewriteSwap, Ends, TypeOK, UsedRuns, Resulted, HasResult
<1>4. RewriteFits'
  BY <1>3, RewriteStays
<1>5. FileFits'
  BY <1>3, FileStays
<1>6. RowFits'
  <2>1. CASE opinion' = opinion
    BY <1>3, <2>1, RowStays, SameRuns DEF PairsFit, RowFits, Exists
  <2>2. CASE opinion' # opinion
    <3>1. /\ opinion'.text = NewText /\ opinion'.tag = opinion.tag
          /\ opinion'.stamp = opinion.stamp /\ opinion'.status = "approved"
          /\ opinion.status = "approved" /\ Exists' /\ Exists /\ opinion.text # NoText
          /\ \/ opinion'.tagged = opinion.tagged
             \/ /\ Carries(b) /\ opinion'.tagged = NewText
                /\ opinion.text = mem["rewrite"].text
                /\ opinion.tagged = mem["rewrite"].tagged
      <4>1. opinion.status = "approved" /\ opinion.text # NoText /\ Exists
        BY <1>1, <2>2 DEF PairsFit, RowFits, Exists
      <4>2. CASE opinion' = [opinion EXCEPT !.text = NewText]
        BY <4>1, <4>2 DEF TypeOK, Exists
      <4>3. CASE opinion' # [opinion EXCEPT !.text = NewText]
        <5>1. /\ Carries(b) /\ opinion.text = mem["rewrite"].text
              /\ opinion.tagged = mem["rewrite"].tagged
              /\ opinion' = [opinion EXCEPT !.text = NewText, !.tagged = NewText,
                                            !.current = FALSE, !.attempts = 0]
          BY <1>1, <2>2, <4>3
        <5> QED BY <4>1, <5>1 DEF TypeOK, Exists
      <4> QED BY <4>2, <4>3
    <3>2. opinion.text \in UsedTexts /\ opinion.text \in Nat /\ NewText \in Nat
      BY <3>1, <1>2 DEF PairsFit, RowFits, TypeOK, Texts
    <3>3. opinion'.stamp # NoSpans => opinion'.stamp.over <= opinion'.text
      <4>1. opinion.stamp # NoSpans => opinion.stamp.over \in Nat
        BY DEF TypeOK, Spans, Texts
      <4> QED BY <1>2, <3>1, <3>2, <4>1 DEF PairsFit, RowFits
    <3>4. CASE opinion'.tagged = opinion.tagged
      <4>1. ASSUME opinion'.tag # NoSpans PROVE Fits(opinion.tag, opinion.tagged)'
        <5>1. SUFFICES ASSUME NEW tag, tag = opinion.tag, NEW text, text = opinion.tagged
                       PROVE  Fits(opinion.tag, opinion.tagged)'
          OBVIOUS
        <5>2. Fits(tag, text) /\ tag.over \in Texts
          BY <3>1, <4>1, <5>1 DEF PairsFit, RowFits, TypeOK, Spans
        <5>3. Fits(tag, text)'
          BY <5>2, FitsStays
        <5> QED BY <3>1, <3>4, <5>1, <5>3 DEF Fits
      <4> QED BY <1>2, <3>1, <3>3, <3>4, <4>1 DEF PairsFit, RowFits, Texts, NoText
    <3>5. CASE opinion'.tagged # opinion.tagged
      <4>1. /\ opinion'.tagged = NewText /\ opinion.tagged = opinion.text
            /\ body[opinion.text] = b
        BY <3>1, <3>5 DEF Carries
      <4>2. opinion.tag # NoSpans /\ Fits(opinion.tag, opinion.tagged)
        BY <3>1, <4>1 DEF PairsFit, RowFits
      <4>3. opinion.tag.over \in Nat /\ opinion.tag.over <= opinion.tagged
        BY <3>1, <4>2 DEF TypeOK, Spans, Texts, Fits
      <4>4. Fits(opinion.tag, opinion.tagged)'
        BY <1>2, <1>3, <3>1, <3>2, <4>1, <4>2, <4>3 DEF Fits
      <4>5. opinion'.tagged # NoText /\ opinion'.tag # NoSpans /\ opinion'.text # NoText
        BY <1>2, <3>1, <4>1, <4>2 DEF Texts, NoText
      <4> QED BY <1>2, <3>1, <3>3, <4>4, <4>5 DEF RowFits
    <3> QED BY <3>4, <3>5
  <2> QED BY <2>1, <2>2
<1> QED BY <1>3, <1>4, <1>5, <1>6, SlotsStay DEF PairsFit

LEMMA PressReadPairs ==
  ASSUME TypeOK, TypeOK', PairsFit, Monotone, Numbered', ResultsFit', PressRead
  PROVE  PairsFit'
<1>1. /\ mem'["press"].text = opinion.text /\ opinion.text # NoText
      /\ \A q \in Processes : q # "press" => mem'[q] = mem[q]
      /\ mem'["press"].step = "pressed" /\ opinion' = opinion
  BY DEF PressRead, TypeOK, Idle, PairsFit, RowFits
<1>2. opinion.text \in UsedTexts' /\ opinion.text \in Nat
  BY <1>1 DEF PairsFit, RowFits, Monotone, TypeOK, Texts, NoText
<1>3. PressFits' /\ GluerFits("press")'
  BY <1>1, <1>2 DEF PressFits, GluerFits
<1> QED BY <1>1, <1>3, OnlyASlot, SameRuns DEF PressRead

LEMMA PressEnsurePairs ==
  ASSUME TypeOK, TypeOK', PairsFit, Monotone, Numbered', ResultsFit', PressEnsure
  PROVE  PairsFit'
<1> DEFINE target == IF /\ LiveRun # 0 /\ runs[LiveRun].of = body[mem["press"].text]
                        /\ runs[LiveRun].state # "dead"
                     THEN LiveRun ELSE LiveRun + 1
<1>1. /\ target \in Runs /\ Exists /\ opinion' = opinion /\ file' = file
      /\ \/ /\ runs'[target].state \in {"completed", "consumed"}
            /\ mem' = [mem EXCEPT !["press"] = [Idle EXCEPT !.step = "place", !.run = target]]
         \/ Ends("press")
  BY DEF PressEnsure
<1> HIDE DEF target
<1> DEFINE slot == [Idle EXCEPT !.step = "place", !.run = target]
<1>a. slot.step = "place" /\ slot.run = target /\ slot # Idle
  BY DEF Idle
<1>b. mem' = [mem EXCEPT !["press"] = slot] \/ Ends("press")
  BY <1>1
<1> HIDE DEF slot
<1>2. /\ \A q \in Processes : q # "press" => mem'[q] = mem[q]
      /\ mem'["press"] \in {slot, Idle}
      /\ mem'["press"].step # "pressed"
  BY <1>a, <1>b DEF Ends, TypeOK, Idle
<1>3. GluerFits("press")'
  <2>1. CASE Ends("press")
    BY <2>1, GluerStays DEF Ends, TypeOK
  <2>2. CASE ~Ends("press")
    <3>1. /\ mem'["press"].step = "place" /\ mem'["press"].run = target
          /\ runs'[target].state \in {"completed", "consumed"}
      <4>1. mem' = [mem EXCEPT !["press"] = slot]
        BY <1>b, <2>2
      <4> QED BY <1>1, <1>a, <2>2, <4>1 DEF TypeOK
    <3>2. target \in Resulted'
      BY <1>1, <3>1 DEF Resulted, HasResult
    <3> QED BY <1>1, <3>1, <3>2 DEF GluerFits
  <2> QED BY <2>1, <2>2
<1>4. PressFits'
  BY <1>2, PressStays
<1>5. opinion.text # NoText
  <2>1. /\ mem["press"].text \in UsedTexts /\ mem["press"].text <= opinion.text
    BY <1>1 DEF PressEnsure, PairsFit, PressFits
  <2> QED BY <2>1 DEF UsedTexts, Texts, NoText, TypeOK
<1> QED BY <1>1, <1>2, <1>3, <1>4, <1>5, OnlyASlot

LEMMA RunEndsPairs ==
  ASSUME TypeOK, TypeOK', PairsFit, Monotone, Numbered', ResultsFit', RunEnds
  PROVE  PairsFit'
<1>1. Exists /\ UsedRuns' # {} => opinion.text # NoText
  BY DEF RunEnds, PairsFit, RowFits
<1>2. AdminFits' /\ mem' = mem /\ file' = file /\ opinion' = opinion
  BY AdminStays DEF RunEnds
<1> QED BY <1>1, <1>2, OnlyASlot

LEMMA GluePickPairs ==
  ASSUME TypeOK, TypeOK', PairsFit, Monotone, Numbered', ResultsFit', FinalXmlAssumption, GluePick
  PROVE  PairsFit'
<1>1. /\ mem'["glue"].step = "place" /\ mem'["glue"].run = LiveRun /\ LiveRun # 0
      /\ \A q \in Processes : q # "glue" => mem'[q] = mem[q]
      /\ opinion' = opinion /\ file' = file /\ runs' = runs
  BY DEF GluePick, TypeOK, Idle
<1>2. LiveRun \in UsedRuns /\ UsedRuns' = UsedRuns /\ LiveRun \in Runs
  BY <1>1, CountTexts DEF PairsFit, UsedRuns, Runs
<1>3. LiveRun \in Resulted'
  BY <1>1, <1>2 DEF GluePick, Resulted, HasResult
<1>4. GluerFits("glue")'
  BY <1>1, <1>2, <1>3 DEF GluerFits
<1> QED BY <1>1, <1>4, OnlyASlot, SameRuns

LEMMA GlueReadPairs ==
  ASSUME TypeOK, TypeOK', PairsFit, Monotone, Numbered', ResultsFit', NEW p \in Gluers, GlueRead(p)
  PROVE  PairsFit'
<1>1. /\ \A q \in Processes : q # p => mem'[q] = mem[q]
      /\ mem'[p].run = mem[p].run /\ mem[p].step = "place"
      /\ opinion' = opinion /\ file' = file /\ runs' = runs /\ body' = body
      /\ \/ mem'[p].step = "consume"
         \/ /\ mem'[p].step = "placed" /\ mem'[p].text = opinion.text
            /\ Exists /\ body[opinion.text] = runs[mem[p].run].of
  <2>1. CASE Exists /\ body[opinion.text] = runs[mem[p].run].of
    BY <2>1 DEF GlueRead, IsAt, TypeOK, Slot
  <2>2. CASE ~(Exists /\ body[opinion.text] = runs[mem[p].run].of)
    BY <2>2 DEF GlueRead, Goes, IsAt, TypeOK, Slot
  <2> QED BY <2>1, <2>2
<1>2. Resulted' = Resulted /\ UsedTexts' = UsedTexts /\ (Exists' <=> Exists)
  BY <1>1 DEF Resulted, HasResult, UsedTexts, Exists
<1>3. mem[p].run \in Runs /\ (Exists => mem[p].run \in Resulted)
  BY <1>1 DEF PairsFit, GluerFits
<1>4. mem'[p].step = "placed" => opinion.text \in UsedTexts /\ opinion.text <= opinion.text
  <2>1. Exists => UsedRuns # {}
    BY <1>3 DEF Resulted, HasResult, UsedRuns
  <2>2. opinion.text \in Nat
    BY DEF TypeOK, Texts, NoText
  <2> QED BY <1>1, <2>1, <2>2 DEF PairsFit, RowFits
<1>5. GluerFits(p)'
  <2>1. Exists => runs[mem[p].run].made = runs[mem[p].run].of
    BY <1>3 DEF PairsFit, ResultsFit
  <2> QED BY <1>1, <1>2, <1>3, <1>4, <2>1 DEF GluerFits
<1>6. PressFits'
  BY <1>1, PressStays DEF PairsFit
<1> QED BY <1>1, <1>5, <1>6, OnlyASlot, SameRuns

LEMMA GlueStampPairs ==
  ASSUME TypeOK, TypeOK', PairsFit, Monotone, Numbered', ResultsFit', NEW p \in Gluers, GlueStamp(p)
  PROVE  PairsFit'
<1>1. /\ \A q \in Processes : q # p => mem'[q] = mem[q]
      /\ mem'[p].run = mem[p].run /\ mem'[p].step = "consume" /\ mem[p].step = "placed"
      /\ file' = file /\ runs' = runs /\ body' = body
      /\ opinion'.text = opinion.text /\ opinion'.stamp = opinion.stamp
      /\ opinion'.status = opinion.status
  BY DEF GlueStamp, Goes, IsAt, TypeOK
<1>2. Resulted' = Resulted /\ UsedTexts' = UsedTexts /\ (Exists' <=> Exists)
  BY <1>1 DEF Resulted, HasResult, UsedTexts, Exists
<1>0. UsedRuns' = UsedRuns
  BY <1>1 DEF UsedRuns
<1>3. GluerFits(p)
  BY DEF PairsFit
<1>4. GluerFits(p)'
  BY <1>1, <1>2, <1>3 DEF GluerFits
<1>5. PressFits'
  BY <1>1, PressStays
<1>6. FileFits'
  BY <1>1, FileStays
<1>7. RowFits'
  <2>1. CASE ~Exists
    BY <1>1, <1>2, <2>1, RowStays, SameRuns DEF GlueStamp, PairsFit, RowFits
  <2>2. CASE Exists
    <3> DEFINE tag == [run |-> mem[p].run, over |-> mem[p].text]
    <3>1. /\ mem[p].text \in UsedTexts /\ mem[p].text <= opinion.text
          /\ runs[mem[p].run].made = body[mem[p].text] /\ mem[p].run \in Resulted
      BY <1>1, <1>3, <2>2 DEF GluerFits
    <3>2. mem[p].text \in Texts /\ mem[p].text \in Nat /\ mem[p].text # NoText
      BY <3>1 DEF UsedTexts, Texts, NoText
    <3>3. opinion'.tag = tag /\ opinion'.tagged = mem[p].text
      BY <2>2 DEF GlueStamp, TypeOK
    <3>4. tag.run = mem[p].run /\ tag.over = mem[p].text /\ tag # NoSpans
      BY <3>2 DEF NoSpans, NoText
    <3>5. Fits(opinion.tag, opinion.tagged)'
      <4> HIDE DEF tag
      <4> QED BY <1>1, <1>2, <2>2, <3>1, <3>2, <3>3, <3>4 DEF Fits
    <3>6. opinion'.tag # NoSpans /\ opinion'.tagged # NoText
      BY <3>2, <3>3, <3>4
    <3> QED BY <1>0, <1>1, <1>2, <2>2, <3>5, <3>6 DEF PairsFit, RowFits
  <2> QED BY <2>1, <2>2
<1> QED BY <1>1, <1>4, <1>5, <1>6, <1>7, SlotsStay DEF PairsFit

LEMMA GlueEndsPairs ==
  ASSUME TypeOK, TypeOK', PairsFit, Monotone, Numbered', ResultsFit', NEW p \in Gluers,
         GlueFails(p) \/ Consume(p)
  PROVE  PairsFit'
<1>1. /\ \A q \in Processes : q # p => mem'[q] = mem[q]
      /\ mem'[p] = Idle /\ opinion' = opinion /\ file' = file
  BY DEF GlueFails, Consume, Ends, TypeOK
<1>2. \A r \in Runs : runs'[r].state # "none" => runs[r].state # "none"
  BY DEF GlueFails, Consume, TypeOK
<1>3. Exists /\ UsedRuns' # {} => opinion.text # NoText
  BY <1>2 DEF PairsFit, RowFits, UsedRuns
<1>4. GluerFits(p)'
  BY <1>1, GluerStays
<1>5. PressFits'
  BY <1>1, PressStays DEF Idle
<1> QED BY <1>1, <1>3, <1>4, <1>5, OnlyASlot

-----------------------------------------------------------------------------
(* Pairs: the exporter and the deletion.                                   *)

\* What the exporter's steps change of the opinion is the stamp and the count.
LEMMA ExporterPairs ==
  ASSUME TypeOK, TypeOK', PairsFit, Monotone, Numbered', ResultsFit', runs' = runs,
         opinion'.text = opinion.text, opinion'.tag = opinion.tag,
         opinion'.tagged = opinion.tagged, opinion'.status = opinion.status,
         Exists /\ opinion'.stamp # NoSpans => opinion'.stamp.over <= opinion.text,
         \A q \in Processes : q # "exporter" => mem'[q] = mem[q],
         HolderFits', FileFits'
  PROVE  PairsFit'
<1>1. RowFits'
  BY RowStays, SameRuns DEF Exists
<1> QED BY <1>1, SlotsStay DEF PairsFit

\* The exporter goes on with the pair, or lets go of it.
LEMMA HolderEnds ==
  ASSUME TypeOK, Ends("exporter")
  PROVE  /\ HolderGoes
         /\ \A q \in Processes : q # "exporter" => mem'[q] = mem[q]
BY DEF Ends, HolderGoes, Holder, TypeOK, Idle

LEMMA HolderMoves ==
  ASSUME TypeOK, NEW s \in Steps, Goes("exporter", s),
         s \in {"listed", "sweep"} \/ (s = "clear" /\ Holder.step = "delete")
           \/ (s = "put" /\ Holder.step = "render") \/ (s = "moved" /\ Holder.step = "put")
  PROVE  /\ HolderGoes
         /\ \A q \in Processes : q # "exporter" => mem'[q] = mem[q]
BY DEF Goes, HolderGoes, Holder, TypeOK, Slot

LEMMA HolderLeaves ==
  ASSUME TypeOK, AfterWithdraw \/ AfterExport
  PROVE  /\ HolderGoes
         /\ \A q \in Processes : q # "exporter" => mem'[q] = mem[q]
<1>1. Ends("exporter") \/ Goes("exporter", "listed") \/ Goes("exporter", "sweep")
  BY DEF AfterWithdraw, AfterExport
<1>2. "listed" \in Steps /\ "sweep" \in Steps
  BY DEF Steps
<1> QED BY <1>1, <1>2, HolderEnds, HolderMoves

LEMMA SameStamp ==
  ASSUME PairsFit, opinion'.stamp = opinion.stamp
  PROVE  Exists /\ opinion'.stamp # NoSpans => opinion'.stamp.over <= opinion.text
BY DEF PairsFit, RowFits

LEMMA CommandListsPairs ==
  ASSUME TypeOK, TypeOK', PairsFit, Monotone, Numbered', ResultsFit', CommandLists
  PROVE  PairsFit'
<1>1. /\ opinion'.text = opinion.text /\ opinion'.tag = opinion.tag
      /\ opinion'.tagged = opinion.tagged /\ opinion'.status = opinion.status
      /\ opinion'.stamp = opinion.stamp /\ runs' = runs /\ file' = file
  BY DEF CommandLists, TypeOK
<1>2. \A q \in Processes : q # "exporter" => mem'[q] = mem[q]
  BY DEF CommandLists, TypeOK
<1>3. Holder'.step = "listed"
  BY DEF CommandLists, Holder, TypeOK, Idle
<1>4. HolderFits'
  BY <1>3 DEF HolderFits
<1> QED BY <1>1, <1>2, <1>4, FileStays, SameStamp, ExporterPairs

LEMMA WithdrawReadPairs ==
  ASSUME TypeOK, TypeOK', PairsFit, Monotone, Numbered', ResultsFit', WithdrawRead
  PROVE  PairsFit'
<1>1. /\ Holder'.step = "delete" /\ Holder'.tag = opinion.stamp
      /\ \A q \in Processes : q # "exporter" => mem'[q] = mem[q]
      /\ opinion' = opinion /\ file' = file /\ runs' = runs
  BY DEF WithdrawRead, Holder, TypeOK, Slot
<1>2. opinion.stamp \in Spans
  BY DEF WithdrawRead, Withdrawn, TypeOK
<1>3. HolderFits'
  BY <1>1, <1>2 DEF HolderFits
<1> QED BY <1>1, <1>3, FileStays, SameStamp, ExporterPairs

LEMMA WithdrawDeletePairs ==
  ASSUME TypeOK, TypeOK', PairsFit, Monotone, Numbered', ResultsFit', WithdrawDelete
  PROVE  PairsFit'
<1>1. /\ HolderGoes /\ \A q \in Processes : q # "exporter" => mem'[q] = mem[q]
      /\ opinion' = opinion /\ file' \in {file, NoFile} /\ runs' = runs
  <2>1. Goes("exporter", "clear") \/ AfterWithdraw
    BY DEF WithdrawDelete
  <2>2. Holder.step = "delete" /\ "clear" \in Steps
    BY DEF WithdrawDelete, IsAt, Holder, Steps
  <2>3. HolderGoes /\ \A q \in Processes : q # "exporter" => mem'[q] = mem[q]
    BY <2>1, <2>2, HolderMoves, HolderLeaves
  <2> QED BY <2>3 DEF WithdrawDelete
<1> QED BY <1>1, HolderStays, FileStays, SameStamp, ExporterPairs

LEMMA WithdrawClearPairs ==
  ASSUME TypeOK, TypeOK', PairsFit, Monotone, Numbered', ResultsFit', WithdrawClear
  PROVE  PairsFit'
<1>1. /\ opinion'.text = opinion.text /\ opinion'.tag = opinion.tag
      /\ opinion'.tagged = opinion.tagged /\ opinion'.status = opinion.status
      /\ opinion'.stamp \in {opinion.stamp, NoSpans} /\ runs' = runs /\ file' = file
  BY DEF WithdrawClear, TypeOK
<1>2. HolderGoes /\ \A q \in Processes : q # "exporter" => mem'[q] = mem[q]
  BY HolderLeaves DEF WithdrawClear
<1> QED BY <1>1, <1>2, HolderStays, FileStays, SameStamp, ExporterPairs

LEMMA ExportReadPairs ==
  ASSUME TypeOK, TypeOK', PairsFit, Monotone, Numbered', ResultsFit', ExportRead
  PROVE  PairsFit'
<1>1. /\ Holder'.step = "render" /\ Holder'.text = opinion.text /\ Holder'.tag = opinion.tag
      /\ Holder'.attempts = opinion.attempts
      /\ \A q \in Processes : q # "exporter" => mem'[q] = mem[q]
      /\ opinion' = opinion /\ file' = file /\ runs' = runs
  BY DEF ExportRead, Holder, TypeOK, Slot
<1>2. /\ opinion.tag # NoSpans /\ opinion.tagged = opinion.text
      /\ opinion.attempts < MaxAttempts
  BY DEF ExportRead, Due, Owed, Exportable, IsTagged
<1>3. HolderFits'
  <2>1. SUFFICES ASSUME NEW tag, tag = opinion.tag, NEW text, text = opinion.text
                 PROVE  HolderFits'
    OBVIOUS
  <2>2. Fits(tag, text) /\ tag.over \in Texts /\ tag \in Spans
    BY <1>2, <2>1 DEF PairsFit, RowFits, TypeOK, Spans
  <2>3. Fits(tag, text)'
    BY <2>2, FitsStays
  <2>4. Holder'.tag = tag /\ Holder'.text = text
    BY <1>1, <2>1
  <2> QED BY <1>1, <1>2, <2>2, <2>3, <2>4 DEF HolderFits, Fits
<1> QED BY <1>1, <1>3, FileStays, SameStamp, ExporterPairs

LEMMA ExportPutPairs ==
  ASSUME TypeOK, TypeOK', PairsFit, Monotone, Numbered', ResultsFit', ExportPut
  PROVE  PairsFit'
<1>1. /\ HolderGoes /\ \A q \in Processes : q # "exporter" => mem'[q] = mem[q]
      /\ opinion' = opinion /\ runs' = runs /\ Holder.step = "render"
      /\ file' = file \/ file' = [text |-> Holder.text, tag |-> Holder.tag]
  <2>1. Goes("exporter", "put") \/ AfterExport
    BY DEF ExportPut
  <2>2. Holder.step = "render" /\ "put" \in Steps
    BY DEF ExportPut, IsAt, Holder, Steps
  <2>3. HolderGoes /\ \A q \in Processes : q # "exporter" => mem'[q] = mem[q]
    BY <2>1, <2>2, HolderMoves, HolderLeaves
  <2> QED BY <2>2, <2>3 DEF ExportPut
<1>2. HolderFits'
  BY <1>1, HolderStays
<1>3. FileFits'
  <2>1. CASE file' = file
    BY <2>1, FileStays
  <2>2. CASE file' = [text |-> Holder.text, tag |-> Holder.tag]
    <3>1. SUFFICES ASSUME NEW tag, tag = Holder.tag, NEW text, text = Holder.text
                   PROVE  FileFits'
      OBVIOUS
    <3>2. Fits(tag, text) /\ tag.over \in Texts
      BY <1>1, <3>1 DEF PairsFit, HolderFits, Spans
    <3>3. Fits(tag, text)'
      BY <3>2, FitsStays
    <3>4. file'.tag = tag /\ file'.text = text
      BY <2>2, <3>1
    <3> QED BY <3>3, <3>4 DEF FileFits, Fits
  <2> QED BY <1>1, <2>1, <2>2
<1> QED BY <1>1, <1>2, <1>3, SameStamp, ExporterPairs

LEMMA ExportFailsPairs ==
  ASSUME TypeOK, TypeOK', PairsFit, Monotone, Numbered', ResultsFit', ExportFails
  PROVE  PairsFit'
<1>1. /\ opinion'.text = opinion.text /\ opinion'.tag = opinion.tag
      /\ opinion'.tagged = opinion.tagged /\ opinion'.status = opinion.status
      /\ opinion'.stamp = opinion.stamp /\ runs' = runs /\ file' = file
  BY DEF ExportFails, TypeOK
<1>2. HolderGoes /\ \A q \in Processes : q # "exporter" => mem'[q] = mem[q]
  BY HolderLeaves DEF ExportFails
<1> QED BY <1>1, <1>2, HolderStays, FileStays, SameStamp, ExporterPairs

LEMMA ExportStampPairs ==
  ASSUME TypeOK, TypeOK', PairsFit, Monotone, Numbered', ResultsFit', ExportStamp
  PROVE  PairsFit'
<1>1. /\ opinion'.text = opinion.text /\ opinion'.tag = opinion.tag
      /\ opinion'.tagged = opinion.tagged /\ opinion'.status = opinion.status
      /\ opinion'.stamp \in {opinion.stamp, Holder.tag} /\ runs' = runs /\ file' = file
      /\ Holder.step = "put"
  BY DEF ExportStamp, TypeOK, IsAt, Holder
<1>2. HolderGoes /\ \A q \in Processes : q # "exporter" => mem'[q] = mem[q]
  <2>1. Goes("exporter", "moved") \/ AfterExport
    BY DEF ExportStamp
  <2>2. "moved" \in Steps
    BY DEF Steps
  <2> QED BY <1>1, <2>1, <2>2, HolderMoves, HolderLeaves
<1>3. Exists /\ opinion'.stamp # NoSpans => opinion'.stamp.over <= opinion.text
  <2>1. Exists => Holder.tag.over <= Holder.text /\ Holder.text <= opinion.text
    BY <1>1 DEF PairsFit, HolderFits, Fits
  <2>2. Holder.tag.over \in Nat /\ Holder.text \in Nat /\ opinion.text \in Nat
    <3>1. /\ mem["exporter"].tag \in Spans \cup {NoSpans} /\ mem["exporter"].text \in Nat
          /\ opinion.text \in Nat
      BY DEF TypeOK, Slot, Texts, NoText
    <3>2. \A tag \in Spans \cup {NoSpans} : tag.over \in Nat
      BY DEF Spans, NoSpans, Texts
    <3> QED BY <3>1, <3>2 DEF Holder
  <2> QED BY <1>1, <2>1, <2>2, SameStamp
<1> QED BY <1>1, <1>2, <1>3, HolderStays, FileStays, ExporterPairs

LEMMA ExportMarkPairs ==
  ASSUME TypeOK, TypeOK', PairsFit, Monotone, Numbered', ResultsFit', ExportMark
  PROVE  PairsFit'
<1>1. /\ opinion'.text = opinion.text /\ opinion'.tag = opinion.tag
      /\ opinion'.tagged = opinion.tagged /\ opinion'.status = opinion.status
      /\ opinion'.stamp \in {opinion.stamp, Holder.tag} /\ runs' = runs
      /\ file' \in {file, NoFile} /\ Holder.step = "moved"
  BY DEF ExportMark, TypeOK, IsAt, Holder
<1>2. HolderGoes /\ \A q \in Processes : q # "exporter" => mem'[q] = mem[q]
  BY HolderLeaves DEF ExportMark
<1>3. Exists /\ opinion'.stamp # NoSpans => opinion'.stamp.over <= opinion.text
  <2>1. Exists => Holder.tag.over <= Holder.text /\ Holder.text <= opinion.text
    BY <1>1 DEF PairsFit, HolderFits, Fits
  <2>2. Holder.tag.over \in Nat /\ Holder.text \in Nat /\ opinion.text \in Nat
    <3>1. /\ mem["exporter"].tag \in Spans \cup {NoSpans} /\ mem["exporter"].text \in Nat
          /\ opinion.text \in Nat
      BY DEF TypeOK, Slot, Texts, NoText
    <3>2. \A tag \in Spans \cup {NoSpans} : tag.over \in Nat
      BY DEF Spans, NoSpans, Texts
    <3> QED BY <3>1, <3>2 DEF Holder
  <2> QED BY <1>1, <2>1, <2>2, SameStamp
<1> QED BY <1>1, <1>2, <1>3, HolderStays, FileStays, ExporterPairs

LEMMA SweepPairs ==
  ASSUME TypeOK, TypeOK', PairsFit, Monotone, Numbered', ResultsFit', Sweep
  PROVE  PairsFit'
<1>1. /\ HolderGoes /\ \A q \in Processes : q # "exporter" => mem'[q] = mem[q]
      /\ opinion' = opinion /\ file' \in {file, NoFile} /\ runs' = runs
  BY HolderEnds DEF Sweep
<1> QED BY <1>1, HolderStays, FileStays, SameStamp, ExporterPairs

LEMMA DeleteScanPairs ==
  ASSUME TypeOK, TypeOK', PairsFit, Monotone, Numbered', ResultsFit', DeleteScan
  PROVE  PairsFit'
<1>1. /\ ~Exists' /\ opinion'.text = NoText /\ opinion'.tag = NoSpans
      /\ opinion'.tagged = NoText /\ opinion'.status = "gone"
      /\ \A q \in Processes : q # "admin" => mem'[q] = mem[q]
      /\ file' = file
  BY DEF DeleteScan, Blank, Exists, Goes, TypeOK
<1>2. RowFits'
  BY <1>1 DEF RowFits
<1>3. FileFits' /\ AdminFits'
  BY <1>1 DEF FileFits, AdminFits
<1> QED BY <1>1, <1>2, <1>3, SlotsStay DEF PairsFit

LEMMA DeleteExportPairs ==
  ASSUME TypeOK, TypeOK', PairsFit, Monotone, Numbered', ResultsFit', DeleteExport
  PROVE  PairsFit'
<1>1. /\ mem'["admin"] = Idle /\ \A q \in Processes : q # "admin" => mem'[q] = mem[q]
      /\ opinion' = opinion /\ file' \in {file, NoFile} /\ runs' = runs
  BY DEF DeleteExport, Ends, TypeOK
<1> QED BY <1>1, AdminStays, OnlyASlot, SameRuns

LEMMA DiePairs ==
  ASSUME TypeOK, TypeOK', PairsFit, Monotone, Numbered', ResultsFit', NEW p \in {"exporter", "glue"}, Die(p)
  PROVE  PairsFit'
<1>1. /\ mem'[p] = Idle /\ \A q \in Processes : q # p => mem'[q] = mem[q]
      /\ opinion' = opinion /\ file' = file /\ runs' = runs
  BY DEF Die, Ends, TypeOK
<1>2. p = "glue" => GluerFits(p)'
  BY <1>1, GluerStays
<1>3. p = "exporter" => HolderFits'
  BY <1>1 DEF HolderFits, Holder, Idle
<1> QED BY <1>1, <1>2, <1>3, OnlyASlot, SameRuns

LEMMA PairsStep ==
  ASSUME TypeOK, TypeOK', PairsFit, FinalXmlAssumption, [Next]_vars
  PROVE  PairsFit'
<1>1. Monotone /\ Numbered' /\ ResultsFit'
  BY MonotoneStep
<1>2. CASE UNCHANGED vars
  <2>1. AdminFits' /\ mem' = mem /\ runs' = runs /\ opinion' = opinion /\ file' = file
    BY <1>1, <1>2, AdminStays DEF vars
  <2> QED BY <1>1, <2>1, OnlyASlot, SameRuns
<1>3. CASE Next
  BY <1>1, <1>3, ApprovePairs, ReopenTextPairs, RewriteReadPairs, RewriteSwapPairs,
     PressReadPairs, PressEnsurePairs, RunEndsPairs, GluePickPairs, GlueReadPairs,
     GlueStampPairs, GlueEndsPairs, CommandListsPairs, WithdrawReadPairs,
     WithdrawDeletePairs, WithdrawClearPairs, ExportReadPairs, ExportPutPairs,
     ExportFailsPairs, ExportStampPairs, ExportMarkPairs, SweepPairs, DeleteScanPairs,
     DeleteExportPairs, DiePairs
  DEF Next, TextNext, TaggerNext, ExportNext, DeleteNext
<1> QED BY <1>2, <1>3

LEMMA PairsInit == ASSUME FinalXmlAssumption, Init PROVE PairsFit
<1>1. UsedTexts = 1..0 /\ UsedRuns = 1..0
  BY DEF Init, UsedTexts, UsedRuns, NoRun
<1>2. Numbered
  BY <1>1 DEF Numbered, FinalXmlAssumption
<1>3. RowFits /\ FileFits /\ ResultsFit
  BY <1>1 DEF Init, NoRun, Resulted, ResultsFit, HasResult, Blank, RowFits, FileFits, Exists
<1>4. \A p \in Processes : mem[p].step = "idle"
  BY DEF Init, Idle
<1> QED BY <1>2, <1>3, <1>4
        DEF PairsFit, GluerFits, PressFits, RewriteFits, HolderFits, AdminFits, IsAt, Holder

\* Spans stand beside the body they were made from, on the row and in the file
\* CourtListener reads, for every order of approvals, rewrites, presses, glues,
\* exports, deletions and deaths, and whichever runs were given an older result
\* (tagger.glue_run, rewrite_text, final_xml.export, _reusable_results).
THEOREM SpansAlwaysFit == Spec => []SpansFitText
<1> USE FinalXmlAssumption
<1>1. Init => TypeOK /\ PairsFit
  BY TypeInit, PairsInit
<1>2. TypeOK /\ PairsFit /\ [Next]_vars => TypeOK' /\ PairsFit'
  BY TypeStep, PairsStep
<1>3. TypeOK /\ PairsFit => SpansFitText
  <2> SUFFICES ASSUME TypeOK, PairsFit PROVE SpansFitText
    OBVIOUS
  <2>1. IsTagged => runs[opinion.tag.run].made = body[opinion.text]
    BY DEF IsTagged, PairsFit, RowFits, Fits
  <2>2. Exists /\ file # NoFile => runs[file.tag.run].made = body[file.text]
    BY DEF PairsFit, FileFits, Fits
  <2> QED BY <2>1, <2>2 DEF SpansFitText
<1> QED BY <1>1, <1>2, <1>3, PTL DEF Spec

-----------------------------------------------------------------------------
(* The stamp and the object, step by step.                                 *)

LEMMA OthersKeepStamp ==
  ASSUME ObjectFits, Holder' = Holder,
         file' = file \/ (~Exists' /\ file' = NoFile),
         Exists' => /\ Exists /\ opinion'.stamp = opinion.stamp
                    /\ Surpassed => Surpassed'
                    /\ opinion'.current => opinion.current /\ (Matched => Matched')
  PROVE  ObjectFits'
BY DEF ObjectFits, StampFits, ObjectIsNamed

\* Neither is disturbed by what only the exporter's count and marks change.
LEMMA RowKeepsStamp ==
  ASSUME opinion'.text = opinion.text, opinion'.tag = opinion.tag,
         opinion'.tagged = opinion.tagged, opinion'.status = opinion.status,
         opinion'.stamp = opinion.stamp
  PROVE  /\ Surpassed' <=> Surpassed
         /\ file' = file => (Matched' <=> Matched)
         /\ Exists' <=> Exists
BY DEF Surpassed, Matched, IsTagged, Exists

LEMMA StampBelow ==
  ASSUME TypeOK, PairsFit, Exists
  PROVE  /\ opinion.stamp.over \in Nat /\ opinion.text \in Nat
         /\ opinion.stamp.over <= opinion.text
         /\ opinion.tagged \in Nat /\ opinion.tagged <= opinion.text
<1>1. opinion.text \in Nat /\ opinion.tagged \in Nat
  BY DEF TypeOK, Texts, NoText
<1>2. opinion.stamp.over \in Nat /\ opinion.stamp.over <= opinion.text
  <2>1. CASE opinion.stamp = NoSpans
    BY <1>1, <2>1 DEF NoSpans
  <2>2. CASE opinion.stamp # NoSpans
    BY <2>2 DEF TypeOK, Spans, Texts, PairsFit, RowFits
  <2> QED BY <2>1, <2>2
<1>3. opinion.tagged <= opinion.text
  BY <1>1 DEF PairsFit, RowFits, Fits, NoText
<1> QED BY <1>1, <1>2, <1>3

LEMMA ApproveObject ==
  ASSUME TypeOK, PairsFit, ObjectFits, FinalXmlAssumption, Approve
  PROVE  ObjectFits'
<1>1. PICK b \in Bodies : Written(b)
  BY DEF Approve
<1>2. NewText \in Texts /\ \A t \in UsedTexts : t < NewText
  BY <1>1, NextText DEF Approve, PairsFit
<1>3. /\ opinion'.text = NewText /\ opinion'.tag = opinion.tag /\ opinion'.stamp = opinion.stamp
      /\ opinion'.tagged = opinion.tagged /\ opinion'.current = opinion.current
      /\ Exists' /\ Exists /\ file' = file /\ Holder' = Holder
  BY DEF Approve, TypeOK, Exists, Holder
<1>4. opinion.text < NewText /\ NewText \in Nat
  BY <1>2 DEF PairsFit, RowFits, Texts, NoText
<1>5. opinion'.stamp.over < opinion'.text /\ opinion'.tagged # opinion'.text
  BY <1>3, <1>4, StampBelow
<1>6. Surpassed' /\ (Matched => Matched')
  BY <1>3, <1>5 DEF Surpassed, Matched, IsTagged
<1> QED BY <1>3, <1>6, OthersKeepStamp

LEMMA ReopenTextObject ==
  ASSUME TypeOK, ObjectFits, ReopenText
  PROVE  ObjectFits'
<1>1. /\ opinion'.text = opinion.text /\ opinion'.tag = opinion.tag
      /\ opinion'.stamp = opinion.stamp /\ opinion'.tagged = opinion.tagged
      /\ opinion'.current = opinion.current /\ opinion'.status = "open"
      /\ Exists' /\ Exists /\ file' = file /\ Holder' = Holder
  BY DEF ReopenText, TypeOK, Exists, Holder
<1>2. Surpassed' /\ (Matched => Matched')
  BY <1>1 DEF Surpassed, Matched, IsTagged
<1> QED BY <1>1, <1>2, OthersKeepStamp

LEMMA RewriteSwapObject ==
  ASSUME TypeOK, PairsFit, ObjectFits, FinalXmlAssumption, RewriteSwap
  PROVE  ObjectFits'
<1>1. PICK b \in Bodies :
        /\ Written(b)
        /\ \/ opinion' = opinion
           \/ /\ opinion.status = "approved"
              /\ opinion.text = mem["rewrite"].text
              /\ opinion.tagged = mem["rewrite"].tagged /\ Carries(b)
              /\ opinion' = [opinion EXCEPT !.text = NewText, !.tagged = NewText,
                                            !.current = FALSE, !.attempts = 0]
           \/ opinion' = [opinion EXCEPT !.text = NewText]
  BY DEF RewriteSwap
<1>2. NewText \in Texts /\ \A t \in UsedTexts : t < NewText
  BY <1>1, NextText DEF RewriteSwap, PairsFit
<1>3. file' = file /\ Holder' = Holder
  BY DEF RewriteSwap, Ends, Holder, TypeOK
<1>4. opinion.text < NewText /\ NewText \in Nat
  BY <1>2 DEF PairsFit, RowFits, Texts, NoText
<1>5. CASE opinion' = opinion
  BY <1>3, <1>5, RowKeepsStamp, OthersKeepStamp
<1>6. CASE opinion' = [opinion EXCEPT !.text = NewText]
  <2>1. /\ opinion'.text = NewText /\ opinion'.tag = opinion.tag
        /\ opinion'.stamp = opinion.stamp /\ opinion'.tagged = opinion.tagged
        /\ opinion'.current = opinion.current /\ (Exists' <=> Exists)
    BY <1>6 DEF TypeOK, Exists
  <2>2. Exists => Surpassed' /\ (Matched => Matched')
    BY <1>3, <1>4, <2>1, StampBelow DEF Surpassed, Matched, IsTagged
  <2> QED BY <1>3, <2>1, <2>2, OthersKeepStamp
<1>7. CASE /\ opinion.status = "approved"
           /\ opinion.text = mem["rewrite"].text
           /\ opinion.tagged = mem["rewrite"].tagged /\ Carries(b)
           /\ opinion' = [opinion EXCEPT !.text = NewText, !.tagged = NewText,
                                         !.current = FALSE, !.attempts = 0]
  <2>1. /\ opinion'.text = NewText /\ opinion'.tag = opinion.tag
        /\ opinion'.stamp = opinion.stamp /\ ~opinion'.current
        /\ opinion.tagged = opinion.text
        /\ Exists' /\ Exists
    BY <1>7 DEF TypeOK, Exists, Carries
  <2>2. Surpassed => Surpassed'
    BY <1>4, <1>7, <2>1, StampBelow DEF Surpassed
  <2> QED BY <1>3, <2>1, <2>2, OthersKeepStamp
<1> QED BY <1>1, <1>5, <1>6, <1>7

LEMMA GlueStampObject ==
  ASSUME TypeOK, PairsFit, ObjectFits, NEW p \in Gluers, GlueStamp(p)
  PROVE  ObjectFits'
<1>1. file' = file /\ Holder' = Holder
  BY DEF GlueStamp, Goes, Holder, TypeOK
<1>2. CASE ~Exists
  BY <1>1, <1>2, RowKeepsStamp, OthersKeepStamp DEF GlueStamp
<1>3. CASE Exists
  <2> DEFINE tag == [run |-> mem[p].run, over |-> mem[p].text]
  <2>1. /\ opinion'.tag = tag /\ opinion'.tagged = mem[p].text
        /\ opinion'.text = opinion.text /\ opinion'.stamp = opinion.stamp
        /\ opinion'.status = opinion.status /\ opinion'.current = opinion.current
    BY <1>3 DEF GlueStamp, TypeOK
  <2>2. tag.over = mem[p].text
    OBVIOUS
  <2> HIDE DEF tag
  <2>3. Exists'
    BY <1>3, <2>1 DEF Exists
  <2>4. Surpassed => Surpassed'
    BY <2>1, <2>2 DEF Surpassed
  <2>5. Matched => Matched'
    <3>1. SUFFICES ASSUME Matched, opinion'.tagged = opinion'.text,
                          opinion'.stamp = opinion'.tag
                   PROVE  file'.text = opinion'.text
      BY <1>1, <2>1 DEF Matched, IsTagged
    <3>2. file # NoFile /\ file.tag.over = opinion.text
      BY <2>1, <2>2, <3>1 DEF Matched
    <3>3. file.tag.over <= file.text /\ file.text <= opinion.text /\ file.text \in UsedTexts
      BY <1>3, <3>2 DEF PairsFit, FileFits, Fits
    <3>4. file.text \in Nat /\ opinion.text \in Nat
      BY <3>3 DEF UsedTexts, Texts, TypeOK, NoText
    <3> QED BY <1>1, <2>1, <3>2, <3>3, <3>4
  <2> QED BY <1>1, <1>3, <2>1, <2>3, <2>4, <2>5, OthersKeepStamp
<1> QED BY <1>2, <1>3

\* What a step of the exporter leaves of the row's promise and of its list.
LEMMA ExporterMoves ==
  ASSUME TypeOK, NEW s \in Steps, Goes("exporter", s)
  PROVE  /\ Holder'.step = s /\ Holder'.tag = Holder.tag /\ Holder'.text = Holder.text
         /\ Holder'.orphan = Holder.orphan
BY DEF Goes, Holder, TypeOK, Slot

LEMMA ExporterEnds ==
  ASSUME TypeOK, Ends("exporter")
  PROVE  Holder'.step = "idle" /\ ~Holder'.orphan
BY DEF Ends, Holder, TypeOK, Idle

LEMMA ExporterLeaves ==
  ASSUME TypeOK, AfterWithdraw \/ AfterExport
  PROVE  /\ Holder'.step \in {"idle", "listed", "sweep"}
         /\ Holder'.orphan => Holder.orphan
<1>1. Ends("exporter") \/ Goes("exporter", "listed") \/ Goes("exporter", "sweep")
  BY DEF AfterWithdraw, AfterExport
<1>2. "listed" \in Steps /\ "sweep" \in Steps
  BY DEF Steps
<1> QED BY <1>1, <1>2, ExporterMoves, ExporterEnds

LEMMA CommandListsObject ==
  ASSUME TypeOK, ObjectFits, CommandLists
  PROVE  ObjectFits'
<1>1. /\ opinion'.text = opinion.text /\ opinion'.tag = opinion.tag
      /\ opinion'.tagged = opinion.tagged /\ opinion'.status = opinion.status
      /\ opinion'.stamp = opinion.stamp /\ file' = file
      /\ opinion'.current => opinion.current
  BY DEF CommandLists, TypeOK
<1>2. Holder'.step = "listed" /\ Holder'.orphan = Orphaned /\ Holder.step = "idle"
  BY DEF CommandLists, Holder, IsAt, TypeOK, Idle
<1>3. Orphaned => ~Exists
  BY <1>2 DEF Orphaned, ObjectFits, ObjectIsNamed
<1> QED BY <1>1, <1>2, <1>3, RowKeepsStamp DEF ObjectFits, StampFits, ObjectIsNamed

LEMMA WithdrawReadObject ==
  ASSUME TypeOK, ObjectFits, WithdrawRead
  PROVE  ObjectFits'
<1>1. /\ Holder'.step = "delete" /\ Holder'.tag = opinion.stamp
      /\ Holder'.orphan = Holder.orphan /\ Holder.step \in {"idle", "listed"}
      /\ opinion' = opinion /\ file' = file
  BY DEF WithdrawRead, Holder, TypeOK, Slot
<1>2. Surpassed
  BY DEF WithdrawRead, Withdrawn, Surpassed
<1>3. Surpassed' /\ (Exists' <=> Exists)
  BY <1>1, <1>2, RowKeepsStamp
<1> QED BY <1>1, <1>3 DEF ObjectFits, StampFits, ObjectIsNamed

LEMMA WithdrawDeleteObject ==
  ASSUME TypeOK, ObjectFits, WithdrawDelete
  PROVE  ObjectFits'
<1>1. opinion' = opinion /\ Holder.step = "delete"
  BY DEF WithdrawDelete, IsAt, Holder
<1>2. (Surpassed' <=> Surpassed) /\ (Exists' <=> Exists) /\ (file' = file => (Matched' <=> Matched))
  BY <1>1, RowKeepsStamp
<1>3. CASE file' = NoFile /\ Goes("exporter", "clear")
  <2>1. /\ Holder'.step = "clear" /\ Holder'.tag = Holder.tag
        /\ Holder'.orphan = Holder.orphan
    BY <1>3, ExporterMoves DEF Steps
  <2> QED BY <1>1, <1>2, <1>3, <2>1 DEF ObjectFits, StampFits, ObjectIsNamed
<1>4. CASE AfterWithdraw /\ file' = file
  <2>1. Holder'.step \in {"idle", "listed", "sweep"} /\ (Holder'.orphan => Holder.orphan)
    BY <1>4, ExporterLeaves
  <2> QED BY <1>1, <1>2, <1>4, <2>1 DEF ObjectFits, StampFits, ObjectIsNamed
<1> QED BY <1>3, <1>4 DEF WithdrawDelete

LEMMA WithdrawClearObject ==
  ASSUME TypeOK, ObjectFits, WithdrawClear
  PROVE  ObjectFits'
<1>1. /\ Holder.step = "clear" /\ file = NoFile /\ file' = NoFile
      /\ Exists => opinion.stamp = Holder.tag
  BY DEF WithdrawClear, IsAt, Holder, ObjectFits, StampFits
<1>2. Holder'.step \in {"idle", "listed", "sweep"} /\ (Holder'.orphan => Holder.orphan)
  BY ExporterLeaves DEF WithdrawClear
<1>3. opinion'.status = opinion.status /\ (Exists => ~opinion'.current)
  BY <1>1 DEF WithdrawClear, TypeOK
<1> QED BY <1>1, <1>2, <1>3 DEF ObjectFits, StampFits, ObjectIsNamed, Exists

LEMMA ExportReadObject ==
  ASSUME TypeOK, ObjectFits, ExportRead
  PROVE  ObjectFits'
<1>1. /\ Holder'.step = "render" /\ Holder'.orphan = Holder.orphan
      /\ Holder.step \in {"idle", "listed"} /\ opinion' = opinion /\ file' = file
  BY DEF ExportRead, Holder, TypeOK, Slot
<1> QED BY <1>1, RowKeepsStamp DEF ObjectFits, StampFits, ObjectIsNamed

LEMMA ExportPutObject ==
  ASSUME NothingLost, TypeOK, ObjectFits, ExportPut
  PROVE  ObjectFits'
<1>1. opinion' = opinion /\ Holder.step = "render"
  BY DEF ExportPut, IsAt, Holder
<1>2. (Surpassed' <=> Surpassed) /\ (Exists' <=> Exists) /\ (file' = file => (Matched' <=> Matched))
  BY <1>1, RowKeepsStamp
<1>3. CASE file' = [text |-> Holder.text, tag |-> Holder.tag] /\ Goes("exporter", "put")
  <2>1. /\ Holder'.step = "put" /\ Holder'.tag = Holder.tag /\ Holder'.text = Holder.text
        /\ Holder'.orphan = Holder.orphan
    BY <1>3, ExporterMoves DEF Steps
  <2> QED BY <1>1, <1>2, <1>3, <2>1 DEF ObjectFits, StampFits, ObjectIsNamed
<1>4. CASE AfterExport /\ file' = file
  <2>1. Holder'.step \in {"idle", "listed", "sweep"} /\ (Holder'.orphan => Holder.orphan)
    BY <1>4, ExporterLeaves
  <2> QED BY <1>1, <1>2, <1>4, <2>1 DEF ObjectFits, StampFits, ObjectIsNamed
<1> QED BY <1>3, <1>4 DEF ExportPut, NothingLost

LEMMA ExportFailsObject ==
  ASSUME TypeOK, ObjectFits, ExportFails
  PROVE  ObjectFits'
<1>1. /\ opinion'.text = opinion.text /\ opinion'.tag = opinion.tag
      /\ opinion'.tagged = opinion.tagged /\ opinion'.status = opinion.status
      /\ opinion'.stamp = opinion.stamp /\ file' = file /\ opinion'.current = opinion.current
  BY DEF ExportFails, TypeOK
<1>2. Holder'.step \in {"idle", "listed", "sweep"} /\ (Holder'.orphan => Holder.orphan)
  BY ExporterLeaves DEF ExportFails
<1>3. Holder.step = "render"
  BY DEF ExportFails, IsAt, Holder
<1> QED BY <1>1, <1>2, <1>3, RowKeepsStamp DEF ObjectFits, StampFits, ObjectIsNamed

LEMMA ExportStampObject ==
  ASSUME TypeOK, PairsFit, ObjectFits, ExportStamp
  PROVE  ObjectFits'
<1>1. Holder.step = "put" /\ file' = file
  BY DEF ExportStamp, IsAt, Holder
<1>2. CASE /\ opinion.status = "approved" /\ opinion.text = Holder.text
           /\ opinion.tagged = Holder.text /\ opinion.tag = Holder.tag
  <2>1. /\ opinion'.stamp = Holder.tag /\ opinion'.text = opinion.text
        /\ opinion'.tag = opinion.tag /\ opinion'.tagged = opinion.tagged
    BY <1>2 DEF ExportStamp, TypeOK
  <2>2. file' = [text |-> Holder.text, tag |-> Holder.tag] /\ Holder.tag \in Spans
    BY <1>1, <1>2 DEF ObjectFits, StampFits, Exists, PairsFit, HolderFits
  <2>3. Holder.tag # NoSpans
    BY <2>2 DEF Spans, NoSpans, Runs
  <2>4. file'.text = Holder.text /\ file'.tag = Holder.tag /\ file' # NoFile
    <3>1. Holder.text \in Texts
      BY <1>1 DEF PairsFit, HolderFits, Fits, UsedTexts
    <3> QED BY <2>2, <3>1 DEF NoFile, Texts
  <2>5. Matched' /\ opinion'.stamp # NoSpans
    BY <1>2, <2>1, <2>3, <2>4 DEF Matched
  <2>6. Holder'.step \in {"idle", "listed", "sweep"} /\ (Holder'.orphan => Holder.orphan)
    BY <1>2, ExporterLeaves DEF ExportStamp
  <2>7. ~Holder.orphan
    BY <1>2 DEF ObjectFits, StampFits, Exists
  <2> QED BY <2>5, <2>6, <2>7 DEF ObjectFits, StampFits, ObjectIsNamed
<1>3. CASE opinion' = opinion /\ Goes("exporter", "moved")
  <2>1. /\ Holder'.step = "moved" /\ Holder'.tag = Holder.tag /\ Holder'.text = Holder.text
        /\ Holder'.orphan = Holder.orphan
    BY <1>3, ExporterMoves DEF Steps
  <2> QED BY <1>1, <1>3, <2>1, RowKeepsStamp DEF ObjectFits, StampFits, ObjectIsNamed
<1> QED BY <1>2, <1>3 DEF ExportStamp

LEMMA ExportMarkObject ==
  ASSUME TypeOK, PairsFit, ObjectFits, ExportMark
  PROVE  ObjectFits'
<1>1. Holder.step = "moved" /\ Holder.tag \in Spans
  BY DEF ExportMark, IsAt, Holder, PairsFit, HolderFits
<1>2. Holder'.step \in {"idle", "listed", "sweep"} /\ (Holder'.orphan => Holder.orphan)
  BY ExporterLeaves DEF ExportMark
<1>3. CASE Exists
  <2>1. /\ ~opinion'.current /\ opinion'.status = opinion.status
        /\ opinion'.stamp = IF opinion.stamp = NoSpans THEN Holder.tag ELSE opinion.stamp
    BY <1>3 DEF ExportMark, TypeOK
  <2>2. opinion'.stamp # NoSpans
    BY <1>1, <2>1 DEF Spans, NoSpans, Runs
  <2> QED BY <1>2, <1>3, <2>1, <2>2 DEF ObjectFits, StampFits, ObjectIsNamed, Exists
<1>4. CASE ~Exists
  <2>1. ~Exists'
    BY <1>4 DEF ExportMark, Exists
  <2> QED BY <1>2, <2>1 DEF ObjectFits, StampFits, ObjectIsNamed
<1> QED BY <1>3, <1>4

LEMMA SweepObject ==
  ASSUME TypeOK, ObjectFits, Sweep
  PROVE  ObjectFits'
<1>1. /\ opinion' = opinion /\ Holder.step \in {"sweep", "listed"}
      /\ file' = file \/ (Holder.orphan /\ file' = NoFile)
  BY DEF Sweep, IsAt, Holder
<1>2. Holder'.step = "idle" /\ ~Holder'.orphan
  BY ExporterEnds DEF Sweep
<1>3. Holder.orphan => ~Exists
  BY DEF ObjectFits, StampFits
<1> QED BY <1>1, <1>2, <1>3, RowKeepsStamp DEF ObjectFits, StampFits, ObjectIsNamed

LEMMA DieObject ==
  ASSUME NothingLost, TypeOK, ObjectFits, NEW p \in {"exporter", "glue"}, Die(p)
  PROVE  ObjectFits'
<1>1. opinion' = opinion /\ file' = file
  BY DEF Die
<1>2. CASE p = "glue"
  <2>1. Holder' = Holder
    BY <1>2 DEF Die, Ends, Holder, TypeOK
  <2> QED BY <1>1, <2>1, RowKeepsStamp, OthersKeepStamp
<1>3. CASE p = "exporter"
  <2>1. Holder'.step = "idle" /\ ~Holder'.orphan /\ Holder.step \notin {"put", "moved"}
    BY <1>3, ExporterEnds DEF Die, NothingLost, Holder
  <2> QED BY <1>1, <2>1, RowKeepsStamp DEF ObjectFits, StampFits, ObjectIsNamed
<1> QED BY <1>2, <1>3

LEMMA DeleteObject ==
  ASSUME TypeOK, PairsFit, ObjectFits, DeleteNext
  PROVE  ObjectFits'
<1>1. CASE DeleteScan
  <2>1. ~Exists' /\ file' = file /\ Holder' = Holder
    BY <1>1 DEF DeleteScan, Blank, Exists, Goes, Holder, TypeOK
  <2> QED BY <2>1, OthersKeepStamp
<1>2. CASE DeleteExport
  <2>1. /\ ~Exists /\ opinion' = opinion /\ file' \in {file, NoFile} /\ Holder' = Holder
    BY <1>2 DEF DeleteExport, PairsFit, AdminFits, Ends, Holder, TypeOK
  <2>2. ~Exists'
    BY <2>1 DEF Exists
  <2> QED BY <2>1, <2>2, OthersKeepStamp
<1> QED BY <1>1, <1>2 DEF DeleteNext

\* The other steps of the tagger, and the first of the rewrite.
LEMMA QuietObject ==
  ASSUME TypeOK, ObjectFits, opinion' = opinion, file' = file, Holder' = Holder
  PROVE  ObjectFits'
BY RowKeepsStamp, OthersKeepStamp

LEMMA ObjectStep ==
  ASSUME NothingLost, FinalXmlAssumption, TypeOK, PairsFit, ObjectFits, [Next]_vars
  PROVE  ObjectFits'
<1>1. CASE TextNext
  <2>1. CASE RewriteRead
    BY <2>1, QuietObject DEF RewriteRead, Holder, TypeOK
  <2> QED BY <1>1, <2>1, ApproveObject, ReopenTextObject, RewriteSwapObject DEF TextNext
<1>2. CASE TaggerNext
  <2>1. CASE PressRead \/ RunEnds \/ GluePick
    BY <2>1, QuietObject DEF PressRead, RunEnds, GluePick, Holder, TypeOK
  <2>2. CASE PressEnsure
    <3>1. Holder' = Holder
      BY <2>2 DEF PressEnsure, Ends, Holder, TypeOK
    <3> QED BY <2>2, <3>1, QuietObject DEF PressEnsure
  <2>3. ASSUME NEW p \in Gluers, GlueRead(p) \/ GlueFails(p) \/ Consume(p) PROVE ObjectFits'
    BY <2>3, QuietObject DEF GlueRead, GlueFails, Consume, Goes, Ends, Holder, TypeOK
  <2> QED BY <1>2, <2>1, <2>2, <2>3, GlueStampObject DEF TaggerNext
<1>3. CASE ExportNext
  BY <1>3, WithdrawReadObject, WithdrawDeleteObject, WithdrawClearObject, ExportReadObject,
     ExportPutObject, ExportFailsObject, ExportStampObject, ExportMarkObject, SweepObject
  DEF ExportNext
<1>4. ASSUME NEW p \in {"exporter", "glue"}, Die(p) PROVE ObjectFits'
  BY <1>4, DieObject
<1>5. CASE UNCHANGED vars
  BY <1>5, QuietObject DEF vars, Holder
<1> QED BY <1>1, <1>2, <1>3, <1>4, <1>5, CommandListsObject, DeleteObject DEF Next

LEMMA ObjectInit == ASSUME Init PROVE ObjectFits
BY DEF Init, Blank, Idle, Holder, ObjectFits, StampFits, ObjectIsNamed, Exists

LEMMA WrittenFits ==
  ASSUME ObjectFits, TypeOK
  PROVE  WrittenIsCurrent
<1>1. SUFFICES ASSUME IsWritten, Holder.step \notin {"put", "moved"}
               PROVE  file = [text |-> opinion.text, tag |-> opinion.tag]
  BY DEF WrittenIsCurrent
<1>2. /\ opinion.status = "approved" /\ IsTagged /\ opinion.tagged = opinion.text
      /\ opinion.stamp = opinion.tag /\ opinion.current
  BY <1>1 DEF IsWritten, Exportable, IsTagged
<1>3. Matched \/ Surpassed
  BY <1>1, <1>2 DEF ObjectFits, StampFits, Exists
<1>4. opinion.tag.over \in Nat
  BY <1>2 DEF IsTagged, TypeOK, Spans, Texts
<1>5. ~Surpassed
  BY <1>2, <1>4 DEF Surpassed
<1>6. file \in Files /\ file.tag = opinion.tag /\ file.text = opinion.text
  BY <1>2, <1>3, <1>5 DEF Matched, TypeOK
<1> QED BY <1>6 DEF Files

\* What the row calls written is in the bucket and was built from the text and
\* the spans the row names (final_xml.is_written, export).
THEOREM WrittenStaysCurrent == NothingLost /\ Spec => []WrittenIsCurrent
<1> USE FinalXmlAssumption
<1>1. NothingLost /\ Init => TypeOK /\ PairsFit /\ ObjectFits
  BY TypeInit, PairsInit, ObjectInit
<1>2. NothingLost /\ TypeOK /\ PairsFit /\ ObjectFits /\ [Next]_vars =>
        TypeOK' /\ PairsFit' /\ ObjectFits'
  BY TypeStep, PairsStep, ObjectStep
<1>3. TypeOK /\ PairsFit /\ ObjectFits => WrittenIsCurrent
  BY WrittenFits
<1>4. NothingLost => NothingLost'
  BY DEF NothingLost
<1> QED BY <1>1, <1>2, <1>3, <1>4, PTL DEF Spec

\* A stamp names every object (final_xml's "A stamp names every object"):
\* whatever the order of reopenings, withdrawals, exports and commands, no object
\* is left with no row to delete it.
THEOREM ObjectsAreNamed == NothingLost /\ Spec => []ObjectIsNamed
<1> USE FinalXmlAssumption
<1>1. NothingLost /\ Init => TypeOK /\ PairsFit /\ ObjectFits
  BY TypeInit, PairsInit, ObjectInit
<1>2. NothingLost /\ TypeOK /\ PairsFit /\ ObjectFits /\ [Next]_vars =>
        TypeOK' /\ PairsFit' /\ ObjectFits'
  BY TypeStep, PairsStep, ObjectStep
<1>3. ObjectFits => ObjectIsNamed
  BY DEF ObjectFits
<1>4. NothingLost => NothingLost'
  BY DEF NothingLost
<1> QED BY <1>1, <1>2, <1>3, <1>4, PTL DEF Spec
=============================================================================
