------------------------------- MODULE FinalXml -------------------------------
(***************************************************************************)
(* The approved text of one opinion, the tagger's spans over it, and the   *)
(* final XML CourtListener reads (scanning/opinion_review.py, tagger.py,   *)
(* final_xml.py, management/commands/export_final_xml.py).                 *)
(*                                                                         *)
(* The key of the XML is stable, so an export writes over it: a stamp on   *)
(* the row says what the object holds.  Six processes share the row: the   *)
(* one exporter (the tick or the command, under an advisory lock), the     *)
(* glue of the tagger's runs, the request that presses the tagger, the     *)
(* command that writes approved texts again, and the admin who deletes the *)
(* scan; a curator approves and staff reopen at any time.  A text is       *)
(* abstracted to its key and its body, spans to the run that made them and *)
(* the text they were placed on.                                           *)
(***************************************************************************)
EXTENDS Integers, FiniteSets

CONSTANTS
  Bodies,       \* what the body of an approved text may read
  MaxTexts,     \* bound: approvals and rewrites
  MaxRuns,      \* bound: tagger runs
  MaxAttempts,  \* final_xml.MAX_ATTEMPTS
  MaxKills,     \* bound: processes that may die in one behaviour
  Events        \* what may happen beside the plain run, a subset of AllEvents

AllEvents == {"rewrite",  \* the command rewrite_approved_text
              "command",  \* the command export_final_xml
              "delete",   \* an admin deletes the scan
              "s3",       \* S3 refuses a write or a delete, or a look does not confirm
              "fault",    \* the objects do not give an XML, a glue fails
              "lost"}     \* a PUT lands though its answer is lost

None == "none"

ASSUME FinalXmlAssumption ==
  /\ Bodies # {} /\ None \notin Bodies
  /\ MaxTexts \in Nat /\ MaxRuns \in Nat /\ MaxKills \in Nat
  /\ MaxAttempts \in Nat \ {0}
  /\ Events \subseteq AllEvents

Texts == 1..MaxTexts   \* approved_text_key, in the order they are written
Runs  == 1..MaxRuns
NoText == 0
Spans   == [run : Runs, over : Texts]   \* spans_key
NoSpans == [run |-> 0, over |-> 0]
Files   == [text : Texts, tag : Spans]
NoFile  == [text |-> 0, tag |-> NoSpans]

RunStates == {"none", "pending", "completed", "consumed", "dead"}

VARIABLES
  opinion,  \* the Opinion row
  body,     \* the body of every approved text written so far
  runs,     \* the tagger's runs
  file,     \* the object at export/{scan}/{opinion}.xml
  mem,      \* what each process holds
  kills     \* processes killed so far

vars == <<opinion, body, runs, file, mem, kills>>

Processes == {"exporter", "glue", "press", "rewrite", "admin"}
Gluers    == {"glue", "press"}   \* who runs tagger.glue_run

Steps == {"idle", "listed", "sweep", "delete", "clear", "render", "put", "moved",
          "place", "placed", "consume", "pressed", "read", "gone"}

Slot == [step : Steps, text : Texts \cup {NoText}, tagged : Texts \cup {NoText},
         tag : Spans \cup {NoSpans}, run : Runs \cup {0},
         attempts : 0..MaxAttempts, command : BOOLEAN, orphan : BOOLEAN]
Idle == [step |-> "idle", text |-> NoText, tagged |-> NoText, tag |-> NoSpans,
         run |-> 0, attempts |-> 0, command |-> FALSE, orphan |-> FALSE]

TypeOK ==
  /\ opinion \in [status : {"open", "approved", "gone"},
                  text : Texts \cup {NoText}, tag : Spans \cup {NoSpans},
                  tagged : Texts \cup {NoText}, stamp : Spans \cup {NoSpans},
                  current : BOOLEAN, attempts : 0..MaxAttempts]
  /\ body \in [Texts -> Bodies \cup {None}]
  /\ runs \in [Runs -> [of : Bodies \cup {None}, made : Bodies \cup {None},
                       state : RunStates, gaveUp : BOOLEAN]]
  /\ file \in Files \cup {NoFile}
  /\ mem \in [Processes -> Slot]
  /\ kills \in 0..MaxKills

Blank == [status |-> "open", text |-> NoText, tag |-> NoSpans, tagged |-> NoText,
          stamp |-> NoSpans, current |-> FALSE, attempts |-> 0]
\* The body a run is over, and the body its result object was made from.
NoRun == [of |-> None, made |-> None, state |-> "none", gaveUp |-> FALSE]

Init ==
  /\ opinion = Blank
  /\ body = [t \in Texts |-> None]
  /\ runs = [r \in Runs |-> NoRun]
  /\ file = NoFile
  /\ mem = [p \in Processes |-> Idle]
  /\ kills = 0

-----------------------------------------------------------------------------
(* The rules read off the row.                                             *)

IsAt(p, step) == mem[p].step = step
Ends(p)       == mem' = [mem EXCEPT ![p] = Idle]
Goes(p, step) == mem' = [mem EXCEPT ![p].step = step]

Exists     == opinion.status # "gone"
IsTagged   == /\ opinion.text # NoText /\ opinion.tag # NoSpans
              /\ opinion.tagged = opinion.text
Exportable == opinion.status = "approved" /\ IsTagged
IsWritten  == Exportable /\ opinion.stamp = opinion.tag /\ opinion.current
Owed       == Exportable /\ ~IsWritten

\* Mutated form: an object of unknown content is left.
WithdrawnCurrent == opinion.status = "open" /\ opinion.stamp # NoSpans /\ opinion.current

Due       == Owed /\ opinion.attempts < MaxAttempts
Withdrawn == opinion.status = "open" /\ opinion.stamp # NoSpans

UsedTexts == {t \in Texts : body[t] # None}
UsedRuns  == {r \in Runs : runs[r].state # "none"}
LiveRun   == Cardinality(UsedRuns)   \* 0: no run

\* What the tagger has done with the approved text.
TaggerState ==
  IF IsTagged THEN "done"
  ELSE IF LiveRun = 0 THEN "none"
  ELSE CASE runs[LiveRun].state = "dead"     -> "failed"
         [] runs[LiveRun].state = "consumed" -> "stale"
         [] runs[LiveRun].state = "completed" /\ runs[LiveRun].gaveUp -> "failed"
         [] OTHER                            -> "running"

-----------------------------------------------------------------------------
(* The approval, the reopening, and the texts written again.               *)

NewText == Cardinality(UsedTexts) + 1

Written(b) == NewText \in Texts /\ body' = [body EXCEPT ![NewText] = b]

\* Every approval has a key of its own.
Approve ==
  /\ opinion.status = "open"
  /\ \E b \in Bodies : Written(b)
  /\ opinion' = [opinion EXCEPT !.status = "approved", !.text = NewText]
  /\ UNCHANGED <<runs, file, mem, kills>>

\* The approved text and the spans over it keep their keys.
ReopenText ==
  /\ opinion.status = "approved"
  /\ opinion' = [opinion EXCEPT !.status = "open"]
  /\ UNCHANGED <<body, runs, file, mem, kills>>

RewriteRead ==
  /\ "rewrite" \in Events
  /\ IsAt("rewrite", "idle") /\ opinion.status = "approved"
  /\ mem' = [mem EXCEPT !["rewrite"] = [Idle EXCEPT !.step = "read",
               !.text = opinion.text, !.tagged = opinion.tagged, !.tag = opinion.tag]]
  /\ UNCHANGED <<opinion, body, runs, file, kills>>

\* The spans of the text that was read hold over a new text with its body.
Carries(b) ==
  LET read == mem["rewrite"] IN
  read.tag # NoSpans /\ read.tagged = read.text /\ body[read.text] = b

\* Mutated form: the stored XML is not marked.
RewriteUnmarked ==
  /\ IsAt("rewrite", "read")
  /\ \E b \in Bodies :
       /\ Written(b)
       /\ opinion' =
            IF \/ opinion.status # "approved" \/ opinion.text # mem["rewrite"].text
               \/ Carries(b) /\ opinion.tagged # mem["rewrite"].tagged
            THEN opinion
            ELSE IF Carries(b)
                 THEN [opinion EXCEPT !.text = NewText, !.tagged = NewText, !.attempts = 0]
                 ELSE [opinion EXCEPT !.text = NewText]
  /\ Ends("rewrite")
  /\ UNCHANGED <<runs, file, kills>>

\* A swap over the key, and over the spans when they are carried.
RewriteSwap ==
  /\ IsAt("rewrite", "read")
  /\ \E b \in Bodies :
       /\ Written(b)
       /\ opinion' =
            IF \/ opinion.status # "approved" \/ opinion.text # mem["rewrite"].text
               \/ Carries(b) /\ opinion.tagged # mem["rewrite"].tagged
            THEN opinion
            ELSE IF Carries(b)
                 THEN [opinion EXCEPT !.text = NewText, !.tagged = NewText,
                                      !.current = FALSE, !.attempts = 0]
                 ELSE [opinion EXCEPT !.text = NewText]
  /\ Ends("rewrite")
  /\ UNCHANGED <<runs, file, kills>>

-----------------------------------------------------------------------------
(* The tagger: the press, the run, the glue.                               *)

PressRead ==
  /\ IsAt("press", "idle")
  /\ opinion.status = "approved" /\ TaggerState \in {"none", "failed", "stale"}
  /\ mem' = [mem EXCEPT !["press"] = [Idle EXCEPT !.step = "pressed", !.text = opinion.text]]
  /\ UNCHANGED <<opinion, body, runs, file, kills>>

HasResult(r) == runs[r].state \in {"completed", "consumed"}

\* Mutated form: a result is carried whatever it was made from.
PaidRunsAny(b) == {r \in UsedRuns : HasResult(r)}

\* The runs over a body that is paid for.
PaidRuns(b) == {r \in UsedRuns : HasResult(r) /\ runs[r].of = b}

\* What a new run over a body begins as: with the result of the newest run that has
\* one, or, with none, or none that a look at S3 confirms, with nothing.
NewRuns(b) ==
  {[NoRun EXCEPT !.of = b, !.made = runs[r].made, !.state = "completed"] :
     r \in {q \in PaidRuns(b) : \A k \in PaidRuns(b) : k <= q}}
  \cup IF PaidRuns(b) = {} \/ "s3" \in Events
       THEN {[NoRun EXCEPT !.of = b, !.state = "pending"]} ELSE {}

\* A run over this body is used again; a dead one is replaced.
PressEnsure ==
  LET wanted  == body[mem["press"].text]
      reused  == LiveRun # 0 /\ runs[LiveRun].of = wanted /\ runs[LiveRun].state # "dead"
      target  == IF reused THEN LiveRun ELSE LiveRun + 1 IN
  /\ IsAt("press", "pressed") /\ Exists
  /\ target \in Runs
  /\ IF reused THEN UNCHANGED runs
     ELSE \E run \in NewRuns(wanted) : runs' = [runs EXCEPT ![target] = run]
  /\ IF runs'[target].state \in {"completed", "consumed"}
     THEN mem' = [mem EXCEPT !["press"] = [Idle EXCEPT !.step = "place", !.run = target]]
     ELSE Ends("press")
  /\ UNCHANGED <<opinion, body, file, kills>>

\* The provider's job of a run.
RunEnds ==
  /\ \E r \in UsedRuns, state \in {"completed", "dead"} :
       /\ runs[r].state = "pending"
       /\ runs' = [runs EXCEPT ![r].state = state,
                               ![r].made = IF state = "completed" THEN runs[r].of ELSE None]
  /\ UNCHANGED <<opinion, body, file, mem, kills>>

\* The tick takes up the live run alone, once it is completed.
GluePick ==
  /\ IsAt("glue", "idle") /\ Exists
  /\ LiveRun # 0 /\ runs[LiveRun].state = "completed" /\ ~runs[LiveRun].gaveUp
  /\ mem' = [mem EXCEPT !["glue"] = [Idle EXCEPT !.step = "place", !.run = LiveRun]]
  /\ UNCHANGED <<opinion, body, runs, file, kills>>

\* Mutated form: the digest of the text is not compared.
GlueReadAny(p) ==
  /\ IsAt(p, "place")
  /\ IF Exists
     THEN mem' = [mem EXCEPT ![p].step = "placed", ![p].text = opinion.text]
     ELSE Goes(p, "consume")
  /\ UNCHANGED <<opinion, body, runs, file, kills>>

\* The approved text the row names now must be the text the run read.
GlueRead(p) ==
  /\ IsAt(p, "place")
  /\ IF Exists /\ body[opinion.text] = runs[mem[p].run].of
     THEN mem' = [mem EXCEPT ![p].step = "placed", ![p].text = opinion.text]
     ELSE Goes(p, "consume")
  /\ UNCHANGED <<opinion, body, runs, file, kills>>

\* The spans and the text they are over go on the row together, whatever the
\* row holds by now.
GlueStamp(p) ==
  /\ IsAt(p, "placed")
  /\ opinion' = IF ~Exists THEN opinion
                ELSE [opinion EXCEPT !.tag = [run |-> mem[p].run, over |-> mem[p].text],
                                     !.tagged = mem[p].text, !.attempts = 0]
  /\ Goes(p, "consume")
  /\ UNCHANGED <<body, runs, file, kills>>

\* A failure counts on the row of the run; the tick leaves it alone at the cap,
\* here the first.
GlueFails(p) ==
  /\ "fault" \in Events
  /\ mem[p].step \in {"place", "placed"}
  /\ runs' = IF Exists THEN [runs EXCEPT ![mem[p].run].gaveUp = TRUE] ELSE runs
  /\ Ends(p)
  /\ UNCHANGED <<opinion, body, file, kills>>

Consume(p) ==
  /\ IsAt(p, "consume")
  /\ runs' = IF runs[mem[p].run].state = "completed"
             THEN [runs EXCEPT ![mem[p].run].state = "consumed"] ELSE runs
  /\ Ends(p)
  /\ UNCHANGED <<opinion, body, file, kills>>

-----------------------------------------------------------------------------
(* The exporter.  Withdrawals go first; the command lists the objects no   *)
(* stamp names before it exports and deletes them after.                   *)

Holder == mem["exporter"]

AfterWithdraw == IF Holder.command THEN Goes("exporter", "listed") ELSE Ends("exporter")
AfterExport   == IF Holder.command THEN Goes("exporter", "sweep") ELSE Ends("exporter")

Orphaned == file # NoFile /\ (opinion.stamp = NoSpans \/ ~Exists)

\* The command starts the counts again, and with --rewrite marks what is written.
CommandLists ==
  /\ "command" \in Events
  /\ IsAt("exporter", "idle")
  /\ \E rewrite \in BOOLEAN :
       opinion' = [opinion EXCEPT
                     !.attempts = IF Owed \/ (rewrite /\ IsWritten) THEN 0 ELSE @,
                     !.current = @ /\ ~(rewrite /\ IsWritten)]
  /\ mem' = [mem EXCEPT !["exporter"] =
               [Idle EXCEPT !.step = "listed", !.command = TRUE, !.orphan = Orphaned]]
  /\ UNCHANGED <<body, runs, file, kills>>

WithdrawRead ==
  /\ Holder.step \in {"idle", "listed"} /\ Withdrawn
  /\ mem' = [mem EXCEPT !["exporter"].step = "delete", !["exporter"].tag = opinion.stamp]
  /\ UNCHANGED <<opinion, body, runs, file, kills>>

WithdrawDelete ==
  /\ IsAt("exporter", "delete")
  /\ \/ file' = NoFile /\ Goes("exporter", "clear")
     \/ "s3" \in Events /\ AfterWithdraw /\ UNCHANGED file
  /\ UNCHANGED <<opinion, body, runs, kills>>

WithdrawClear ==
  /\ IsAt("exporter", "clear")
  /\ opinion' = IF Exists /\ opinion.stamp = Holder.tag
                THEN [opinion EXCEPT !.stamp = NoSpans, !.current = FALSE] ELSE opinion
  /\ AfterWithdraw
  /\ UNCHANGED <<body, runs, file, kills>>

ExportRead ==
  /\ Holder.step \in {"idle", "listed"} /\ ~Withdrawn /\ Due
  /\ mem' = [mem EXCEPT !["exporter"].step = "render",
               !["exporter"].text = opinion.text, !["exporter"].tag = opinion.tag,
               !["exporter"].attempts = opinion.attempts]
  /\ UNCHANGED <<opinion, body, runs, file, kills>>

ExportPut ==
  /\ IsAt("exporter", "render")
  /\ \/ /\ file' = [text |-> Holder.text, tag |-> Holder.tag]
        /\ Goes("exporter", "put") \/ ("lost" \in Events /\ AfterExport)
     \/ "s3" \in Events /\ AfterExport /\ UNCHANGED file
  /\ UNCHANGED <<opinion, body, runs, kills>>

\* The count that was read, plus one, whatever it is by now.
ExportFails ==
  /\ "fault" \in Events
  /\ IsAt("exporter", "render")
  /\ opinion' = IF Exists THEN [opinion EXCEPT !.attempts = Holder.attempts + 1] ELSE opinion
  /\ AfterExport
  /\ UNCHANGED <<body, runs, file, kills>>

ExportStamp ==
  /\ IsAt("exporter", "put")
  /\ IF /\ opinion.status = "approved" /\ opinion.text = Holder.text
        /\ opinion.tagged = Holder.text /\ opinion.tag = Holder.tag
     THEN /\ opinion' = [opinion EXCEPT !.stamp = Holder.tag, !.current = TRUE, !.attempts = 0]
          /\ AfterExport
     ELSE UNCHANGED opinion /\ Goes("exporter", "moved")
  /\ UNCHANGED <<body, runs, file, kills>>

\* Mutated form: a blank stamp stays blank.
ExportMarkBlank ==
  /\ IsAt("exporter", "moved")
  /\ \/ Exists /\ opinion' = [opinion EXCEPT !.current = FALSE] /\ UNCHANGED file
     \/ ~Exists /\ file' = NoFile /\ UNCHANGED opinion
     \/ ~Exists /\ "s3" \in Events /\ UNCHANGED <<file, opinion>>
  /\ AfterExport
  /\ UNCHANGED <<body, runs, kills>>

\* The content is unknown; a row that is gone takes its object with it.
ExportMark ==
  /\ IsAt("exporter", "moved")
  /\ \/ /\ Exists
        /\ opinion' = [opinion EXCEPT !.current = FALSE,
                         !.stamp = IF @ = NoSpans THEN Holder.tag ELSE @]
        /\ UNCHANGED file
     \/ ~Exists /\ file' = NoFile /\ UNCHANGED opinion
     \/ ~Exists /\ "s3" \in Events /\ UNCHANGED <<file, opinion>>
  /\ AfterExport
  /\ UNCHANGED <<body, runs, kills>>

\* The orphan of the listing goes, whatever was exported since.
Sweep ==
  /\ IsAt("exporter", "sweep") \/ (IsAt("exporter", "listed") /\ ~Withdrawn /\ ~Due)
  /\ \/ file' = IF Holder.orphan THEN NoFile ELSE file
     \/ "s3" \in Events /\ UNCHANGED file
  /\ Ends("exporter")
  /\ UNCHANGED <<opinion, body, runs, kills>>

-----------------------------------------------------------------------------
(* The deletion of the scan: its rows first, then its object.              *)

DeleteScan ==
  /\ "delete" \in Events
  /\ IsAt("admin", "idle") /\ Exists
  /\ opinion' = [Blank EXCEPT !.status = "gone"]
  /\ runs' = [r \in Runs |-> NoRun]
  /\ Goes("admin", "gone")
  /\ UNCHANGED <<body, file, kills>>

DeleteExport ==
  /\ IsAt("admin", "gone")
  /\ file' = NoFile \/ ("s3" \in Events /\ UNCHANGED file)
  /\ Ends("admin")
  /\ UNCHANGED <<opinion, body, runs, kills>>

-----------------------------------------------------------------------------
\* The exporter or the glue dies and its task starts again.  An exporter between
\* its PUT and its stamp counts as "lost"; a request that dies is one that never
\* goes on.
Die(p) ==
  /\ kills < MaxKills
  /\ mem[p].step # "idle"
  /\ mem[p].step \in {"put", "moved"} => "lost" \in Events
  /\ kills' = kills + 1
  /\ Ends(p)
  /\ UNCHANGED <<opinion, body, runs, file>>

TextNext    == Approve \/ ReopenText \/ RewriteRead \/ RewriteSwap
TaggerNext  == \/ PressRead \/ PressEnsure \/ RunEnds \/ GluePick
               \/ \E p \in Gluers : GlueRead(p) \/ GlueStamp(p) \/ GlueFails(p) \/ Consume(p)
ExportNext  == \/ WithdrawRead \/ WithdrawDelete \/ WithdrawClear
               \/ ExportRead \/ ExportPut \/ ExportFails \/ ExportStamp \/ ExportMark
               \/ Sweep
DeleteNext  == DeleteScan \/ DeleteExport

Next ==
  \/ TextNext \/ TaggerNext \/ CommandLists \/ ExportNext \/ DeleteNext
  \/ \E p \in {"exporter", "glue"} : Die(p)

Spec == Init /\ [][Next]_vars

\* The pass runs again and again and goes on with what it began; S3 takes a
\* write and a delete once in a while.  Nobody has to press, approve or reopen.
Fairness ==
  /\ WF_vars(ExportNext)
  /\ SF_vars(ExportPut /\ IsAt("exporter", "put")')
  /\ SF_vars(WithdrawDelete /\ file' = NoFile)

FairSpec == Spec /\ Fairness

-----------------------------------------------------------------------------
(* Properties.                                                             *)

\* What the row calls written is in the bucket and was built from the text and
\* the spans the row names, though the key is written over and the inputs move
\* during the build; between a PUT and its stamp the swap still answers
\* (final_xml.is_written, export_opinion).
WrittenIsCurrent ==
  IsWritten /\ Holder.step \notin {"put", "moved"} =>
    file = [text |-> opinion.text, tag |-> opinion.tag]

\* The spans a row calls placed, and the spans of the file CourtListener reads,
\* were made from the body of the very text they stand beside, however glues of
\* older runs, presses and rewrites cross and whichever run's result was carried
\* (tagger.glue_run, rewrite_text, _reusable_results).
SpansFitText ==
  /\ IsTagged => runs[opinion.tag.run].made = body[opinion.text]
  /\ Exists /\ file # NoFile => runs[file.tag.run].made = body[file.text]

\* A stamp names every object, between an export's PUT and its stamp apart, so
\* none is left with no row to delete it (final_xml's "A stamp names every
\* object").
ObjectIsNamed ==
  file # NoFile /\ Exists /\ Holder.step \notin {"put", "moved"} =>
    opinion.stamp # NoSpans

\* The listing CourtListener imports catches up: the XML of a text that was
\* opened again leaves it, and an approved and tagged text is written or given
\* up at the cap.
ListingSettles ==
  /\ opinion.status = "open" /\ file # NoFile ~> opinion.status # "open" \/ file = NoFile
  /\ Due ~> ~Due

-----------------------------------------------------------------------------
(* Not so of the code: README.md says with which constants TLC shows it.   *)

\* What the row calls written is current at any moment.
WrittenAtAnyMoment ==
  IsWritten => file = [text |-> opinion.text, tag |-> opinion.tag]

\* New inputs start the count again, so one failed export counts once
\* (tagger.glue_run, "its fault count starts again").
OneFailureOneCount ==
  [][opinion'.attempts <= opinion.attempts + 1]_opinion
=============================================================================
