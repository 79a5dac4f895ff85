------------------------- MODULE MistralJobs_proofs -------------------------
(***************************************************************************)
(* Proofs about MistralJobs: the types, for any rows, attempts, cap, mode  *)
(* and faults; then, of one loop, that the contract of a job is kept, and, *)
(* where no answer is lost, that every page file can be found.             *)
(*                                                                         *)
(* The files a writer deletes are those its copy names, so what counts is  *)
(* how far a copy may be behind its row.  In one loop it is the row, or    *)
(* the row was abandoned: LInv says so, and what an abandoned row may      *)
(* still name.  KInv says that the number a claim takes is in no name yet, *)
(* and FInv where the name of each page file is, step by step: on its row, *)
(* in the hand of the wave that uploaded it, or in the prefix of a claim   *)
(* whose process was killed.                                               *)
(***************************************************************************)
EXTENDS MistralJobs, TLAPS, FiniteSetTheorems, SequenceTheorems

-----------------------------------------------------------------------------
(* The types.                                                              *)

Retrying(s) == \/ s.step = "rewrite"
               \/ s.why = "retry" /\ s.step \in {"cancel", "delete"}

\* A row in flight has its key; a retry is decided with an attempt left; what a
\* wave uploads has its number.
Keyed(cur) == cur.status \in InFlight => cur.key \in Attempts

SlotFits(s) ==
  /\ Keyed(s.read)
  /\ Retrying(s) => ~OutOfAttempts(s.read)
  /\ s.step \in {"claimed", "uploaded"} => s.read.at \in Ids
  /\ s.step \in {"swept", "harvest"} => s.read.status \in InFlight

TInv == /\ TypeOK
        /\ \A r \in Rows : Keyed(row[r])
        /\ \A p \in Processes, r \in Rows : SlotFits(hand[p][r])

LEMMA StatusFacts ==
  /\ InFlight \subseteq Statuses /\ Open \subseteq Statuses /\ Dead \subseteq Statuses
  /\ {"pending", "submitted", "in_progress", "completed", "consumed",
      "failed", "cancelled"} \subseteq Statuses
  /\ "submitted" \in InFlight /\ "in_progress" \in InFlight
  /\ InFlight \cap {"pending", "completed", "consumed", "failed", "cancelled"} = {}
BY DEF Statuses, Open, InFlight, Dead, Terminal

LEMMA ConstantFacts ==
  /\ MaxAttempts \in Nat \ {0} /\ MaxPosts \in Nat /\ 1 \in Attempts
  /\ Attempts \subseteq Nat /\ Ids \subseteq Nat /\ 0 \notin Ids
BY JobRowsAssumption DEF Attempts, Ids

LEMMA IdleFacts ==
  /\ FreshRow \in MistralRow /\ Idle \in Slot /\ SlotFits(Idle)
  /\ Idle.step = "idle" /\ Idle.why = "none" /\ Idle.read = FreshRow
  /\ Idle.files = {} /\ Idle.left = {} /\ Idle.ext = NoId
<1>1. FreshRow \in MistralRow
  BY ConstantFacts, StatusFacts DEF FreshRow, MistralRow, NoId, NoKey
<1>2. Idle \in Slot
  BY <1>1 DEF Idle, Slot, Steps, NoId
<1> QED
  BY <1>1, <1>2, StatusFacts DEF Idle, SlotFits, Keyed, FreshRow, Retrying

\* The slots of a state that fits.
LEMMA Slots ==
  ASSUME TInv, NEW p \in Processes, NEW r \in Rows
  PROVE  /\ hand[p][r] \in Slot /\ hand[p][r].read \in MistralRow /\ row[r] \in MistralRow
         /\ SlotFits(hand[p][r]) /\ Keyed(row[r]) /\ Keyed(hand[p][r].read)
BY DEF TInv, TypeOK, Slot, SlotFits

LEMMA Names == {"wave", "sweep", "web"} \subseteq Processes
BY DEF Processes

\* What one slot becomes.
LEMMA HandSet ==
  ASSUME TInv, NEW p \in Processes, NEW r \in Rows, NEW s \in Slot, Becomes(p, r, s)
  PROVE  /\ hand' \in [Processes -> [Rows -> Slot]]
         /\ hand'[p][r] = s
         /\ \A q \in Processes, t \in Rows : q # p \/ t # r => hand'[q][t] = hand[q][t]
<1>1. hand \in [Processes -> [Rows -> Slot]] /\ hand' = [hand EXCEPT ![p][r] = s]
  BY DEF TInv, TypeOK, Becomes
<1>2. hand[p] \in [Rows -> Slot] /\ hand' = [hand EXCEPT ![p] = [hand[p] EXCEPT ![r] = s]]
  BY <1>1
<1>3. [hand[p] EXCEPT ![r] = s] \in [Rows -> Slot]
  BY <1>2
<1> QED
  BY <1>1, <1>2, <1>3

\* The types after a step of one process on one row.
LEMMA TypesMove ==
  ASSUME TInv, NEW p \in Processes, NEW r \in Rows, NEW s \in Slot, Becomes(p, r, s),
         SlotFits(s),
         row' \in [Rows -> MistralRow], \A t \in Rows : Keyed(row'[t]),
         subs' \in Seq(Submission) /\ Len(subs') <= MaxPosts,
         files' \subseteq Files, results' \subseteq Rows \X Attempts,
         stops' \in 0..MaxStops, killed' \in BOOLEAN
  PROVE  TInv'
<1>1. /\ hand' \in [Processes -> [Rows -> Slot]] /\ hand'[p][r] = s
      /\ \A q \in Processes, t \in Rows : q # p \/ t # r => hand'[q][t] = hand[q][t]
  BY HandSet
<1>2. TypeOK'
  BY <1>1 DEF TypeOK
<1>3. ASSUME NEW q \in Processes, NEW t \in Rows PROVE SlotFits(hand'[q][t])
  BY <1>1, Slots
<1> QED
  BY <1>2, <1>3 DEF TInv, SlotFits, Keyed, Retrying

\* The writes keep a row a row.
LEMMA RowWrites ==
  ASSUME NEW cur \in MistralRow, NEW read \in MistralRow
  PROVE  /\ \A n \in Ids : [Claimed(cur, read, CeilingOnce(read)) EXCEPT !.at = n] \in MistralRow
         /\ HandedBack(cur) \in MistralRow
         /\ ~OutOfAttempts(read) => NextAttempt(cur, read) \in MistralRow
         /\ \A S \in SUBSET Files : NamedForDeletion(cur, S) \in MistralRow
         /\ \A S \in SUBSET Files : Naming(cur, S) \in MistralRow
         /\ \A S, T \in SUBSET Files : Carried(cur, T, S) \in MistralRow
         /\ \A status \in Statuses : WithStatus(cur, status) \in MistralRow
         /\ Refreshed(read, cur) \in MistralRow
<1>1. \A n \in Ids : [Claimed(cur, read, CeilingOnce(read)) EXCEPT !.at = n] \in MistralRow
  BY StatusFacts DEF Claimed, MistralRow
<1>2. HandedBack(cur) \in MistralRow
  BY StatusFacts DEF HandedBack, Deferred, MistralRow
<1>3. ~OutOfAttempts(read) => read.attempt + 1 \in Attempts
  BY ConstantFacts DEF OutOfAttempts, MistralRow, Attempts
<1>4. ~OutOfAttempts(read) => NextAttempt(cur, read) \in MistralRow
  BY <1>3, StatusFacts DEF NextAttempt, Retried, MistralRow
<1>5. /\ \A S \in SUBSET Files : NamedForDeletion(cur, S) \in MistralRow
      /\ \A S \in SUBSET Files : Naming(cur, S) \in MistralRow
      /\ \A S, T \in SUBSET Files : Carried(cur, T, S) \in MistralRow
  BY DEF NamedForDeletion, Naming, Carried, MistralRow
<1>6. /\ \A status \in Statuses : WithStatus(cur, status) \in MistralRow
      /\ Refreshed(read, cur) \in MistralRow
  BY DEF WithStatus, Refreshed, MistralRow
<1> QED
  BY <1>1, <1>2, <1>4, <1>5, <1>6

LEMMA RowSet ==
  ASSUME TInv, NEW r \in Rows, NEW new \in MistralRow, row' = [row EXCEPT ![r] = new]
  PROVE  /\ row' \in [Rows -> MistralRow] /\ row'[r] = new
         /\ \A t \in Rows \ {r} : row'[t] = row[t]
         /\ Keyed(new) => \A t \in Rows : Keyed(row'[t])
BY DEF TInv, TypeOK

LEMMA SwapSet ==
  ASSUME TInv, NEW r \in Rows, NEW read, NEW new \in MistralRow, Swap(r, read, new),
         Matches(row[r], read) => Keyed(new)
  PROVE  row' \in [Rows -> MistralRow] /\ \A t \in Rows : Keyed(row'[t])
BY DEF TInv, TypeOK, Swap

LEMMA CarrySet ==
  ASSUME TInv, NEW r \in Rows, NEW read \in MistralRow,
         NEW tried \in SUBSET Files, NEW kept \in SUBSET Files, Carry(r, read, tried, kept)
  PROVE  /\ row' \in [Rows -> MistralRow] /\ \A t \in Rows : Keyed(row'[t])
         /\ AfterCarry(r, read, tried, kept) \in MistralRow
         /\ Keyed(read) => Keyed(AfterCarry(r, read, tried, kept))
         /\ AfterCarry(r, read, tried, kept).attempt = read.attempt
<1>1. row[r] \in MistralRow /\ row \in [Rows -> MistralRow]
  BY DEF TInv, TypeOK
<1>2. Carried(row[r], tried, kept) \in MistralRow
  BY <1>1, RowWrites
<1>3. Refreshed(read, Carried(row[r], tried, kept)) \in MistralRow
  BY <1>2, RowWrites
<1>4. Keyed(Carried(row[r], tried, kept))
  BY <1>1 DEF TInv, Keyed, Carried, MistralRow
<1>5. row' \in [Rows -> MistralRow] /\ \A t \in Rows : Keyed(row'[t])
  BY <1>1, <1>2, <1>4, RowSet DEF Carry, TInv
<1>6. /\ Keyed(read) => Keyed(AfterCarry(r, read, tried, kept))
      /\ AfterCarry(r, read, tried, kept).attempt = read.attempt
  BY DEF AfterCarry, Refreshed, MistralRow, Keyed
<1> QED
  BY <1>3, <1>5, <1>6 DEF AfterCarry

LEMMA Same ==
  ASSUME TInv
  PROVE  /\ \A r \in Rows : Keyed(row[r])
         /\ row \in [Rows -> MistralRow] /\ subs \in Seq(Submission) /\ Len(subs) <= MaxPosts
         /\ Len(subs) \in Nat /\ DOMAIN subs = 1..Len(subs) /\ DOMAIN subs \subseteq Ids
         /\ files \subseteq Files /\ results \subseteq Rows \X Attempts
         /\ stops \in 0..MaxStops /\ stops \in Nat /\ killed \in BOOLEAN /\ MaxStops \in Nat
<1>1. Len(subs) \in Nat /\ DOMAIN subs = 1..Len(subs)
  BY DEF TInv, TypeOK
<1> QED
  BY <1>1, ConstantFacts, MistralAssumption DEF TInv, TypeOK, Ids

LEMMA FileFacts ==
  /\ \A n \in Ids : Pages(n) \in Files /\ Out(n) \in Files
  /\ \A S : Kept(S) \subseteq SUBSET S
BY DEF Pages, Out, Files, Kept

\* The slots a step makes of a slot.
LEMMA SlotWrites ==
  ASSUME NEW s \in Slot
  PROVE  /\ \A step \in Steps : Goes(s, step) \in Slot
         /\ \A why \in {"retry", "fail"} : ToVerdict(s, why) \in Slot
         /\ \A why \in {"retry", "end"} : ToCancel(s, why) \in Slot
         /\ \A why \in {"retry", "fail"} : Ends(s, why) \in Slot
         /\ \A read \in MistralRow : [s EXCEPT !.read = read] \in Slot
<1>1. \A step \in Steps : Goes(s, step) \in Slot
  BY DEF Goes, Slot
<1>2. \A why \in {"retry", "fail"} : ToVerdict(s, why) \in Slot
  BY DEF ToVerdict, Slot, Steps
<1>3. s.read.ext \in Ids \cup {NoId} /\ s.read.files \cup s.read.left \subseteq Files
  BY DEF Slot, MistralRow
<1>4. \A why \in {"retry", "end"} : ToCancel(s, why) \in Slot
  BY <1>3 DEF ToCancel, Slot, Steps
<1>5. \A why \in {"retry", "fail"} : Ends(s, why) \in Slot
  BY <1>2, IdleFacts DEF Ends
<1>6. \A read \in MistralRow : [s EXCEPT !.read = read] \in Slot
  BY DEF Slot
<1> QED
  BY <1>1, <1>2, <1>4, <1>5, <1>6

\* A verdict and an end retry nothing yet.
LEMMA NotYet ==
  ASSUME NEW s \in Slot, Keyed(s.read)
  PROVE  /\ \A step \in Steps \ {"cancel", "delete", "rewrite", "claimed", "uploaded",
                                 "swept", "harvest"} : SlotFits(Goes(s, step))
         /\ \A why : SlotFits(ToVerdict(s, why)) /\ SlotFits(Ends(s, why))
         /\ SlotFits(ToCancel(s, "end"))
         /\ ~OutOfAttempts(s.read) => SlotFits(ToCancel(s, "retry"))
BY IdleFacts DEF SlotFits, Retrying, Goes, ToVerdict, Ends, ToCancel, Slot

-----------------------------------------------------------------------------
LEMMA WaveReadTypes == ASSUME TInv, NEW r \in Rows, WaveRead(r) PROVE TInv'
<1> DEFINE s == [Idle EXCEPT !.step = "read", !.read = row[r]]
<1>1. s \in Slot /\ SlotFits(s)
  BY Slots, Names, IdleFacts DEF Slot, Steps, SlotFits, Keyed, Retrying
<1>2. Becomes("wave", r, s)
  BY DEF WaveRead
<1> HIDE DEF s
<1> QED
  BY <1>1, <1>2, TypesMove, Same, Names DEF WaveRead

LEMMA ClaimTypes == ASSUME TInv, NEW r \in Rows, Claim(r) PROVE TInv'
<1> DEFINE read == hand["wave"][r].read
           n    == Len(subs) + 1
           new  == [Claimed(row[r], read, CeilingOnce(read)) EXCEPT !.at = n]
           mine == [Claimed(read, read, CeilingOnce(read)) EXCEPT !.at = n]
           s    == [Idle EXCEPT !.step = "claimed", !.read = mine]
           sub  == [of |-> <<r, read.attempt>>, batch |-> "none"]
<1>1. read \in MistralRow /\ row[r] \in MistralRow
  BY Slots, Names
<1>2. CASE ~Matches(row[r], read)
  <2>1. Becomes("wave", r, Idle) /\ UNCHANGED <<row, subs, files, results, stops, killed>>
    BY <1>2 DEF Claim, Swap, Drops
  <2> QED
    BY <2>1, TypesMove, Same, Names, IdleFacts
<1>3. CASE Matches(row[r], read)
  <2>1. /\ row' = [row EXCEPT ![r] = new] /\ n <= MaxPosts
        /\ subs' = Append(subs, sub) /\ Becomes("wave", r, s)
        /\ UNCHANGED <<files, results, stops, killed>>
    BY <1>3, Same, ConstantFacts DEF Claim, Swap
  <2>2. n \in Ids
    BY <2>1, Same, ConstantFacts DEF Ids
  <2>3. /\ new \in MistralRow /\ mine \in MistralRow
        /\ Keyed(new) /\ Keyed(mine) /\ mine.at = n
    <3>1. new \in MistralRow /\ mine \in MistralRow
      BY <1>1, <2>2, RowWrites
    <3>2. new.key = read.attempt /\ mine.key = read.attempt /\ mine.at = n
      BY <1>1 DEF Claimed, MistralRow
    <3> QED
      BY <1>1, <3>1, <3>2 DEF Keyed, MistralRow
  <2>4. sub \in Submission
    BY <1>1 DEF Submission, MistralRow
  <2> HIDE DEF new, mine, sub
  <2>5. s \in Slot /\ SlotFits(s)
    BY <2>2, <2>3, IdleFacts DEF Slot, Steps, SlotFits, Keyed, Retrying
  <2>6. subs' \in Seq(Submission) /\ Len(subs') <= MaxPosts
    BY <2>1, <2>4, Same
  <2> HIDE DEF s
  <2>7. row' \in [Rows -> MistralRow] /\ \A t \in Rows : Keyed(row'[t])
    BY <2>1, <2>3, RowSet
  <2> QED
    BY <2>1, <2>5, <2>6, <2>7, TypesMove, Same, Names
<1> QED
  BY <1>2, <1>3

LEMMA CountedTypes == ASSUME TInv, NEW why \in Failings, Counted(why)
                      PROVE  stops' \in 0..MaxStops /\ why \in {"busy", "retry", "fail"}
BY Same DEF Failings, Counted

LEMMA UploadTypes == ASSUME TInv, NEW r \in Rows, Upload(r) PROVE TInv'
<1> DEFINE s == hand["wave"][r]
           n == s.read.at
           swept(kept) == files \ (s.read.left \ kept)
           up(kept) == [s EXCEPT !.step = "uploaded", !.files = {Pages(n)}, !.left = kept]
           no(kept, landed, why) == [s EXCEPT !.step = "failing", !.files = landed,
                                              !.left = kept, !.why = why]
<1>1. /\ s \in Slot /\ s.read \in MistralRow /\ Keyed(s.read) /\ s.read.left \subseteq Files
      /\ n \in Ids /\ Pages(n) \in Files /\ s.files \subseteq Files
  BY Slots, Names, FileFacts DEF MistralRow, Slot, SlotFits, Upload, At
<1>2. ASSUME NEW kept \in SUBSET s.read.left, NEW landed \in SUBSET Files,
             NEW why \in {"busy", "retry", "fail"}
      PROVE  /\ up(kept) \in Slot /\ SlotFits(up(kept))
             /\ no(kept, landed, why) \in Slot /\ SlotFits(no(kept, landed, why))
  BY <1>1 DEF Slot, Steps, SlotFits, Retrying
<1>3. PICK kept \in Kept(s.read.left) :
        \/ /\ files' = swept(kept) \cup {Pages(n)}
           /\ Becomes("wave", r, up(kept))
           /\ UNCHANGED stops
        \/ \E why \in Failings, landed \in SUBSET {Pages(n)} :
             /\ files' = swept(kept) \cup landed
             /\ Becomes("wave", r, no(kept, landed, why))
             /\ Counted(why)
        \/ /\ files' = swept(kept) \cup {Pages(n)}
           /\ Becomes("wave", r, [s EXCEPT !.step = "failing", !.left = kept, !.why = "retry"])
           /\ UNCHANGED stops
  BY DEF Upload
<1>4. kept \in SUBSET s.read.left
  BY <1>3, FileFacts
<1>5. [s EXCEPT !.step = "failing", !.left = kept, !.why = "retry"] = no(kept, s.files, "retry")
  BY <1>1 DEF Slot
<1>6. UNCHANGED <<row, subs, results, killed>>
  BY DEF Upload
<1>7. ASSUME NEW t \in Slot, SlotFits(t), Becomes("wave", r, t),
             files' \subseteq Files, stops' \in 0..MaxStops
      PROVE  TInv'
  BY <1>6, <1>7, TypesMove, Same, Names
<1>8. \A S : S \subseteq Files => swept(kept) \cup S \subseteq Files
  BY Same
<1> HIDE DEF up, no, swept, s
<1>9. CASE files' = swept(kept) \cup {Pages(n)} /\ Becomes("wave", r, up(kept)) /\ UNCHANGED stops
  BY <1>1, <1>2, <1>4, <1>7, <1>8, <1>9, Same
<1>10. ASSUME NEW why \in Failings, NEW landed \in SUBSET {Pages(n)},
              files' = swept(kept) \cup landed,
              Becomes("wave", r, no(kept, landed, why)), Counted(why)
       PROVE  TInv'
  <2>1. why \in {"busy", "retry", "fail"} /\ stops' \in 0..MaxStops
    BY <1>10, CountedTypes
  <2>2. landed \subseteq Files
    BY <1>1
  <2>3. files' \subseteq Files
    BY <1>8, <1>10, <2>2
  <2> QED
    BY <1>2, <1>4, <1>7, <1>10, <2>1, <2>2, <2>3
<1>11. CASE /\ files' = swept(kept) \cup {Pages(n)} /\ UNCHANGED stops
            /\ Becomes("wave", r, no(kept, s.files, "retry"))
  <2>1. files' \subseteq Files /\ stops' \in 0..MaxStops
    BY <1>1, <1>8, <1>11, Same
  <2> QED
    BY <1>1, <1>2, <1>4, <1>7, <1>11, <2>1
<1> QED
  BY <1>3, <1>5, <1>9, <1>10, <1>11

\* A step of the wave or the sweep that writes its slot alone.
LEMMA SlotTypes ==
  ASSUME TInv, NEW p \in Processes, NEW r \in Rows, NEW s \in Slot, Becomes(p, r, s),
         SlotFits(s), UNCHANGED <<row, subs, files, results, stops, killed>>
  PROVE  TInv'
BY TypesMove, Same

\* The end of one batch, or its start.
LEMMA BatchTypes ==
  ASSUME TInv, NEW n \in Ids, NEW b \in {"none", "running", "success", "failed", "cancelled"}
  PROVE  [subs EXCEPT ![n].batch = b] \in Seq(Submission)
         /\ Len([subs EXCEPT ![n].batch = b]) = Len(subs)
<1>1. subs \in [1..Len(subs) -> Submission] /\ Len(subs) \in Nat
  BY Same
<1>2. \A i \in 1..Len(subs) : [subs[i] EXCEPT !.batch = b] \in Submission
  BY <1>1 DEF Submission
<1>3. [subs EXCEPT ![n].batch = b] \in [1..Len(subs) -> Submission]
  BY <1>1, <1>2
<1> QED
  BY <1>1, <1>3

LEMMA CreateBatchTypes == ASSUME TInv, NEW r \in Rows, CreateBatch(r) PROVE TInv'
<1> DEFINE s == hand["wave"][r]
           minted == [subs EXCEPT ![s.read.at].batch = "running"]
           no(why) == [s EXCEPT !.step = "failing", !.why = why]
<1>1. s \in Slot /\ Keyed(s.read) /\ s.read.at \in Ids
  BY Slots, Names DEF SlotFits, CreateBatch, At
<1>2. minted \in Seq(Submission) /\ Len(minted) = Len(subs)
  BY <1>1, BatchTypes
<1>3. Goes(s, "created") \in Slot /\ SlotFits(Goes(s, "created"))
  BY <1>1, SlotWrites, NotYet DEF Steps
<1>4. \A why \in {"busy", "retry", "fail"} : no(why) \in Slot /\ SlotFits(no(why))
  BY <1>1 DEF Slot, Steps, SlotFits, Retrying
<1>5. /\ UNCHANGED <<row, files, results, killed>>
      /\ \/ /\ subs' = minted
            /\ Becomes("wave", r, Goes(s, "created"))
            /\ UNCHANGED stops
         \/ \E why \in Failings :
              /\ subs' \in {subs, minted}
              /\ Becomes("wave", r, no(why))
              /\ Counted(why)
  BY DEF CreateBatch
<1> HIDE DEF minted, no, s
<1>6. CASE subs' = minted /\ Becomes("wave", r, Goes(s, "created")) /\ UNCHANGED stops
  BY <1>2, <1>3, <1>5, <1>6, TypesMove, Same, Names
<1>7. ASSUME NEW why \in Failings, subs' \in {subs, minted}, Becomes("wave", r, no(why)),
             Counted(why)
      PROVE  TInv'
  <2>1. why \in {"busy", "retry", "fail"} /\ stops' \in 0..MaxStops
    BY <1>7, CountedTypes
  <2>2. subs' \in Seq(Submission) /\ Len(subs') <= MaxPosts
    BY <1>2, <1>7, Same
  <2> QED
    BY <1>4, <1>5, <1>7, <2>1, <2>2, TypesMove, Same, Names
<1> QED
  BY <1>5, <1>6, <1>7

LEMMA LetGoTypes == ASSUME TInv, NEW r \in Rows, LetGo(r) PROVE TInv'
<1> DEFINE s == hand["wave"][r]
           t(kept) == [s EXCEPT !.step = "carry", !.left = @ \cup kept]
<1>1. s \in Slot /\ Keyed(s.read) /\ s.files \subseteq Files
  BY Slots, Names DEF Slot
<1>2. PICK kept \in Kept(s.files) : /\ files' = files \ (s.files \ kept)
                                    /\ Becomes("wave", r, t(kept))
  BY DEF LetGo
<1>3. kept \subseteq Files
  BY <1>1, <1>2, FileFacts
<1>4. t(kept) \in Slot /\ SlotFits(t(kept))
  BY <1>1, <1>3 DEF Slot, Steps, SlotFits, Retrying
<1> HIDE DEF t
<1> QED
  BY <1>2, <1>4, TypesMove, Same, Names DEF LetGo

LEMMA CarryLeftTypes == ASSUME TInv, NEW r \in Rows, CarryLeft(r) PROVE TInv'
<1> DEFINE s  == hand["wave"][r]
           tried == s.read.left \cup s.files
           read == IF s.left = {} THEN s.read ELSE AfterCarry(r, s.read, tried, s.left)
           s2 == [s EXCEPT !.read = read]
           t  == IF s.why = "busy" THEN Goes(s2, "handback") ELSE ToVerdict(s2, s.why)
<1>1. /\ s \in Slot /\ s.read \in MistralRow /\ Keyed(s.read)
      /\ tried \in SUBSET Files /\ s.left \in SUBSET Files
  BY Slots, Names DEF Slot, MistralRow
<1>2. /\ read \in MistralRow /\ Keyed(read)
      /\ row' \in [Rows -> MistralRow] /\ \A q \in Rows : Keyed(row'[q])
  <2>1. CASE s.left = {}
    BY <1>1, <2>1, Same DEF CarryLeft
  <2>2. CASE s.left # {}
    BY <1>1, <2>2, CarrySet DEF CarryLeft
  <2> QED
    BY <2>1, <2>2
<1>3. s2 = IF s.left = {} THEN s ELSE [s EXCEPT !.read = AfterCarry(r, s.read, tried, s.left)]
  BY <1>1 DEF Slot
<1>4. Becomes("wave", r, t)
  BY <1>3 DEF CarryLeft
<1> HIDE DEF read
<1>5. s2 \in Slot /\ s2.read = read
  BY <1>1, <1>2 DEF Slot
<1> HIDE DEF s2
<1>6. t \in Slot /\ SlotFits(t)
  <2>1. Goes(s2, "handback") \in Slot /\ SlotFits(Goes(s2, "handback"))
    BY <1>2, <1>5, SlotWrites, NotYet DEF Steps
  <2>2. SlotFits(ToVerdict(s2, s.why))
    BY <1>2, <1>5, NotYet
  <2>3. ToVerdict(s2, s.why) \in Slot
    BY <1>1, <1>5 DEF ToVerdict, Slot, Steps
  <2> QED
    BY <2>1, <2>2, <2>3
<1> HIDE DEF t
<1> QED
  BY <1>2, <1>4, <1>6, TypesMove, Same, Names DEF CarryLeft

LEMMA HandBackTypes == ASSUME TInv, NEW r \in Rows, HandBack(r) PROVE TInv'
<1>1. row[r] \in MistralRow
  BY Slots, Names
<1>2. HandedBack(row[r]) \in MistralRow /\ Keyed(HandedBack(row[r]))
  <2>1. HandedBack(row[r]).status = "pending"
    BY <1>1 DEF HandedBack, Deferred, MistralRow
  <2> QED
    BY <1>1, <2>1, RowWrites, StatusFacts DEF Keyed
<1>3. row' \in [Rows -> MistralRow] /\ \A q \in Rows : Keyed(row'[q])
  BY <1>2, SwapSet DEF HandBack
<1> QED
  BY <1>3, TypesMove, Same, Names, IdleFacts DEF HandBack, Drops

LEMMA RecordIdTypes == ASSUME TInv, NEW r \in Rows, RecordId(r) PROVE TInv'
<1> DEFINE s == hand["wave"][r]
           n == s.read.at
           new == [row[r] EXCEPT !.ext = n, !.files = s.files, !.left = s.left]
           t == [s EXCEPT !.step = "cancel", !.why = "end", !.ext = n, !.files = @ \cup s.left]
<1>1. /\ s \in Slot /\ s.read \in MistralRow /\ Keyed(s.read) /\ n \in {0} \cup Ids
      /\ s.files \subseteq Files /\ s.left \subseteq Files /\ row[r] \in MistralRow /\ Keyed(row[r])
  BY Slots, Names DEF Slot, MistralRow
<1>2. CASE row' = [row EXCEPT ![r] = new] /\ Drops("wave", r)
  <2>1. new \in MistralRow /\ Keyed(new)
    BY <1>1 DEF MistralRow, NoId, Keyed
  <2>2. row' \in [Rows -> MistralRow] /\ \A q \in Rows : Keyed(row'[q])
    BY <1>2, <2>1, RowSet
  <2> QED
    BY <1>2, <2>2, TypesMove, Same, Names, IdleFacts DEF RecordId, Drops
<1>3. CASE UNCHANGED row /\ Becomes("wave", r, t)
  <2>1. t \in Slot /\ SlotFits(t)
    BY <1>1 DEF Slot, Steps, SlotFits, Retrying, NoId
  <2> HIDE DEF t
  <2> QED
    BY <1>3, <2>1, SlotTypes, Names DEF RecordId
<1> QED
  BY <1>2, <1>3 DEF RecordId

-----------------------------------------------------------------------------
LEMMA VerdictTypes ==
  ASSUME TInv, NEW p \in Processes, NEW r \in Rows, Verdict(p, r) PROVE TInv'
<1> DEFINE s == hand[p][r]
<1>1. s \in Slot /\ Keyed(s.read) /\ row[r] \in MistralRow
  BY Slots
<1>2. CASE ~(s.why = "fail" \/ OutOfAttempts(s.read)) /\ Becomes(p, r, ToCancel(s, "retry"))
           /\ UNCHANGED row
  BY <1>1, <1>2, SlotWrites, NotYet, SlotTypes DEF Verdict
<1>3. CASE /\ Swap(r, s.read, WithStatus(row[r], "failed"))
           /\ Becomes(p, r, IF Matches(row[r], s.read) THEN ToCancel(s, "end") ELSE Idle)
  <2>1. WithStatus(row[r], "failed") \in MistralRow /\ Keyed(WithStatus(row[r], "failed"))
    <3>1. WithStatus(row[r], "failed").status = "failed"
      BY <1>1 DEF WithStatus, MistralRow
    <3> QED
      BY <1>1, <3>1, RowWrites, StatusFacts DEF Keyed
  <2>2. row' \in [Rows -> MistralRow] /\ \A q \in Rows : Keyed(row'[q])
    BY <1>3, <2>1, SwapSet
  <2>3. ToCancel(s, "end") \in Slot /\ SlotFits(ToCancel(s, "end"))
    BY <1>1, SlotWrites, NotYet
  <2>4. CASE Matches(row[r], s.read)
    BY <1>3, <2>2, <2>3, <2>4, TypesMove, Same DEF Verdict
  <2>5. CASE ~Matches(row[r], s.read)
    BY <1>3, <2>2, <2>5, TypesMove, Same, IdleFacts DEF Verdict
  <2> QED
    BY <2>4, <2>5
<1> QED
  BY <1>2, <1>3 DEF Verdict

LEMMA CancelTypes ==
  ASSUME TInv, NEW p \in Processes, NEW r \in Rows, Cancel(p, r) PROVE TInv'
<1> DEFINE s == hand[p][r]
           named == NamedForDeletion(row[r], s.files)
           t == [s EXCEPT !.step = "delete", !.read = Refreshed(@, named)]
<1>1. /\ s \in Slot /\ s.read \in MistralRow /\ Keyed(s.read) /\ row[r] \in MistralRow
      /\ Keyed(row[r]) /\ s.files \in SUBSET Files /\ s.ext \in Ids \cup {NoId}
      /\ s.step = "cancel" /\ SlotFits(s)
  BY Slots DEF Slot, Cancel, At
<1>2. subs' \in Seq(Submission) /\ Len(subs') <= MaxPosts
  <2>1. CASE subs' = subs
    BY <2>1, Same
  <2>2. CASE s.ext \in Ids /\ subs' = [subs EXCEPT ![s.ext].batch = "cancelled"]
    BY <2>2, BatchTypes, Same
  <2> QED
    BY <1>1, <2>1, <2>2 DEF Cancel, NoId
<1>3. CASE UNCHANGED row /\ Becomes(p, r, Goes(s, "delete"))
  <2>1. Goes(s, "delete") \in Slot /\ SlotFits(Goes(s, "delete"))
    <3>1. /\ Goes(s, "delete").read = s.read /\ Goes(s, "delete").why = s.why
          /\ Goes(s, "delete").step = "delete"
      BY <1>1 DEF Goes, Slot
    <3>2. SlotFits(Goes(s, "delete"))
      BY <1>1, <3>1 DEF SlotFits, Retrying
    <3> QED
      BY <1>1, <3>2, SlotWrites DEF Steps
  <2> QED
    BY <1>2, <1>3, <2>1, TypesMove, Same DEF Cancel
<1>4. CASE row' = [row EXCEPT ![r] = named] /\ Becomes(p, r, t)
  <2>1. named \in MistralRow
    BY <1>1, RowWrites
  <2>2. Refreshed(s.read, named) \in MistralRow
    BY <1>1, <2>1, RowWrites
  <2>3. Keyed(named)
    BY <1>1 DEF Keyed, NamedForDeletion, MistralRow
  <2>4. /\ Keyed(Refreshed(s.read, named))
        /\ Refreshed(s.read, named).attempt = s.read.attempt
    BY <1>1 DEF Keyed, Refreshed, MistralRow
  <2> HIDE DEF named
  <2>5. t \in Slot /\ SlotFits(t)
    BY <1>1, <2>2, <2>4 DEF Slot, Steps, SlotFits, Retrying, OutOfAttempts
  <2> HIDE DEF t
  <2>6. row' \in [Rows -> MistralRow] /\ \A q \in Rows : Keyed(row'[q])
    BY <1>4, <2>1, <2>3, RowSet
  <2> QED
    BY <1>2, <1>4, <2>5, <2>6, TypesMove, Same DEF Cancel
<1> QED
  BY <1>3, <1>4 DEF Cancel

LEMMA DeleteTypes ==
  ASSUME TInv, NEW p \in Processes, NEW r \in Rows, Delete(p, r) PROVE TInv'
<1> DEFINE s == hand[p][r]
           read(kept) == AfterCarry(r, s.read, s.files, kept)
           done(kept) == [s EXCEPT !.read = read(kept)]
           t(kept) == CASE s.why = "retry" -> Goes(done(kept), "rewrite")
                        [] s.why = "late"  -> ToVerdict(done(kept), "retry")
                        [] OTHER           -> Idle
<1>1. /\ s \in Slot /\ s.read \in MistralRow /\ Keyed(s.read)
      /\ s.files \in SUBSET Files /\ s.step = "delete" /\ SlotFits(s)
  BY Slots DEF Slot, Delete, At
<1>2. PICK kept \in Kept(s.files) : /\ files' = files \ (s.files \ kept)
                                    /\ Carry(r, s.read, s.files, kept)
                                    /\ Becomes(p, r, t(kept))
  BY DEF Delete
<1>3. kept \in SUBSET Files
  BY <1>1, <1>2, FileFacts
<1>4. /\ row' \in [Rows -> MistralRow] /\ \A q \in Rows : Keyed(row'[q])
      /\ read(kept) \in MistralRow /\ Keyed(read(kept))
      /\ read(kept).attempt = s.read.attempt
  BY <1>1, <1>2, <1>3, CarrySet
<1> HIDE DEF read
<1>5. done(kept) \in Slot /\ done(kept).read = read(kept) /\ done(kept).why = s.why
  BY <1>1, <1>4 DEF Slot
<1>6. t(kept) \in Slot /\ SlotFits(t(kept))
  <2> HIDE DEF done
  <2>1. CASE s.why = "retry"
    <3>1. Goes(done(kept), "rewrite") \in Slot
      BY <1>5, SlotWrites DEF Steps
    <3>2. ~OutOfAttempts(read(kept))
      BY <1>1, <1>4, <2>1 DEF SlotFits, Retrying, OutOfAttempts
    <3>3. SlotFits(Goes(done(kept), "rewrite"))
      BY <1>4, <1>5, <3>2 DEF SlotFits, Goes, Slot, Retrying
    <3> QED
      BY <2>1, <3>1, <3>3
  <2>2. CASE s.why = "late"
    <3>1. ToVerdict(done(kept), "retry") \in Slot /\ SlotFits(ToVerdict(done(kept), "retry"))
      BY <1>4, <1>5, SlotWrites, NotYet
    <3> QED
      BY <2>2, <3>1
  <2>3. CASE s.why # "retry" /\ s.why # "late"
    BY <2>3, IdleFacts
  <2> QED
    BY <2>1, <2>2, <2>3
<1> HIDE DEF t
<1> QED
  BY <1>2, <1>4, <1>6, TypesMove, Same DEF Delete

LEMMA RewriteTypes ==
  ASSUME TInv, NEW p \in Processes, NEW r \in Rows, Rewrite(p, r) PROVE TInv'
<1> DEFINE read == hand[p][r].read
           new  == NextAttempt(row[r], read)
<1>1. /\ read \in MistralRow /\ row[r] \in MistralRow /\ Keyed(row[r])
      /\ Swap(r, read, new) /\ hand[p][r].step = "rewrite" /\ SlotFits(hand[p][r])
  BY Slots DEF Rewrite, At
<1>2. new \in MistralRow
  <2>1. ~OutOfAttempts(read)
    BY <1>1 DEF SlotFits, Retrying
  <2> QED
    BY <1>1, <2>1, RowWrites
<1>3. new.status = "pending"
  BY <1>1 DEF NextAttempt, Retried, MistralRow
<1>4. row' \in [Rows -> MistralRow] /\ \A q \in Rows : Keyed(row'[q])
  BY <1>1, <1>2, <1>3, SwapSet, StatusFacts DEF Keyed
<1> QED
  BY <1>4, TypesMove, Same, IdleFacts DEF Rewrite, Drops

-----------------------------------------------------------------------------
LEMMA SweepReadTypes == ASSUME TInv, SweepRead PROVE TInv'
<1> DEFINE s(r) == IF r \in InFlightRows THEN [Idle EXCEPT !.step = "swept", !.read = row[r]]
                                         ELSE Idle
<1>1. /\ hand \in [Processes -> [Rows -> Slot]]
      /\ hand' = [hand EXCEPT !["sweep"] = [r \in Rows |-> s(r)]]
      /\ UNCHANGED <<row, subs, files, results, stops, killed>>
  BY DEF SweepRead, TInv, TypeOK
<1>2. ASSUME NEW r \in Rows PROVE s(r) \in Slot /\ SlotFits(s(r))
  <2>1. row[r] \in MistralRow /\ Keyed(row[r])
    BY Slots, Names
  <2>2. CASE r \notin InFlightRows
    BY <2>2, IdleFacts
  <2>3. CASE r \in InFlightRows
    <3>1. row[r].status \in InFlight /\ s(r) = [Idle EXCEPT !.step = "swept", !.read = row[r]]
      BY <2>3 DEF InFlightRows
    <3> HIDE DEF s
    <3> QED
      BY <2>1, <3>1, IdleFacts DEF Slot, Steps, SlotFits, Retrying
  <2> QED
    BY <2>2, <2>3
<1> HIDE DEF s
<1>3. /\ hand' \in [Processes -> [Rows -> Slot]]
      /\ \A r \in Rows : hand'["sweep"][r] = s(r)
      /\ \A q \in Processes \ {"sweep"} : hand'[q] = hand[q]
  BY <1>1, <1>2, Names
<1>4. TypeOK'
  BY <1>1, <1>3, Same DEF TypeOK
<1>5. \A q \in Processes, r \in Rows : SlotFits(hand'[q][r])
  BY <1>2, <1>3, Slots
<1> QED
  BY <1>1, <1>4, <1>5, Same DEF TInv, SlotFits, Keyed, Retrying

LEMMA LookTypes ==
  ASSUME TInv, NEW r \in Rows, LookClaim(r) \/ LookAgain(r) PROVE TInv'
<1> DEFINE s == hand["sweep"][r]
<1>1. s \in Slot /\ Keyed(s.read)
  BY Slots, Names
<1>2. \A step \in {"lost", "discard"} : Goes(s, step) \in Slot /\ SlotFits(Goes(s, step))
  BY <1>1, SlotWrites, NotYet DEF Steps
<1>3. CASE LookClaim(r)
  BY <1>2, <1>3, SlotTypes, IdleFacts, Names DEF LookClaim, Drops
<1>4. CASE LookAgain(r)
  <2>1. PICK t \in {Goes(s, "discard"), Idle} : Becomes("sweep", r, t)
    BY <1>4 DEF LookAgain
  <2> QED
    BY <1>2, <1>4, <2>1, SlotTypes, IdleFacts, Names DEF LookAgain
<1> QED
  BY <1>3, <1>4

LEMMA DiscardTypes == ASSUME TInv, NEW r \in Rows, Discard(r) PROVE TInv'
<1> DEFINE s == hand["sweep"][r]
           tried == Found(r, s.read) \cup s.read.left
           read(kept) == AfterCarry(r, s.read, tried, kept)
           t(kept) == ToVerdict([s EXCEPT !.read = read(kept)], "retry")
<1>1. s \in Slot /\ s.read \in MistralRow /\ Keyed(s.read)
  BY Slots, Names
<1>2. tried \in SUBSET Files
  BY <1>1, Same DEF Found, MistralRow
<1> HIDE DEF tried
<1>3. CASE Drops("sweep", r) /\ UNCHANGED <<row, files>>
  BY <1>3, SlotTypes, IdleFacts, Names DEF Discard, Drops
<1>4. ASSUME NEW kept \in Kept(tried), files' = files \ (tried \ kept),
             Carry(r, s.read, tried, kept), Becomes("sweep", r, t(kept))
      PROVE  TInv'
  <2>1. kept \in SUBSET Files
    BY <1>2, FileFacts
  <2>2. /\ row' \in [Rows -> MistralRow] /\ \A q \in Rows : Keyed(row'[q])
        /\ read(kept) \in MistralRow /\ Keyed(read(kept))
    BY <1>1, <1>2, <1>4, <2>1, CarrySet
  <2> HIDE DEF read
  <2>3. /\ [s EXCEPT !.read = read(kept)] \in Slot
        /\ [s EXCEPT !.read = read(kept)].read = read(kept)
    BY <1>1, <2>2 DEF Slot
  <2>4. t(kept) \in Slot /\ SlotFits(t(kept))
    BY <2>2, <2>3, SlotWrites, NotYet
  <2> HIDE DEF t
  <2> QED
    BY <1>4, <2>2, <2>4, TypesMove, Same, Names DEF Discard
<1> QED
  BY <1>3, <1>4 DEF Discard, tried

LEMMA NameOutputsTypes ==
  ASSUME TInv, NEW r \in Rows, NEW why \in {"retry", "fail"},
         NameOutputs(r, hand["sweep"][r], why), UNCHANGED <<subs, files, results, stops, killed>>
  PROVE  TInv'
<1> DEFINE s == hand["sweep"][r]
           named == Naming(row[r], Outputs(s.read))
           t == ToVerdict([s EXCEPT !.read = Refreshed(@, named)], why)
<1>1. /\ s \in Slot /\ s.read \in MistralRow /\ Keyed(s.read) /\ row[r] \in MistralRow
      /\ Keyed(row[r]) /\ Outputs(s.read) \in SUBSET Files
  BY Slots, Names, Same DEF Outputs
<1>2. CASE UNCHANGED row /\ Becomes("sweep", r, ToVerdict(s, why))
  BY <1>1, <1>2, SlotTypes, SlotWrites, NotYet, Names
<1>3. CASE row' = [row EXCEPT ![r] = named] /\ Becomes("sweep", r, t)
  <2>1. named \in MistralRow /\ Keyed(named)
    <3>1. named \in MistralRow
      BY <1>1, RowWrites
    <3> QED
      BY <1>1, <3>1 DEF Keyed, Naming, MistralRow
  <2>2. Refreshed(s.read, named) \in MistralRow /\ Keyed(Refreshed(s.read, named))
    <3>1. Refreshed(s.read, named) \in MistralRow
      BY <1>1, <2>1, RowWrites
    <3> QED
      BY <1>1, <3>1 DEF Keyed, Refreshed, MistralRow
  <2> HIDE DEF named
  <2>3. [s EXCEPT !.read = Refreshed(@, named)] \in Slot
        /\ [s EXCEPT !.read = Refreshed(@, named)].read = Refreshed(s.read, named)
    BY <1>1, <2>2 DEF Slot
  <2>4. t \in Slot /\ SlotFits(t)
    BY <2>2, <2>3, SlotWrites, NotYet
  <2> HIDE DEF t
  <2>5. row' \in [Rows -> MistralRow] /\ \A q \in Rows : Keyed(row'[q])
    BY <1>3, <2>1, RowSet
  <2> QED
    BY <1>3, <2>4, <2>5, TypesMove, Same, Names
<1> QED
  BY <1>2, <1>3 DEF NameOutputs

LEMMA PollTypes == ASSUME TInv, NEW r \in Rows, Poll(r) PROVE TInv'
<1> DEFINE s == hand["sweep"][r]
           fresh == WithStatus(s.read, "in_progress")
           mine == [s EXCEPT !.read = fresh]
           new == Refreshed(WithStatus(row[r], "in_progress"), s.read)
<1>1. /\ s \in Slot /\ s.read \in MistralRow /\ Keyed(s.read) /\ row[r] \in MistralRow
      /\ Keyed(row[r]) /\ s.step = "swept" /\ SlotFits(s)
  BY Slots, Names DEF Poll, Turn, At
<1>2. s.read.status \in InFlight /\ s.read.key \in Attempts
  BY <1>1 DEF SlotFits, Keyed
<1>3. UNCHANGED <<subs, files, results, stops, killed>>
  BY DEF Poll
<1>4. CASE Becomes("sweep", r, Ends(s, "retry")) /\ UNCHANGED row
  BY <1>1, <1>3, <1>4, SlotTypes, SlotWrites, NotYet, Names
<1>5. CASE Becomes("sweep", r, Goes(s, "harvest")) /\ UNCHANGED row
  <2>1. /\ Goes(s, "harvest").read = s.read /\ Goes(s, "harvest").step = "harvest"
    BY <1>1 DEF Goes, Slot
  <2>2. Goes(s, "harvest") \in Slot /\ SlotFits(Goes(s, "harvest"))
    BY <1>1, <1>2, <2>1, SlotWrites DEF Steps, SlotFits, Retrying
  <2> QED
    BY <1>3, <1>5, <2>2, SlotTypes, Names
<1>6. CASE NameOutputs(r, s, "retry") \/ NameOutputs(r, s, "fail")
  BY <1>3, <1>6, NameOutputsTypes
<1>7. CASE /\ Swap(r, s.read, new)
           /\ Becomes("sweep", r, IF Matches(row[r], s.read) THEN Ends(mine, "retry") ELSE Idle)
  <2>1. /\ WithStatus(row[r], "in_progress") \in MistralRow /\ fresh \in MistralRow
    BY <1>1, RowWrites, StatusFacts
  <2>2. new \in MistralRow
    BY <1>1, <2>1, RowWrites
  <2>3. fresh.key = s.read.key /\ new.key = row[r].key
    BY <1>1 DEF WithStatus, Refreshed, MistralRow
  <2>4. Matches(row[r], s.read) => Keyed(new)
    BY <1>1, <1>2, <2>3 DEF Matches, Keyed
  <2>5. row' \in [Rows -> MistralRow] /\ \A q \in Rows : Keyed(row'[q])
    BY <1>1, <1>7, <2>2, <2>4, SwapSet
  <2>6. mine \in Slot /\ Keyed(mine.read)
    BY <1>1, <1>2, <2>1, <2>3 DEF Slot, Keyed
  <2>7. Ends(mine, "retry") \in Slot /\ SlotFits(Ends(mine, "retry"))
    BY <2>6, SlotWrites, NotYet
  <2>8. PICK t \in {Ends(mine, "retry"), Idle} : Becomes("sweep", r, t)
    BY <1>7
  <2> QED
    BY <1>3, <2>5, <2>7, <2>8, TypesMove, Same, Names, IdleFacts
<1> QED
  BY <1>4, <1>5, <1>6, <1>7 DEF Poll

LEMMA HarvestTypes == ASSUME TInv, NEW r \in Rows, Harvest(r) PROVE TInv'
<1> DEFINE s == hand["sweep"][r]
<1>1. /\ s \in Slot /\ s.read \in MistralRow /\ Keyed(s.read)
      /\ s.step = "harvest" /\ SlotFits(s)
  BY Slots, Names DEF Harvest, At
<1>2. s.read.status \in InFlight /\ s.read.key \in Attempts
  BY <1>1 DEF SlotFits, Keyed
<1>3. UNCHANGED <<subs, files, stops, killed>>
  BY DEF Harvest
<1>4. CASE /\ results' = results \cup {<<r, s.read.key>>}
           /\ Becomes("sweep", r, Goes(s, "stored")) /\ UNCHANGED row
  <2>1. results' \subseteq Rows \X Attempts
    BY <1>2, <1>4, Same
  <2>2. Goes(s, "stored") \in Slot /\ SlotFits(Goes(s, "stored"))
    BY <1>1, SlotWrites, NotYet DEF Steps
  <2> QED
    BY <1>3, <1>4, <2>1, <2>2, TypesMove, Same, Names
<1>5. CASE Becomes("sweep", r, Ends(s, "retry")) /\ UNCHANGED <<row, results>>
  BY <1>1, <1>3, <1>5, SlotTypes, SlotWrites, NotYet, Names
<1>6. CASE NameOutputs(r, s, "retry") /\ UNCHANGED results
  BY <1>3, <1>6, NameOutputsTypes
<1> QED
  BY <1>4, <1>5, <1>6 DEF Harvest

LEMMA CompleteTypes == ASSUME TInv, NEW r \in Rows, Complete(r) PROVE TInv'
<1> DEFINE s == hand["sweep"][r]
           all == s.read.files \cup s.read.left \cup Outputs(s.read)
           new == [row[r] EXCEPT !.status = "completed", !.files = {}, !.left = all]
           read(status) == [s.read EXCEPT !.files = {}, !.left = all, !.status = status]
           t(F, why, status) == [s EXCEPT !.step = "delete", !.read = read(status),
                                          !.files = F, !.why = why]
<1>1. /\ s \in Slot /\ s.read \in MistralRow /\ Keyed(s.read) /\ row[r] \in MistralRow
      /\ all \subseteq Files /\ Outputs(s.read) \subseteq Files
  BY Slots, Names, Same DEF Outputs, MistralRow
<1> HIDE DEF all
<1>2. ASSUME NEW F \in SUBSET Files, NEW why \in {"end", "late"},
             NEW status \in {"completed", s.read.status}
      PROVE  t(F, why, status) \in Slot /\ SlotFits(t(F, why, status))
  <2>1. read(status) \in MistralRow /\ Keyed(read(status))
    BY <1>1, StatusFacts DEF MistralRow, Keyed
  <2> HIDE DEF read
  <2> QED
    BY <1>1, <2>1 DEF Slot, Steps, SlotFits, Retrying
<1>3. UNCHANGED <<subs, files, results, stops, killed>>
  BY DEF Complete
<1>4. CASE Matches(row[r], s.read)
  <2>1. row' = [row EXCEPT ![r] = new] /\ Becomes("sweep", r, t(all, "end", "completed"))
    <3>1. t(all, "end", "completed") =
            [[s EXCEPT !.step = "delete", !.read.files = {}, !.read.left = all]
               EXCEPT !.files = all, !.why = "end", !.read.status = "completed"]
      BY <1>1 DEF Slot, MistralRow
    <3> QED
      BY <1>4, <3>1 DEF Complete, all
  <2>2. new \in MistralRow /\ Keyed(new)
    BY <1>1, StatusFacts DEF MistralRow, Keyed
  <2> HIDE DEF new, t
  <2>3. row' \in [Rows -> MistralRow] /\ \A q \in Rows : Keyed(row'[q])
    BY <2>1, <2>2, RowSet
  <2> QED
    BY <1>1, <1>2, <1>3, <2>1, <2>3, TypesMove, Same, Names
<1>5. CASE ~Matches(row[r], s.read)
  <2>1. PICK why \in {"end", "late"} :
          Becomes("sweep", r, t(Outputs(s.read), why, s.read.status)) /\ UNCHANGED row
    <3>1. \A why : t(Outputs(s.read), why, s.read.status) =
            [[s EXCEPT !.step = "delete", !.read.files = {}, !.read.left = all]
               EXCEPT !.files = Outputs(s.read), !.why = why]
      BY <1>1 DEF Slot, MistralRow
    <3> QED
      BY <1>5, <3>1 DEF Complete, all
  <2> HIDE DEF t
  <2> QED
    BY <1>1, <1>2, <1>3, <2>1, SlotTypes, Names
<1> QED
  BY <1>4, <1>5

LEMMA TailTypes ==
  ASSUME TInv, NEW r \in Rows, StrandedRead(r) \/ LeftoverRead(r) PROVE TInv'
<1> DEFINE held == [Idle EXCEPT !.read = row[r]]
           left == [Idle EXCEPT !.step = "delete", !.read = row[r],
                                !.files = row[r].left, !.why = "end"]
<1>1. row[r] \in MistralRow /\ Keyed(row[r])
  BY Slots, Names
<1>2. held \in Slot /\ held.read = row[r]
  BY <1>1, IdleFacts DEF Slot
<1>3. left \in Slot /\ SlotFits(left)
  BY <1>1, IdleFacts DEF Slot, Steps, MistralRow, SlotFits, Retrying
<1> HIDE DEF held, left
<1>4. ToVerdict(held, "fail") \in Slot /\ SlotFits(ToVerdict(held, "fail"))
  BY <1>1, <1>2, SlotWrites, NotYet
<1>5. PICK s \in {ToVerdict(held, "fail"), left} : SweepIs(r, s)
  BY DEF StrandedRead, LeftoverRead, held, left
<1> QED
  BY <1>3, <1>4, <1>5, SlotTypes, Names DEF SweepIs

\* What an abandon makes of the rows and of the web process's hand.
LEMMA AbandonIs ==
  ASSUME TInv, Abandon
  PROVE  \E doomed \in SUBSET Rows :
           /\ \A r \in doomed : row[r].status \in Open
           /\ \A r \in Rows : row'[r] = IF r \in doomed
                                        THEN WithStatus(row[r], "cancelled") ELSE row[r]
           /\ row' = [r \in Rows |-> row'[r]]
           /\ hand' = [hand EXCEPT !["web"] = [r \in Rows |->
                         IF r \in doomed \cap InFlightRows THEN Goes(Idle, "handles") ELSE Idle]]
           /\ Free("web")
           /\ UNCHANGED <<subs, files, results, stops, killed>>
<1>1. PICK statuses \in {Open, Open \ {"completed"}} :
        LET doomed == {r \in Rows : row[r].status \in statuses} IN
        /\ row' = [r \in Rows |-> IF r \in doomed
                                  THEN WithStatus(row[r], "cancelled") ELSE row[r]]
        /\ hand' = [hand EXCEPT !["web"] = [r \in Rows |->
                      IF r \in doomed \cap InFlightRows THEN Goes(Idle, "handles") ELSE Idle]]
  BY DEF Abandon
<1> DEFINE doomed == {r \in Rows : row[r].status \in statuses}
<1> WITNESS doomed \in SUBSET Rows
<1> QED
  BY <1>1 DEF Abandon

LEMMA WebIdle ==
  Goes(Idle, "handles") \in Slot /\ SlotFits(Goes(Idle, "handles"))
BY IdleFacts, SlotWrites, NotYet DEF Steps, SlotFits

LEMMA AbandonTypes == ASSUME TInv, Abandon PROVE TInv'
<1>1. PICK doomed \in SUBSET Rows :
        /\ \A r \in Rows : row'[r] = IF r \in doomed
                                     THEN WithStatus(row[r], "cancelled") ELSE row[r]
        /\ row' = [r \in Rows |-> row'[r]]
        /\ hand' = [hand EXCEPT !["web"] = [r \in Rows |->
                      IF r \in doomed \cap InFlightRows THEN Goes(Idle, "handles") ELSE Idle]]
        /\ UNCHANGED <<subs, files, results, stops, killed>>
  BY AbandonIs
<1>2. ASSUME NEW r \in Rows PROVE row'[r] \in MistralRow /\ Keyed(row'[r])
  <2>1. row[r] \in MistralRow /\ Keyed(row[r])
    BY Slots, Names
  <2>2. WithStatus(row[r], "cancelled") \in MistralRow
        /\ WithStatus(row[r], "cancelled").status = "cancelled"
    BY <2>1, RowWrites, StatusFacts DEF WithStatus, MistralRow
  <2>3. Keyed(WithStatus(row[r], "cancelled"))
    BY <2>2, StatusFacts DEF Keyed
  <2> QED
    BY <1>1, <2>1, <2>2, <2>3
<1> DEFINE s(r) == IF r \in doomed \cap InFlightRows THEN Goes(Idle, "handles") ELSE Idle
<1>3. \A r \in Rows : s(r) \in Slot /\ SlotFits(s(r))
  BY WebIdle, IdleFacts
<1>4. hand' = [hand EXCEPT !["web"] = [r \in Rows |-> s(r)]]
  BY <1>1
<1> HIDE DEF s
<1>5. /\ hand' \in [Processes -> [Rows -> Slot]]
      /\ \A r \in Rows : hand'["web"][r] = s(r)
      /\ \A q \in Processes \ {"web"} : hand'[q] = hand[q]
  BY <1>3, <1>4, Names DEF TInv, TypeOK
<1>6. row' \in [Rows -> MistralRow]
  BY <1>1, <1>2
<1>7. TypeOK'
  BY <1>1, <1>5, <1>6, Same DEF TypeOK
<1>8. \A q \in Processes, r \in Rows : SlotFits(hand'[q][r])
  BY <1>3, <1>5, Slots
<1> QED
  BY <1>2, <1>7, <1>8 DEF TInv, SlotFits, Keyed, Retrying

LEMMA AbandonHandlesTypes == ASSUME TInv, NEW r \in Rows, AbandonHandles(r) PROVE TInv'
<1> DEFINE s == [hand["web"][r] EXCEPT !.read = row[r]]
<1>1. s \in Slot /\ Keyed(s.read)
  BY Slots, Names DEF Slot
<1> QED
  BY <1>1, SlotWrites, NotYet, SlotTypes, Names DEF AbandonHandles

LEMMA RowMoves ==
  ASSUME TInv, NEW r \in Rows, NEW new \in MistralRow, Keyed(new),
         row' = [row EXCEPT ![r] = new], UNCHANGED <<hand, subs, files, results, stops, killed>>
  PROVE  TInv'
<1>1. row' \in [Rows -> MistralRow] /\ \A q \in Rows : Keyed(row'[q])
  BY RowSet
<1>2. TypeOK'
  BY <1>1 DEF TInv, TypeOK
<1> QED
  BY <1>1, <1>2 DEF TInv, SlotFits, Keyed, Retrying

LEMMA ConsumeTypes == ASSUME TInv, NEW r \in Rows, Consume(r) PROVE TInv'
<1>1. row[r] \in MistralRow
  BY Slots, Names
<1>2. WithStatus(row[r], "consumed") \in MistralRow
      /\ WithStatus(row[r], "consumed").status = "consumed"
  BY <1>1, RowWrites, StatusFacts DEF WithStatus, MistralRow
<1>3. row' = [row EXCEPT ![r] = WithStatus(row[r], "consumed")]
      /\ UNCHANGED <<hand, subs, files, results, stops, killed>>
  BY DEF Consume
<1>4. Keyed(WithStatus(row[r], "consumed"))
  BY <1>2, StatusFacts DEF Keyed
<1> QED
  BY <1>2, <1>3, <1>4, RowMoves

LEMMA DeadlineTypes == ASSUME TInv, NEW r \in Rows, DeadlinePasses(r) PROVE TInv'
<1> DEFINE new == [row[r] EXCEPT !.deadline = "passed"]
<1>1. row[r] \in MistralRow /\ Keyed(row[r])
  BY Slots, Names
<1>2. new \in MistralRow /\ Keyed(new)
  BY <1>1 DEF MistralRow, Keyed
<1>3. row' = [row EXCEPT ![r] = new] /\ UNCHANGED <<hand, subs, files, results, stops, killed>>
  BY DEF DeadlinePasses
<1> HIDE DEF new
<1> QED
  BY <1>2, <1>3, RowMoves

LEMMA BatchEndsTypes == ASSUME TInv, NEW n \in Ids, BatchEnds(n) PROVE TInv'
<1>1. PICK end \in {"success", "failed"} : subs' = [subs EXCEPT ![n].batch = end]
  BY DEF BatchEnds
<1>2. subs' \in Seq(Submission) /\ Len(subs') <= MaxPosts
  BY <1>1, BatchTypes, Same
<1>3. files' \subseteq Files
  BY Same, FileFacts DEF BatchEnds
<1>4. UNCHANGED <<row, hand, results, stops, killed>>
  BY DEF BatchEnds
<1>5. TypeOK'
  BY <1>2, <1>3, <1>4 DEF TInv, TypeOK
<1> QED
  BY <1>4, <1>5 DEF TInv, SlotFits, Keyed, Retrying

LEMMA CrashTypes == ASSUME TInv, NEW p \in Processes, Crash(p) PROVE TInv'
<1>1. /\ hand \in [Processes -> [Rows -> Slot]]
      /\ hand' = [hand EXCEPT ![p] = [r \in Rows |-> Idle]]
      /\ stops' = stops + 1 /\ stops < MaxStops /\ killed' = TRUE
      /\ UNCHANGED <<row, subs, files, results>>
  BY DEF Crash, TInv, TypeOK
<1>2. /\ hand' \in [Processes -> [Rows -> Slot]]
      /\ \A q \in Processes, r \in Rows : hand'[q][r] \in {Idle, hand[q][r]}
  BY <1>1, IdleFacts
<1>3. TypeOK'
  BY <1>1, <1>2, Same DEF TypeOK
<1>4. \A q \in Processes, r \in Rows : SlotFits(hand'[q][r])
  BY <1>2, IdleFacts, Slots
<1> QED
  BY <1>1, <1>3, <1>4, Same DEF TInv, SlotFits, Keyed, Retrying

LEMMA TypesStart == Init => TInv
<1> SUFFICES ASSUME Init PROVE TInv
  OBVIOUS
<1>1. /\ row = [r \in Rows |-> FreshRow] /\ hand = [p \in Processes |-> [r \in Rows |-> Idle]]
      /\ subs = <<>> /\ files = {} /\ results = {} /\ stops = 0 /\ killed = FALSE
  BY DEF Init
<1>2. TypeOK
  <2>1. row \in [Rows -> MistralRow] /\ hand \in [Processes -> [Rows -> Slot]]
    BY <1>1, IdleFacts
  <2>2. subs \in Seq(Submission) /\ Len(subs) = 0
    BY <1>1
  <2>3. stops \in 0..MaxStops
    BY <1>1, MistralAssumption
  <2>4. files \subseteq Files /\ results \subseteq Rows \X Attempts /\ killed \in BOOLEAN
    BY <1>1
  <2> HIDE <1>1
  <2> QED
    BY <2>1, <2>2, <2>3, <2>4, ConstantFacts DEF TypeOK
<1>3. \A r \in Rows : Keyed(row[r])
  BY <1>1, StatusFacts DEF Keyed, FreshRow
<1> QED
  BY <1>1, <1>2, <1>3, IdleFacts DEF TInv

LEMMA WriteOffTypes ==
  ASSUME TInv, NEW p \in Processes, NEW r \in Rows, WriteOffNext(p, r) PROVE TInv'
BY VerdictTypes, CancelTypes, DeleteTypes, RewriteTypes DEF WriteOffNext

LEMMA TypesStep == TInv /\ [Next]_vars => TInv'
<1> SUFFICES ASSUME TInv, [Next]_vars PROVE TInv'
  OBVIOUS
<1>1. ASSUME NEW r \in Rows, WaveRead(r) \/ WaveStep(r) PROVE TInv'
  BY <1>1, WaveReadTypes, ClaimTypes, UploadTypes, CreateBatchTypes, LetGoTypes,
     CarryLeftTypes, HandBackTypes, RecordIdTypes, WriteOffTypes, Names DEF WaveStep
<1>2. ASSUME NEW r \in Rows, SweepStep(r) \/ StrandedRead(r) \/ LeftoverRead(r) PROVE TInv'
  BY <1>2, LookTypes, DiscardTypes, PollTypes, HarvestTypes, CompleteTypes, WriteOffTypes,
     TailTypes, Names DEF SweepStep
<1>3. ASSUME NEW r \in Rows, WebStep(r) \/ Consume(r) \/ DeadlinePasses(r) PROVE TInv'
  BY <1>3, AbandonHandlesTypes, ConsumeTypes, DeadlineTypes, WriteOffTypes, Names DEF WebStep
<1>4. CASE UNCHANGED vars
  BY <1>4 DEF vars, TInv, TypeOK, SlotFits, Keyed, Retrying
<1> QED
  BY <1>1, <1>2, <1>3, <1>4, SweepReadTypes, AbandonTypes, BatchEndsTypes, CrashTypes DEF Next

\* Every row, copy, submission and file keeps its type, in one loop and with the
\* ticks beside each other, whatever is refused, lost, throttled or killed: an
\* attempt is counted only below the limit, and a result is stored at a key.
THEOREM TypeCorrect == Spec => []TypeOK
<1>1. TInv => TypeOK
  BY DEF TInv
<1> QED
  BY <1>1, TypesStart, TypesStep, PTL DEF Spec

-----------------------------------------------------------------------------
(* One loop: how far a copy may be behind its row.                         *)

\* A row without a batch has no files of one; a row in flight has the key of its
\* attempt.
RowOK(cur) ==
  /\ cur.ext = NoId => cur.files = {}
  /\ cur.status = "pending" => cur.ext = NoId
  /\ cur.status \in InFlight => cur.key = cur.attempt

\* The copy is the row, or the row was abandoned in the attempt of the copy, and
\* what it still names the copy names too.
Follows(cur, s) ==
  \/ cur = s.read
  \/ /\ cur.status = "cancelled" /\ cur.attempt = s.read.attempt
     /\ cur.files \subseteq s.read.files \cup s.read.left

\* A slot that is to write its row again; "end" is what follows the last write.
Held(s) == s.step # "idle" /\ s.why # "end"

JudgeOK(s, cur) ==
  /\ Held(s) => Follows(cur, s) /\ s.read.status \in InFlight \cup {"pending"}
  /\ s.step = "verdict" => s.why \in {"retry", "fail"}
  /\ s.step = "cancel" => s.why \in {"retry", "end"} /\ cur.files \subseteq s.files
  /\ s.step = "delete" => s.why \in {"retry", "end", "late"}
  /\ s.step = "delete" /\ s.why = "retry" => cur.files = {} /\ s.read.files = {}
  /\ s.step = "delete" /\ s.why = "late" => cur.status = "cancelled"
  /\ s.step = "rewrite" => s.why = "retry" /\ s.read.files = {}
  /\ s.why = "end" => s.step \in {"cancel", "delete"}

Judged   == {"verdict", "cancel", "delete", "rewrite"}
Prepared == {"claimed", "uploaded", "failing", "carry", "handback", "created"}
Looking  == {"swept", "lost", "discard", "harvest", "stored"}

\* What the wave holds is a claim, with its submission in the log.
WaveOK(r, s, cur, log) ==
  /\ s.step \in {"idle", "read"} \cup Prepared \cup Judged
  /\ Held(s) => cur.ext = NoId
  /\ s.step = "read" => s.read.status = "pending"
  /\ Held(s) /\ s.step # "read" =>
       /\ s.read.status = "submitted"
       /\ s.read.at \in DOMAIN log
       /\ log[s.read.at].of = <<r, s.read.attempt>>
  /\ s.step \in {"failing", "carry"} => s.why \in {"busy", "retry", "fail"}

\* What the sweep looks at was in flight; what it completes is stored.
SweepOK(r, s, cur, stored) ==
  /\ s.step \in {"idle"} \cup Looking \cup Judged
  /\ s.step \in Looking => s.read.status \in InFlight /\ s.read.key = s.read.attempt
  /\ s.step \in {"lost", "discard"} => s.read.ext = NoId
  /\ s.step \in {"harvest", "stored"} => s.read.ext # NoId
  /\ s.step = "stored" => <<r, s.read.attempt>> \in stored

WebOK(s, cur) ==
  /\ s.step \in {"idle", "handles", "cancel", "delete"}
  /\ s.step # "idle" => cur.status = "cancelled"
  /\ s.step \in {"cancel", "delete"} => s.why = "end"
  /\ s.step = "cancel" => cur.files \subseteq s.files

OneLoop ==
  /\ (\E r \in Rows : ~At("wave", r, "idle")) => Free("sweep")
  /\ \A r, q \in Rows : ~At("wave", r, "idle") /\ ~At("wave", q, "idle") => r = q

LInv ==
  /\ OneLoop
  /\ \A r \in Rows :
       /\ RowOK(row[r])
       /\ JudgeOK(hand["wave"][r], row[r]) /\ WaveOK(r, hand["wave"][r], row[r], subs)
       /\ JudgeOK(hand["sweep"][r], row[r]) /\ SweepOK(r, hand["sweep"][r], row[r], results)
       /\ WebOK(hand["web"][r], row[r])

LoopInv == TInv /\ LInv

LEMMA IdleIsOK ==
  \A r, cur, log, stored :
    JudgeOK(Idle, cur) /\ WaveOK(r, Idle, cur, log) /\ SweepOK(r, Idle, cur, stored) /\ WebOK(Idle, cur)
BY IdleFacts DEF JudgeOK, WaveOK, SweepOK, WebOK, Held, Looking, Judged, Prepared

\* An abandoned row stays abandoned, with its attempt and its batch, and names no
\* new files.
Later(cur, new) ==
  cur.status = "cancelled" =>
    /\ new.status = "cancelled" /\ new.attempt = cur.attempt /\ new.ext = cur.ext
    /\ new.files \subseteq cur.files

LEMMA WebStays ==
  ASSUME NEW s, NEW cur, NEW new, WebOK(s, cur), Later(cur, new)
  PROVE  WebOK(s, new)
BY DEF WebOK, Later

LEMMA LoopStays ==
  ASSUME NEW r, NEW s, NEW cur, NEW new, NEW log, NEW stored,
         JudgeOK(s, cur), cur.status = "cancelled", Later(cur, new)
  PROVE  /\ JudgeOK(s, new)
         /\ WaveOK(r, s, cur, log) => WaveOK(r, s, new, log)
         /\ SweepOK(r, s, cur, stored) => SweepOK(r, s, new, stored)
<1>1. Held(s) => Follows(new, s)
  BY StatusFacts DEF JudgeOK, Follows, Later, Held
<1>2. JudgeOK(s, new)
  BY <1>1 DEF JudgeOK, Later
<1> QED
  BY <1>2 DEF WaveOK, SweepOK, Later

\* The log and the results only grow.
Grow == /\ \A n \in DOMAIN subs : n \in DOMAIN subs' /\ subs'[n].of = subs[n].of
        /\ results \subseteq results'

LEMMA GrownIsOK ==
  ASSUME Grow, NEW r, NEW s, NEW cur
  PROVE  /\ WaveOK(r, s, cur, subs) => WaveOK(r, s, cur, subs')
         /\ SweepOK(r, s, cur, results) => SweepOK(r, s, cur, results')
BY DEF Grow, WaveOK, SweepOK

LEMMA Parts ==
  ASSUME LoopInv, NEW r \in Rows
  PROVE  /\ RowOK(row[r]) /\ row[r] \in MistralRow
         /\ JudgeOK(hand["wave"][r], row[r]) /\ WaveOK(r, hand["wave"][r], row[r], subs)
         /\ JudgeOK(hand["sweep"][r], row[r]) /\ SweepOK(r, hand["sweep"][r], row[r], results)
         /\ WebOK(hand["web"][r], row[r])
         /\ \A p \in {"wave", "sweep", "web"} :
              hand[p][r] \in Slot /\ hand[p][r].read \in MistralRow
BY Slots, Names DEF LoopInv, LInv

LEMMA SlotIs ==
  ASSUME LoopInv, NEW r \in Rows, NEW p \in Processes, NEW s, Becomes(p, r, s)
  PROVE  /\ hand'[p][r] = s
         /\ \A q \in Processes, t \in Rows : q # p \/ t # r => hand'[q][t] = hand[q][t]
<1>1. hand \in [Processes -> [Rows -> Slot]] /\ hand' = [hand EXCEPT ![p][r] = s]
  BY DEF LoopInv, TInv, TypeOK, Becomes
<1>2. hand[p] \in [Rows -> Slot] /\ hand' = [hand EXCEPT ![p] = [hand[p] EXCEPT ![r] = s]]
  BY <1>1
<1> QED
  BY <1>1, <1>2

\* A step of the wave or of the sweep on a row it holds.
LEMMA LoopMoves ==
  ASSUME LoopInv, NEW r \in Rows, NEW p \in {"wave", "sweep"}, NEW s,
         ~At(p, r, "idle"), Becomes(p, r, s), Grow,
         \A t \in Rows \ {r} : row'[t] = row[t],
         RowOK(row'[r]), Later(row[r], row'[r]), JudgeOK(s, row'[r]),
         p = "wave" => WaveOK(r, s, row'[r], subs'),
         p = "sweep" => SweepOK(r, s, row'[r], results')
  PROVE  LInv'
<1>1. /\ hand'[p][r] = s
      /\ \A q \in Processes, t \in Rows : q # p \/ t # r => hand'[q][t] = hand[q][t]
  BY SlotIs, Names
<1>2. CASE p = "wave"
  <2>1. \A t \in Rows : hand["sweep"][t].step = "idle"
    BY <1>2 DEF LoopInv, LInv, OneLoop, Free, At
  <2>2. \A t \in Rows \ {r} : hand["wave"][t].step = "idle"
    BY <1>2 DEF LoopInv, LInv, OneLoop, At
  <2>3. OneLoop'
    BY <1>1, <1>2, <2>1, <2>2, Names DEF OneLoop, Free, At
  <2>4. ASSUME NEW t \in Rows
        PROVE  /\ RowOK(row'[t])
               /\ JudgeOK(hand'["wave"][t], row'[t]) /\ WaveOK(t, hand'["wave"][t], row'[t], subs')
               /\ JudgeOK(hand'["sweep"][t], row'[t])
               /\ SweepOK(t, hand'["sweep"][t], row'[t], results')
               /\ WebOK(hand'["web"][t], row'[t])
    <3>1. CASE t # r
      <4>1. \A q \in {"wave", "sweep", "web"} : hand'[q][t] = hand[q][t]
        BY <1>1, <3>1, Names
      <4> QED
        BY <3>1, <4>1, Parts, GrownIsOK
    <3>2. CASE t = r
      <4>1. /\ hand'["wave"][r] = s /\ hand'["sweep"][r] = hand["sweep"][r]
            /\ hand'["web"][r] = hand["web"][r]
        BY <1>1, <1>2, Names
      <4>2. JudgeOK(hand["sweep"][r], row'[r]) /\ SweepOK(r, hand["sweep"][r], row'[r], results')
        <5>1. hand["sweep"][r].step = "idle" /\ hand["sweep"][r].why # "end"
          BY <2>1, Parts DEF JudgeOK
        <5> QED
          BY <5>1 DEF JudgeOK, SweepOK, Held, Looking, Judged
      <4>3. WebOK(hand["web"][r], row'[r])
        BY Parts, WebStays
      <4> QED
        BY <1>2, <3>2, <4>1, <4>2, <4>3
    <3> QED
      BY <3>1, <3>2
  <2> QED
    BY <2>3, <2>4 DEF LInv, RowOK, JudgeOK, WaveOK, SweepOK, WebOK, Held, Follows
<1>3. CASE p = "sweep"
  <2>1. \A t \in Rows : hand["wave"][t].step = "idle"
    BY <1>3 DEF LoopInv, LInv, OneLoop, Free, At
  <2>3. OneLoop'
    BY <1>1, <1>3, <2>1, Names DEF OneLoop, Free, At
  <2>4. ASSUME NEW t \in Rows
        PROVE  /\ RowOK(row'[t])
               /\ JudgeOK(hand'["wave"][t], row'[t]) /\ WaveOK(t, hand'["wave"][t], row'[t], subs')
               /\ JudgeOK(hand'["sweep"][t], row'[t])
               /\ SweepOK(t, hand'["sweep"][t], row'[t], results')
               /\ WebOK(hand'["web"][t], row'[t])
    <3>1. CASE t # r
      <4>1. \A q \in {"wave", "sweep", "web"} : hand'[q][t] = hand[q][t]
        BY <1>1, <3>1, Names
      <4> QED
        BY <3>1, <4>1, Parts, GrownIsOK
    <3>2. CASE t = r
      <4>1. /\ hand'["sweep"][r] = s /\ hand'["wave"][r] = hand["wave"][r]
            /\ hand'["web"][r] = hand["web"][r]
        BY <1>1, <1>3, Names
      <4>2. JudgeOK(hand["wave"][r], row'[r]) /\ WaveOK(r, hand["wave"][r], row'[r], subs')
        <5>1. hand["wave"][r].step = "idle" /\ hand["wave"][r].why # "end"
          BY <2>1, Parts DEF JudgeOK
        <5> QED
          BY <5>1 DEF JudgeOK, WaveOK, Held, Prepared, Judged
      <4>3. WebOK(hand["web"][r], row'[r])
        BY Parts, WebStays
      <4> QED
        BY <1>3, <3>2, <4>1, <4>2, <4>3
    <3> QED
      BY <3>1, <3>2
  <2> QED
    BY <2>3, <2>4 DEF LInv, RowOK, JudgeOK, WaveOK, SweepOK, WebOK, Held, Follows
<1> QED
  BY <1>2, <1>3

\* What the writes keep and set.
LEMMA LedgerWrites ==
  ASSUME NEW cur \in MistralRow, NEW S \in SUBSET Files, NEW T \in SUBSET Files, NEW new,
         \/ new = Carried(cur, T, S) \/ new = Naming(cur, S) \/ new = NamedForDeletion(cur, S)
  PROVE  /\ new.status = cur.status /\ new.ext = cur.ext /\ new.attempt = cur.attempt
         /\ new.key = cur.key /\ new.at = cur.at /\ new.files \subseteq cur.files
         /\ Refreshed(cur, new) = new
BY DEF Carried, Naming, NamedForDeletion, Refreshed, MistralRow

LEMMA CopyWrites ==
  ASSUME NEW read \in MistralRow, NEW new
  PROVE  LET f == Refreshed(read, new) IN
         /\ f.status = read.status /\ f.ext = read.ext /\ f.attempt = read.attempt
         /\ f.key = read.key /\ f.at = read.at
         /\ f.files = new.files /\ f.left = new.left
BY DEF Refreshed, MistralRow

LEMMA LedgerSets ==
  ASSUME NEW cur \in MistralRow, NEW S \in SUBSET Files, NEW T \in SUBSET Files
  PROVE  /\ Carried(cur, T, S).files = cur.files
         /\ Carried(cur, T, S).left = (cur.left \ (T \ S)) \cup S
         /\ Naming(cur, S).files = cur.files /\ Naming(cur, S).left = cur.left \cup S
         /\ NamedForDeletion(cur, S).files = {}
         /\ NamedForDeletion(cur, S).left = cur.left \cup S
BY DEF Carried, Naming, NamedForDeletion, MistralRow

\* A row that differs in what is left alone.
LedgerOnly(cur, new) ==
  /\ new.status = cur.status /\ new.ext = cur.ext /\ new.attempt = cur.attempt
  /\ new.key = cur.key /\ new.files \subseteq cur.files

LEMMA LedgerIsOK ==
  ASSUME NEW cur, NEW new, LedgerOnly(cur, new), RowOK(cur)
  PROVE  RowOK(new) /\ Later(cur, new)
BY DEF LedgerOnly, RowOK, Later

\* The carry: the copy follows as before, and the row keeps all but what is left.
CarriesOver(cur, new, read, after, T, S) ==
  /\ LedgerOnly(cur, new) /\ new.files = cur.files
  /\ new.left = IF S # {} \/ read.left # {} THEN (cur.left \ (T \ S)) \cup S ELSE cur.left
  /\ after.status = read.status /\ after.ext = read.ext /\ after.attempt = read.attempt
  /\ after.key = read.key /\ after.at = read.at
  /\ cur = read => new = after
  /\ cur.files \subseteq read.files \cup read.left => new.files \subseteq after.files \cup after.left
  /\ cur.files = {} /\ read.files = {} => after.files = {}
  /\ after.left \subseteq cur.left \cup S \cup read.left
  /\ after.files \subseteq cur.files \cup read.files

LEMMA CarryMoves ==
  ASSUME LoopInv, NEW r \in Rows, NEW read \in MistralRow,
         NEW T \in SUBSET Files, NEW S \in SUBSET Files, Carry(r, read, T, S)
  PROVE  /\ \A t \in Rows \ {r} : row'[t] = row[t]
         /\ row' \in [Rows -> MistralRow]
         /\ CarriesOver(row[r], row'[r], read, AfterCarry(r, read, T, S), T, S)
<1> DEFINE new == Carried(row[r], T, S)
<1>1. row[r] \in MistralRow /\ row \in [Rows -> MistralRow]
  BY Parts DEF LoopInv, TInv, TypeOK
<1>2. CASE S # {} \/ read.left # {}
  <2>1. row' = [row EXCEPT ![r] = new] /\ AfterCarry(r, read, T, S) = Refreshed(read, new)
    BY <1>2 DEF Carry, AfterCarry
  <2>2. new \in MistralRow
    BY <1>1, RowWrites
  <2>3. /\ new.status = row[r].status /\ new.ext = row[r].ext /\ new.attempt = row[r].attempt
        /\ new.key = row[r].key /\ Refreshed(row[r], new) = new
    BY <1>1 DEF Carried, Refreshed, MistralRow
  <2>3a. new.files = row[r].files /\ new.left = (row[r].left \ (T \ S)) \cup S
    BY <1>1 DEF Carried, MistralRow
  <2>4. LET f == Refreshed(read, new) IN
        /\ f.status = read.status /\ f.ext = read.ext /\ f.attempt = read.attempt
        /\ f.key = read.key /\ f.at = read.at
        /\ f.files = new.files /\ f.left = new.left
    BY CopyWrites
  <2> HIDE DEF new
  <2>5. row'[r] = new /\ \A t \in Rows \ {r} : row'[t] = row[t]
    BY <1>1, <2>1
  <2>6. row' \in [Rows -> MistralRow]
    BY <1>1, <2>1, <2>2
  <2> QED
    BY <1>2, <2>1, <2>3, <2>3a, <2>4, <2>5, <2>6 DEF LedgerOnly, CarriesOver
<1>3. CASE ~(S # {} \/ read.left # {})
  <2>1. UNCHANGED row /\ AfterCarry(r, read, T, S) = read
    BY <1>3 DEF Carry, AfterCarry
  <2> QED
    BY <1>1, <1>3, <2>1 DEF LedgerOnly, CarriesOver
<1> QED
  BY <1>2, <1>3

LEMMA SameLog == UNCHANGED <<subs, results>> => Grow
BY DEF Grow

\* A batch's state is no part of what the log says of its submission.
LEMMA BatchGrows ==
  ASSUME LoopInv, NEW n, NEW b, subs' = [subs EXCEPT ![n].batch = b], UNCHANGED results
  PROVE  Grow
<1>1. subs \in [1..Len(subs) -> Submission] /\ DOMAIN subs = 1..Len(subs)
  BY Same DEF LoopInv
<1> QED
  BY <1>1 DEF Grow, Submission

\* A held slot: its copy is the row, or the row was abandoned.
LEMMA HeldIs ==
  ASSUME LoopInv, NEW r \in Rows, NEW p \in {"wave", "sweep"}, Held(hand[p][r])
  PROVE  LET s == hand[p][r] IN
         /\ Follows(row[r], s)
         /\ s.read.status \in InFlight \cup {"pending"} /\ s.read.status # "cancelled"
         /\ Matches(row[r], s.read) => row[r] = s.read
         /\ ~Matches(row[r], s.read) => row[r].status = "cancelled"
         /\ row[r].files \subseteq s.read.files \cup s.read.left
BY Parts, StatusFacts DEF JudgeOK, Follows, Matches

-----------------------------------------------------------------------------
(* The wave.                                                               *)

LEMMA ClaimLoops == ASSUME LoopInv, NEW r \in Rows, Claim(r), Grow PROVE LInv'
<1> DEFINE s == hand["wave"][r]
           read == s.read
           n    == Len(subs) + 1
           new  == [Claimed(row[r], read, CeilingOnce(read)) EXCEPT !.at = n]
           mine == [Claimed(read, read, CeilingOnce(read)) EXCEPT !.at = n]
           t    == [Idle EXCEPT !.step = "claimed", !.read = mine]
           sub  == [of |-> <<r, read.attempt>>, batch |-> "none"]
<1>1. /\ read \in MistralRow /\ row[r] \in MistralRow /\ RowOK(row[r]) /\ s \in Slot
      /\ s.step = "read" /\ Held(s) /\ read.status = "pending"
  BY Parts DEF Claim, At, WaveOK, JudgeOK, Held
<1>2. /\ Matches(row[r], s.read) => row[r] = s.read
      /\ ~Matches(row[r], s.read) => row[r].status = "cancelled"
  BY <1>1, HeldIs
<1>3. CASE ~Matches(row[r], read)
  <2>1. Becomes("wave", r, Idle) /\ UNCHANGED <<row, subs, results>>
    BY <1>3 DEF Claim, Swap, Drops
  <2> QED
    BY <1>1, <2>1, LoopMoves, IdleFacts, IdleIsOK DEF At, Later
<1>4. CASE Matches(row[r], read)
  <2>1. /\ row' = [row EXCEPT ![r] = new] /\ n <= MaxPosts
        /\ subs' = Append(subs, sub) /\ Becomes("wave", r, t)
    BY <1>4, Same, ConstantFacts DEF Claim, Swap, LoopInv
  <2>2. row \in [Rows -> MistralRow] /\ subs \in Seq(Submission) /\ Len(subs) \in Nat /\ n \in Ids
    BY <2>1, Same, ConstantFacts DEF LoopInv, Ids
  <2>3. new = mine /\ row[r] = read
    BY <1>2, <1>4
  <2>4. /\ new \in MistralRow /\ new.status = "submitted" /\ new.ext = read.ext
        /\ new.attempt = read.attempt /\ new.key = read.attempt /\ new.at = n
        /\ new.files = read.files /\ new.left = read.left
    <3>1. new \in MistralRow
      BY <1>1, <2>2, RowWrites
    <3> QED
      BY <1>1, <2>3, <3>1 DEF Claimed, MistralRow
  <2> HIDE DEF new, mine
  <2>5. /\ t \in Slot /\ t.step = "claimed" /\ t.read = new /\ t.why = "none"
    BY <2>3, <2>4, IdleFacts DEF Slot, Steps
  <2>6. n \in DOMAIN subs' /\ subs'[n] = sub
    BY <2>1, <2>2
  <2>7. row'[r] = new /\ \A q \in Rows \ {r} : row'[q] = row[q]
    BY <2>1, <2>2
  <2>8. RowOK(new) /\ Later(row[r], new) /\ new.ext = NoId
    BY <1>1, <2>3, <2>4, StatusFacts DEF RowOK, Later
  <2>9. JudgeOK(t, new)
    BY <2>4, <2>5, StatusFacts DEF JudgeOK, Held, Follows
  <2>10. WaveOK(r, t, new, subs')
    BY <2>4, <2>5, <2>6, <2>8 DEF WaveOK, Prepared
  <2> HIDE DEF t
  <2> QED
    BY <1>1, <2>1, <2>5, <2>7, <2>8, <2>9, <2>10, LoopMoves DEF At
<1> QED
  BY <1>3, <1>4

\* The wave goes on with its claim, the row untouched.
LEMMA WaveGoesOn ==
  ASSUME LoopInv, NEW r \in Rows, NEW t, Becomes("wave", r, t),
         Held(hand["wave"][r]), hand["wave"][r].step # "read", Grow, UNCHANGED row,
         t.read = hand["wave"][r].read,
         \/ t.step \in {"uploaded", "created"} /\ t.why # "end"
         \/ t.step \in {"failing", "carry"} /\ t.why \in {"busy", "retry", "fail"}
  PROVE  LInv'
<1> DEFINE s == hand["wave"][r]
<1>1. /\ RowOK(row[r]) /\ JudgeOK(s, row[r]) /\ WaveOK(r, s, row[r], subs)
  BY Parts
<1>2. WaveOK(r, s, row[r], subs')
  BY <1>1, GrownIsOK
<1>3. JudgeOK(t, row[r]) /\ WaveOK(r, t, row[r], subs')
  BY <1>1, <1>2 DEF JudgeOK, WaveOK, Held, Follows, Prepared
<1> QED
  BY <1>1, <1>3, LoopMoves DEF Held, At, Later

LEMMA UploadLoops == ASSUME LoopInv, NEW r \in Rows, Upload(r), Grow PROVE LInv'
<1> DEFINE s == hand["wave"][r]
           up(kept) == [s EXCEPT !.step = "uploaded", !.files = {Pages(s.read.at)}, !.left = kept]
           no(kept, landed, why) == [s EXCEPT !.step = "failing", !.files = landed,
                                              !.left = kept, !.why = why]
           lost(kept) == [s EXCEPT !.step = "failing", !.left = kept, !.why = "retry"]
<1>1. /\ s \in Slot /\ JudgeOK(s, row[r]) /\ WaveOK(r, s, row[r], subs)
      /\ s.step = "claimed" /\ UNCHANGED row
  BY Parts DEF Upload, At
<1>2. Held(s) /\ s.why # "end"
  BY <1>1 DEF JudgeOK, Held
<1>3. PICK kept \in Kept(s.read.left) :
        \/ Becomes("wave", r, up(kept))
        \/ \E why \in Failings, landed \in SUBSET {Pages(s.read.at)} :
             Becomes("wave", r, no(kept, landed, why))
        \/ Becomes("wave", r, lost(kept))
  BY DEF Upload
<1>4. \A why \in Failings : why \in {"busy", "retry", "fail"}
  BY DEF Failings
<1>5. \A landed, why :
        /\ up(kept).read = s.read /\ up(kept).step = "uploaded" /\ up(kept).why = s.why
        /\ no(kept, landed, why).read = s.read /\ no(kept, landed, why).step = "failing"
        /\ no(kept, landed, why).why = why
        /\ lost(kept).read = s.read /\ lost(kept).step = "failing" /\ lost(kept).why = "retry"
  BY <1>1 DEF Slot
<1>6. PICK t : /\ Becomes("wave", r, t) /\ t.read = s.read
               /\ \/ t.step \in {"uploaded", "created"} /\ t.why # "end"
                  \/ t.step \in {"failing", "carry"} /\ t.why \in {"busy", "retry", "fail"}
  <2> HIDE DEF up, no, lost
  <2> QED
    BY <1>2, <1>3, <1>4, <1>5
<1> QED
  BY <1>1, <1>2, <1>6, WaveGoesOn

LEMMA CreateBatchLoops == ASSUME LoopInv, NEW r \in Rows, CreateBatch(r), Grow PROVE LInv'
<1> DEFINE s == hand["wave"][r]
           no(why) == [s EXCEPT !.step = "failing", !.why = why]
<1>1. /\ s \in Slot /\ JudgeOK(s, row[r]) /\ s.step = "uploaded" /\ UNCHANGED row
  BY Parts DEF CreateBatch, At
<1>2. Held(s) /\ s.why # "end"
  BY <1>1 DEF JudgeOK, Held
<1>3. \/ Becomes("wave", r, Goes(s, "created"))
      \/ \E why \in Failings : Becomes("wave", r, no(why))
  BY DEF CreateBatch
<1>4. \A why \in Failings : why \in {"busy", "retry", "fail"}
  BY DEF Failings
<1>5. /\ Goes(s, "created").read = s.read /\ Goes(s, "created").step = "created"
      /\ Goes(s, "created").why = s.why
      /\ \A why : no(why).read = s.read /\ no(why).step = "failing" /\ no(why).why = why
  BY <1>1 DEF Slot, Goes
<1>6. PICK t : /\ Becomes("wave", r, t) /\ t.read = s.read
               /\ \/ t.step \in {"uploaded", "created"} /\ t.why # "end"
                  \/ t.step \in {"failing", "carry"} /\ t.why \in {"busy", "retry", "fail"}
  <2> HIDE DEF no
  <2> QED
    BY <1>2, <1>3, <1>4, <1>5
<1> QED
  BY <1>1, <1>2, <1>6, WaveGoesOn

LEMMA LetGoLoops == ASSUME LoopInv, NEW r \in Rows, LetGo(r), Grow PROVE LInv'
<1> DEFINE s == hand["wave"][r]
           t(kept) == [s EXCEPT !.step = "carry", !.left = @ \cup kept]
<1>1. /\ s \in Slot /\ JudgeOK(s, row[r]) /\ WaveOK(r, s, row[r], subs)
      /\ s.step = "failing" /\ UNCHANGED row
  BY Parts DEF LetGo, At
<1>2. Held(s) /\ s.why \in {"busy", "retry", "fail"}
  BY <1>1 DEF JudgeOK, WaveOK, Held
<1>3. PICK kept : Becomes("wave", r, t(kept))
  BY DEF LetGo
<1>4. t(kept).read = s.read /\ t(kept).step = "carry" /\ t(kept).why = s.why
  BY <1>1 DEF Slot
<1> HIDE DEF t
<1> QED
  BY <1>1, <1>2, <1>3, <1>4, WaveGoesOn

\* A judged slot, or none, of whichever process.
LEMMA JudgedIs ==
  ASSUME LoopInv, NEW r \in Rows, NEW p \in {"wave", "sweep"}, NEW t, NEW new, Grow,
         t.step \in Judged \cup {"idle"},
         Held(t) =>
           LET s == hand[p][r] IN
           /\ Held(s) /\ s.step # "read" /\ new.ext = row[r].ext
           /\ t.read.status = s.read.status /\ t.read.at = s.read.at
           /\ t.read.attempt = s.read.attempt
  PROVE  /\ p = "wave" => WaveOK(r, t, new, subs')
         /\ p = "sweep" => SweepOK(r, t, new, results')
<1>1. CASE p = "wave"
  <2>1. WaveOK(r, hand["wave"][r], row[r], subs')
    BY Parts, GrownIsOK
  <2> QED
    BY <1>1, <2>1 DEF WaveOK, Judged
<1>2. CASE p = "sweep"
  BY <1>2 DEF SweepOK, Judged, Looking
<1> QED
  BY <1>1, <1>2

\* A step of the web process on a row it abandoned.
LEMMA WebMoves ==
  ASSUME LoopInv, NEW r \in Rows, NEW s, ~At("web", r, "idle"), Becomes("web", r, s), Grow,
         \A t \in Rows \ {r} : row'[t] = row[t],
         RowOK(row'[r]), Later(row[r], row'[r]), WebOK(s, row'[r])
  PROVE  LInv'
<1>1. /\ hand'["web"][r] = s
      /\ \A q \in Processes, t \in Rows : q # "web" \/ t # r => hand'[q][t] = hand[q][t]
  BY SlotIs, Names
<1>2. row[r].status = "cancelled"
  BY Parts DEF WebOK, At
<1>3. OneLoop'
  BY <1>1, Names DEF LoopInv, LInv, OneLoop, Free, At
<1>4. ASSUME NEW t \in Rows
      PROVE  /\ RowOK(row'[t])
             /\ JudgeOK(hand'["wave"][t], row'[t]) /\ WaveOK(t, hand'["wave"][t], row'[t], subs')
             /\ JudgeOK(hand'["sweep"][t], row'[t])
             /\ SweepOK(t, hand'["sweep"][t], row'[t], results')
             /\ WebOK(hand'["web"][t], row'[t])
  <2>0. hand'["wave"][t] = hand["wave"][t] /\ hand'["sweep"][t] = hand["sweep"][t]
    BY <1>1, Names
  <2>1. CASE t # r
    <3>1. hand'["web"][t] = hand["web"][t]
      BY <1>1, <2>1, Names
    <3> QED
      BY <2>0, <2>1, <3>1, Parts, GrownIsOK
  <2>2. CASE t = r
    <3>1. /\ JudgeOK(hand["wave"][r], row'[r]) /\ WaveOK(r, hand["wave"][r], row'[r], subs)
          /\ JudgeOK(hand["sweep"][r], row'[r]) /\ SweepOK(r, hand["sweep"][r], row'[r], results)
      BY <1>2, Parts, LoopStays
    <3> QED
      BY <1>1, <2>0, <2>2, <3>1, GrownIsOK
  <2> QED
    BY <2>1, <2>2
<1> QED
  BY <1>3, <1>4 DEF LInv, RowOK, JudgeOK, WaveOK, SweepOK, WebOK, Held, Follows

LEMMA CarryLeftLoops == ASSUME LoopInv, NEW r \in Rows, CarryLeft(r), Grow PROVE LInv'
<1> DEFINE s  == hand["wave"][r]
           tried == s.read.left \cup s.files
           read == IF s.left = {} THEN s.read ELSE AfterCarry(r, s.read, tried, s.left)
           s2 == [s EXCEPT !.read = read]
           t  == IF s.why = "busy" THEN Goes(s2, "handback") ELSE ToVerdict(s2, s.why)
<1>1. /\ s \in Slot /\ s.read \in MistralRow /\ tried \in SUBSET Files /\ s.left \in SUBSET Files
      /\ JudgeOK(s, row[r]) /\ WaveOK(r, s, row[r], subs) /\ RowOK(row[r])
      /\ s.step = "carry" /\ row[r] \in MistralRow /\ row \in [Rows -> MistralRow]
  BY Parts DEF Slot, MistralRow, CarryLeft, At, LoopInv, TInv, TypeOK
<1>2. Held(s) /\ s.why \in {"busy", "retry", "fail"} /\ Follows(row[r], s)
  BY <1>1 DEF JudgeOK, WaveOK, Held
<1>3. /\ \A q \in Rows \ {r} : row'[q] = row[q]
      /\ LedgerOnly(row[r], row'[r])
      /\ read.status = s.read.status /\ read.attempt = s.read.attempt /\ read.at = s.read.at
      /\ row[r] = s.read => row'[r] = read
      /\ row[r].files \subseteq s.read.files \cup s.read.left
           => row'[r].files \subseteq read.files \cup read.left
  <2>1. CASE s.left = {}
    BY <1>1, <2>1 DEF CarryLeft, LedgerOnly
  <2>2. CASE s.left # {}
    <3>1. Carry(r, s.read, tried, s.left) /\ read = AfterCarry(r, s.read, tried, s.left)
      BY <2>2 DEF CarryLeft
    <3>2. /\ \A q \in Rows \ {r} : row'[q] = row[q]
          /\ CarriesOver(row[r], row'[r], s.read, read, tried, s.left)
      BY <1>1, <3>1, CarryMoves
    <3> HIDE DEF read
    <3> QED
      BY <3>2 DEF CarriesOver
  <2> QED
    BY <2>1, <2>2
<1>4. Becomes("wave", r, t)
  <2>1. s2 = IF s.left = {} THEN s ELSE [s EXCEPT !.read = AfterCarry(r, s.read, tried, s.left)]
    BY <1>1 DEF Slot
  <2> QED
    BY <2>1 DEF CarryLeft
<1> HIDE DEF read
<1>5. /\ t.read = read /\ t.step \in {"handback", "verdict"}
      /\ t.step = "handback" => t.why = "busy"
      /\ t.step = "verdict" => t.why \in {"retry", "fail"}
  <2>1. /\ t.read = read
        /\ \/ t.step = "handback" /\ t.why = "busy"
           \/ t.step = "verdict" /\ t.why \in {"retry", "fail"}
    BY <1>1, <1>2 DEF Goes, ToVerdict, Slot
  <2> QED
    BY <2>1
<1> HIDE DEF t
<1>6. Follows(row'[r], t)
  <2>1. row[r] = s.read \/ (/\ row'[r].status = "cancelled"
                            /\ row'[r].attempt = s.read.attempt
                            /\ row[r].files \subseteq s.read.files \cup s.read.left)
    BY <1>2, <1>3 DEF Follows, LedgerOnly
  <2> QED
    BY <1>3, <1>5, <2>1 DEF Follows
<1>7. JudgeOK(t, row'[r])
  BY <1>1, <1>2, <1>3, <1>5, <1>6 DEF JudgeOK, Held
<1>8. WaveOK(r, t, row'[r], subs')
  <2>1. WaveOK(r, s, row[r], subs')
    BY <1>1, GrownIsOK
  <2> QED
    BY <1>1, <1>2, <1>3, <1>5, <2>1 DEF WaveOK, Held, LedgerOnly, Prepared, Judged
<1>9. RowOK(row'[r]) /\ Later(row[r], row'[r])
  BY <1>1, <1>3, LedgerIsOK
<1> QED
  BY <1>1, <1>3, <1>4, <1>7, <1>8, <1>9, LoopMoves DEF At

\* A row that is let go of: what is written fits, and no slot is left.
LEMMA LetsGo ==
  ASSUME LoopInv, NEW r \in Rows, NEW p \in {"wave", "sweep"}, ~At(p, r, "idle"), Drops(p, r),
         Grow, \A t \in Rows \ {r} : row'[t] = row[t],
         RowOK(row'[r]), Later(row[r], row'[r])
  PROVE  LInv'
BY IdleIsOK, LoopMoves DEF Drops

LEMMA HandBackLoops == ASSUME LoopInv, NEW r \in Rows, HandBack(r), Grow PROVE LInv'
<1> DEFINE s == hand["wave"][r]
           new == HandedBack(row[r])
<1>1. /\ RowOK(row[r]) /\ row[r] \in MistralRow /\ row \in [Rows -> MistralRow]
      /\ WaveOK(r, s, row[r], subs) /\ s.step = "handback" /\ JudgeOK(s, row[r])
      /\ Swap(r, s.read, new) /\ Drops("wave", r)
  BY Parts DEF HandBack, At, LoopInv, TInv, TypeOK
<1>2. Held(s) /\ row[r].ext = NoId /\ row[r].files = {}
  BY <1>1 DEF JudgeOK, WaveOK, Held, RowOK
<1>3. Matches(row[r], s.read) => row[r].status \in InFlight \cup {"pending"}
  BY <1>2, HeldIs DEF Matches
<1>4. new.status = "pending" /\ new.ext = NoId /\ new.files = row[r].files
  BY <1>1 DEF HandedBack, Deferred, MistralRow
<1> HIDE DEF new
<1>5. /\ \A t \in Rows \ {r} : row'[t] = row[t]
      /\ row'[r] = IF Matches(row[r], s.read) THEN new ELSE row[r]
  BY <1>1 DEF Swap
<1>6. RowOK(row'[r]) /\ Later(row[r], row'[r])
  BY <1>1, <1>2, <1>3, <1>4, <1>5, StatusFacts DEF RowOK, Later
<1> QED
  BY <1>1, <1>5, <1>6, LetsGo DEF At

LEMMA RecordIdLoops == ASSUME LoopInv, NEW r \in Rows, RecordId(r), Grow PROVE LInv'
<1> DEFINE s == hand["wave"][r]
           n == s.read.at
           new == [row[r] EXCEPT !.ext = n, !.files = s.files, !.left = s.left]
           t == [s EXCEPT !.step = "cancel", !.why = "end", !.ext = n, !.files = @ \cup s.left]
<1>1. /\ RowOK(row[r]) /\ row[r] \in MistralRow /\ row \in [Rows -> MistralRow]
      /\ WaveOK(r, s, row[r], subs) /\ s.step = "created" /\ JudgeOK(s, row[r]) /\ s \in Slot
  BY Parts DEF RecordId, At, LoopInv, TInv, TypeOK
<1>2. /\ Held(s) /\ row[r].ext = NoId /\ row[r].files = {}
      /\ n \in DOMAIN subs /\ n # NoId /\ s.read.status = "submitted"
  BY <1>1, Same, ConstantFacts DEF JudgeOK, WaveOK, Held, RowOK, NoId, LoopInv
<1>3. CASE Matches(row[r], s.read) /\ row' = [row EXCEPT ![r] = new] /\ Drops("wave", r)
  <2>1. /\ new.status = row[r].status /\ new.ext = n /\ new.key = row[r].key
        /\ new.attempt = row[r].attempt
    BY <1>1 DEF MistralRow
  <2> HIDE DEF new
  <2>2. row'[r] = new /\ \A q \in Rows \ {r} : row'[q] = row[q]
    BY <1>1, <1>3
  <2>3. RowOK(new) /\ Later(row[r], new)
    BY <1>1, <1>2, <1>3, <2>1, StatusFacts DEF RowOK, Later, Matches
  <2> QED
    BY <1>1, <1>3, <2>2, <2>3, LetsGo DEF At
<1>4. CASE UNCHANGED row /\ Becomes("wave", r, t)
  <2>1. t.step = "cancel" /\ t.why = "end"
    BY <1>1 DEF Slot
  <2> HIDE DEF t
  <2>2. JudgeOK(t, row[r]) /\ ~Held(t)
    BY <1>2, <2>1 DEF JudgeOK, Held
  <2>3. WaveOK(r, t, row[r], subs')
    BY <2>1, <2>2, JudgedIs DEF Judged
  <2> QED
    BY <1>1, <1>4, <2>2, <2>3, LoopMoves DEF At, Later
<1> QED
  BY <1>3, <1>4 DEF RecordId

-----------------------------------------------------------------------------
(* What a write-off and a retry do.                                        *)

LEMMA CancelIs ==
  ASSUME NEW s \in Slot, NEW why
  PROVE  LET t == ToCancel(s, why) IN
         /\ t.step = "cancel" /\ t.why = why /\ t.read = s.read
         /\ t.files = s.read.files \cup s.read.left
BY DEF ToCancel, Slot

LEMMA VerdictLoops ==
  ASSUME LoopInv, NEW r \in Rows, NEW p \in {"wave", "sweep"}, Verdict(p, r), Grow PROVE LInv'
<1> DEFINE s == hand[p][r]
           new == WithStatus(row[r], "failed")
<1>1. /\ RowOK(row[r]) /\ row[r] \in MistralRow /\ row \in [Rows -> MistralRow]
      /\ s.step = "verdict" /\ JudgeOK(s, row[r]) /\ s \in Slot
  BY Parts DEF Verdict, At, LoopInv, TInv, TypeOK
<1>2. Held(s) /\ s.why # "end"
  BY <1>1 DEF JudgeOK, Held
<1>3. /\ Follows(row[r], s)
      /\ s.read.status \in InFlight \cup {"pending"} /\ s.read.status # "cancelled"
      /\ row[r].files \subseteq s.read.files \cup s.read.left
  BY <1>2, HeldIs
<1>4. CASE Becomes(p, r, ToCancel(s, "retry")) /\ UNCHANGED row
  <2> DEFINE t == ToCancel(s, "retry")
  <2>1. /\ t.step = "cancel" /\ t.why = "retry" /\ t.read = s.read
        /\ t.files = s.read.files \cup s.read.left
    BY <1>1, CancelIs
  <2> HIDE DEF t
  <2>2. JudgeOK(t, row[r])
    BY <1>3, <2>1 DEF JudgeOK, Follows
  <2>3. (p = "wave" => WaveOK(r, t, row[r], subs')) /\ (p = "sweep" => SweepOK(r, t, row[r], results'))
    BY <1>1, <1>2, <2>1, JudgedIs DEF Judged
  <2>4. Becomes(p, r, t)
    BY <1>4 DEF t
  <2> QED
    BY <1>1, <1>4, <2>2, <2>3, <2>4, LoopMoves DEF At, Later
<1>5. CASE /\ Swap(r, s.read, new)
           /\ Becomes(p, r, IF Matches(row[r], s.read) THEN ToCancel(s, "end") ELSE Idle)
  <2>1. CASE ~Matches(row[r], s.read)
    BY <1>1, <1>5, <2>1, LetsGo DEF Swap, At, Later, Drops
  <2>2. CASE Matches(row[r], s.read)
    <3> DEFINE t == ToCancel(s, "end")
    <3>1. /\ t.step = "cancel" /\ t.why = "end" /\ t.read = s.read
          /\ t.files = s.read.files \cup s.read.left
      BY <1>1, CancelIs
    <3> HIDE DEF t
    <3>2. /\ new.status = "failed" /\ new.ext = row[r].ext /\ new.files = row[r].files
      BY <1>1 DEF WithStatus, MistralRow
    <3> HIDE DEF new
    <3>3. row'[r] = new /\ \A q \in Rows \ {r} : row'[q] = row[q]
      BY <1>1, <1>5, <2>2 DEF Swap
    <3>4. RowOK(new) /\ Later(row[r], new)
      BY <1>1, <1>3, <2>2, <3>2, StatusFacts DEF RowOK, Later, Matches
    <3>5. JudgeOK(t, new) /\ ~Held(t)
      BY <1>3, <3>1, <3>2 DEF JudgeOK, Held
    <3>6. (p = "wave" => WaveOK(r, t, new, subs')) /\ (p = "sweep" => SweepOK(r, t, new, results'))
      BY <3>1, <3>5, JudgedIs DEF Judged
    <3>7. Becomes(p, r, t)
      BY <1>5, <2>2 DEF t
    <3> QED
      BY <1>1, <3>3, <3>4, <3>5, <3>6, <3>7, LoopMoves DEF At
  <2> QED
    BY <2>1, <2>2
<1> QED
  BY <1>4, <1>5 DEF Verdict

\* The row, and the slot that goes on to the deletes.
LEMMA CancelNames ==
  ASSUME LoopInv, NEW p \in {"wave", "sweep", "web"}, NEW r \in Rows, Cancel(p, r)
  PROVE  \E t : LET s == hand[p][r] IN
           /\ Becomes(p, r, t) /\ t.step = "delete" /\ t.why = s.why /\ t.files = s.files
           /\ t.left = s.left
           /\ t.read.status = s.read.status /\ t.read.attempt = s.read.attempt
           /\ t.read.at = s.read.at
           /\ \A q \in Rows \ {r} : row'[q] = row[q]
           /\ LedgerOnly(row[r], row'[r])
           /\ row[r] = s.read => row'[r] = t.read
           /\ row[r].files \subseteq s.files => row'[r].files = {}
           /\ t.read.files = {}
           /\ t.read.left \subseteq row[r].left \cup s.files \cup s.read.left
           /\ \/ row'[r].left = row[r].left \cup s.files /\ row'[r].files = {}
              \/ s.files = {} /\ UNCHANGED row
<1> DEFINE s == hand[p][r]
           named == NamedForDeletion(row[r], s.files)
           t == [s EXCEPT !.step = "delete", !.read = Refreshed(@, named)]
<1>1. /\ s \in Slot /\ s.read \in MistralRow /\ row[r] \in MistralRow
      /\ row \in [Rows -> MistralRow] /\ s.files \in SUBSET Files
  BY Parts DEF Slot, LoopInv, TInv, TypeOK
<1>2. CASE s.files = {} /\ s.read.files = {} /\ UNCHANGED row /\ Becomes(p, r, Goes(s, "delete"))
  <2>1. /\ Goes(s, "delete").step = "delete" /\ Goes(s, "delete").why = s.why
        /\ Goes(s, "delete").files = s.files /\ Goes(s, "delete").read = s.read
        /\ Goes(s, "delete").left = s.left
    BY <1>1 DEF Goes, Slot
  <2> WITNESS Goes(s, "delete")
  <2> QED
    BY <1>2, <2>1 DEF LedgerOnly
<1>3. CASE row' = [row EXCEPT ![r] = named] /\ Becomes(p, r, t)
  <2>1. /\ named.status = row[r].status /\ named.ext = row[r].ext
        /\ named.attempt = row[r].attempt /\ named.key = row[r].key
        /\ named.files = {} /\ named.left = row[r].left \cup s.files
        /\ Refreshed(row[r], named) = named
    BY <1>1, LedgerWrites, LedgerSets
  <2>2. LET f == Refreshed(s.read, named) IN
        /\ f.status = s.read.status /\ f.attempt = s.read.attempt /\ f.at = s.read.at
        /\ f.files = named.files /\ f.left = named.left
    BY <1>1, CopyWrites
  <2> HIDE DEF named
  <2>3. /\ t.step = "delete" /\ t.why = s.why /\ t.files = s.files /\ t.left = s.left
        /\ t.read = Refreshed(s.read, named)
    BY <1>1 DEF Slot
  <2>4. row'[r] = named /\ \A q \in Rows \ {r} : row'[q] = row[q]
    BY <1>1, <1>3
  <2> HIDE DEF t
  <2> WITNESS t
  <2> QED
    BY <1>3, <2>1, <2>2, <2>3, <2>4 DEF LedgerOnly
<1> QED
  BY <1>2, <1>3 DEF Cancel

LEMMA CancelLoops ==
  ASSUME LoopInv, NEW r \in Rows, NEW p \in {"wave", "sweep", "web"}, Cancel(p, r), Grow
  PROVE  LInv'
<1> DEFINE s == hand[p][r]
<1>1. PICK t :
        /\ Becomes(p, r, t) /\ t.step = "delete" /\ t.why = s.why
        /\ t.read.status = s.read.status /\ t.read.attempt = s.read.attempt
        /\ t.read.at = s.read.at
        /\ \A q \in Rows \ {r} : row'[q] = row[q]
        /\ LedgerOnly(row[r], row'[r])
        /\ row[r] = s.read => row'[r] = t.read
        /\ row[r].files \subseteq s.files => row'[r].files = {}
        /\ t.read.files = {}
  BY CancelNames
<1>2. s.step = "cancel" /\ RowOK(row[r])
  BY Parts DEF Cancel, At
<1>3. RowOK(row'[r]) /\ Later(row[r], row'[r])
  BY <1>1, <1>2, LedgerIsOK
<1>4. CASE p = "web"
  <2>1. WebOK(s, row[r])
    BY <1>4, Parts
  <2>2. WebOK(t, row'[r])
    BY <1>1, <1>2, <1>3, <2>1 DEF WebOK, Later
  <2> QED
    BY <1>1, <1>2, <1>3, <1>4, <2>2, WebMoves DEF At
<1>5. CASE p \in {"wave", "sweep"}
  <2>1. JudgeOK(s, row[r])
    BY <1>5, Parts
  <2>2. /\ s.why \in {"retry", "end"} /\ row'[r].files = {}
        /\ Held(s) => Follows(row[r], s) /\ s.read.status \in InFlight \cup {"pending"}
    BY <1>1, <1>2, <2>1 DEF JudgeOK
  <2>3. Held(t) => Held(s)
    BY <1>1, <1>2 DEF Held
  <2>4. Held(t) => Follows(row'[r], t)
    BY <1>1, <2>2, <2>3 DEF Follows, LedgerOnly
  <2>5. JudgeOK(t, row'[r])
    BY <1>1, <2>2, <2>3, <2>4 DEF JudgeOK
  <2>6. /\ p = "wave" => WaveOK(r, t, row'[r], subs')
        /\ p = "sweep" => SweepOK(r, t, row'[r], results')
    BY <1>1, <1>2, <1>5, <2>3, JudgedIs DEF Judged, LedgerOnly
  <2> QED
    BY <1>1, <1>2, <1>3, <1>5, <2>5, <2>6, LoopMoves DEF At
<1> QED
  BY <1>4, <1>5

LEMMA DeleteLoops ==
  ASSUME LoopInv, NEW r \in Rows, NEW p \in {"wave", "sweep", "web"}, Delete(p, r), Grow
  PROVE  LInv'
<1> DEFINE s == hand[p][r]
           read(kept) == AfterCarry(r, s.read, s.files, kept)
           done(kept) == [s EXCEPT !.read = read(kept)]
<1>1. /\ s \in Slot /\ s.read \in MistralRow /\ s.files \in SUBSET Files
      /\ RowOK(row[r]) /\ s.step = "delete"
  BY Parts DEF Delete, At, Slot
<1>2. PICK kept \in Kept(s.files) :
        /\ Carry(r, s.read, s.files, kept)
        /\ Becomes(p, r, CASE s.why = "retry" -> Goes(done(kept), "rewrite")
                           [] s.why = "late"  -> ToVerdict(done(kept), "retry")
                           [] OTHER           -> Idle)
  BY DEF Delete
<1>3. kept \in SUBSET Files
  BY <1>1, <1>2, FileFacts
<1>4. /\ \A q \in Rows \ {r} : row'[q] = row[q]
      /\ CarriesOver(row[r], row'[r], s.read, read(kept), s.files, kept)
  BY <1>1, <1>2, <1>3, CarryMoves
<1>5. /\ LedgerOnly(row[r], row'[r]) /\ row'[r].files = row[r].files
      /\ read(kept).status = s.read.status /\ read(kept).attempt = s.read.attempt
      /\ read(kept).at = s.read.at
      /\ row[r] = s.read => row'[r] = read(kept)
      /\ row[r].files \subseteq s.read.files \cup s.read.left
           => row'[r].files \subseteq read(kept).files \cup read(kept).left
      /\ row[r].files = {} /\ s.read.files = {} => read(kept).files = {}
  BY <1>4 DEF CarriesOver
<1>6. RowOK(row'[r]) /\ Later(row[r], row'[r])
  BY <1>1, <1>5, LedgerIsOK
<1> HIDE DEF read
<1> DEFINE again == Goes(done(kept), "rewrite")
           late  == ToVerdict(done(kept), "retry")
<1>7. /\ again.step = "rewrite" /\ again.why = s.why /\ again.read = read(kept)
      /\ late.step = "verdict" /\ late.why = "retry" /\ late.read = read(kept)
  BY <1>1 DEF Goes, ToVerdict, Slot
<1>8. CASE s.why \notin {"retry", "late"}
  <2>1. Becomes(p, r, Idle)
    BY <1>2, <1>8
  <2>2. CASE p = "web"
    BY <1>1, <1>4, <1>6, <2>1, <2>2, WebMoves, IdleIsOK DEF At
  <2>3. CASE p # "web"
    BY <1>1, <1>4, <1>6, <2>1, <2>3, LetsGo DEF At, Drops
  <2> QED
    BY <2>2, <2>3
<1>9. CASE s.why \in {"retry", "late"}
  <2> DEFINE t == IF s.why = "retry" THEN again ELSE late
  <2>1. /\ Becomes(p, r, t) /\ t.read = read(kept)
        /\ s.why = "retry" => t.step = "rewrite" /\ t.why = "retry"
        /\ s.why = "late" => t.step = "verdict" /\ t.why = "retry"
    BY <1>2, <1>7, <1>9
  <2> HIDE DEF t
  <2>2. p \in {"wave", "sweep"} /\ JudgeOK(s, row[r])
    BY <1>1, <1>9, Parts DEF WebOK
  <2>3. /\ Held(s) /\ Follows(row[r], s) /\ s.read.status \in InFlight \cup {"pending"}
        /\ s.why = "retry" => row[r].files = {} /\ s.read.files = {}
        /\ s.why = "late" => row[r].status = "cancelled"
    BY <1>1, <1>9, <2>2 DEF JudgeOK, Held
  <2>4. Follows(row'[r], t)
    <3>1. row[r] = s.read \/ (/\ row'[r].status = "cancelled"
                              /\ row'[r].attempt = s.read.attempt
                              /\ row[r].files \subseteq s.read.files \cup s.read.left)
      BY <1>5, <2>3 DEF Follows, LedgerOnly
    <3> QED
      BY <1>5, <2>1, <3>1 DEF Follows
  <2>5. JudgeOK(t, row'[r])
    BY <1>5, <1>9, <2>1, <2>3, <2>4 DEF JudgeOK
  <2>6. /\ p = "wave" => WaveOK(r, t, row'[r], subs')
        /\ p = "sweep" => SweepOK(r, t, row'[r], results')
    BY <1>1, <1>5, <1>9, <2>1, <2>2, <2>3, JudgedIs DEF Judged, LedgerOnly
  <2> QED
    BY <1>1, <1>4, <1>6, <2>1, <2>2, <2>5, <2>6, LoopMoves DEF At
<1> QED
  BY <1>8, <1>9

LEMMA RewriteLoops ==
  ASSUME LoopInv, NEW r \in Rows, NEW p \in {"wave", "sweep", "web"}, Rewrite(p, r), Grow
  PROVE  LInv'
<1> DEFINE s == hand[p][r]
           new == NextAttempt(row[r], s.read)
<1>1. /\ s \in Slot /\ s.step = "rewrite" /\ p \in {"wave", "sweep"} /\ JudgeOK(s, row[r])
      /\ RowOK(row[r]) /\ row[r] \in MistralRow /\ row \in [Rows -> MistralRow]
      /\ Swap(r, s.read, new) /\ Drops(p, r)
  BY Parts DEF Rewrite, At, WebOK, LoopInv, TInv, TypeOK
<1>2. Held(s) /\ s.read.files = {}
  BY <1>1 DEF JudgeOK, Held
<1>3. new.status = "pending" /\ new.ext = NoId /\ new.files = {}
  BY <1>1, <1>2 DEF NextAttempt, Retried, MistralRow
<1> HIDE DEF new
<1>4. /\ \A t \in Rows \ {r} : row'[t] = row[t]
      /\ row'[r] = IF Matches(row[r], s.read) THEN new ELSE row[r]
  BY <1>1 DEF Swap
<1>5. Matches(row[r], s.read) => row[r].status # "cancelled"
  BY <1>1, <1>2, HeldIs DEF Matches
<1>6. RowOK(row'[r]) /\ Later(row[r], row'[r])
  BY <1>1, <1>3, <1>4, <1>5, StatusFacts DEF RowOK, Later
<1> QED
  BY <1>1, <1>4, <1>6, LetsGo DEF At

-----------------------------------------------------------------------------
(* The sweep.                                                              *)

\* The sweep judges the row it looks at.
LEMMA SweepJudges ==
  ASSUME LoopInv, NEW r \in Rows, NEW t, Becomes("sweep", r, t), ~At("sweep", r, "idle"), Grow,
         \A q \in Rows \ {r} : row'[q] = row[q], RowOK(row'[r]), Later(row[r], row'[r]),
         t.step = "verdict", t.why \in {"retry", "fail"},
         t.read.status \in InFlight \cup {"pending"}, Follows(row'[r], t)
  PROVE  LInv'
<1>1. JudgeOK(t, row'[r])
  BY DEF JudgeOK
<1>2. SweepOK(r, t, row'[r], results')
  BY DEF SweepOK, Looking, Judged
<1> QED
  BY <1>1, <1>2, LoopMoves

\* It goes on looking, the row untouched.
LEMMA SweepLooks ==
  ASSUME LoopInv, NEW r \in Rows, NEW step \in {"lost", "discard", "harvest", "stored"},
         Becomes("sweep", r, Goes(hand["sweep"][r], step)), hand["sweep"][r].step \in Looking,
         Grow, UNCHANGED row,
         step \in {"lost", "discard"} => hand["sweep"][r].read.ext = NoId,
         step \in {"harvest", "stored"} => hand["sweep"][r].read.ext # NoId,
         step = "stored" => <<r, hand["sweep"][r].read.attempt>> \in results'
  PROVE  LInv'
<1> DEFINE s == hand["sweep"][r]
           t == Goes(s, step)
<1>1. /\ JudgeOK(s, row[r]) /\ SweepOK(r, s, row[r], results) /\ s \in Slot /\ RowOK(row[r])
  BY Parts
<1>2. t.step = step /\ t.read = s.read /\ t.why = s.why
  BY <1>1 DEF Goes, Slot
<1> HIDE DEF t
<1>3. Held(s) /\ s.step # "idle"
  BY <1>1 DEF JudgeOK, Held, Looking
<1>4. JudgeOK(t, row[r])
  BY <1>1, <1>2, <1>3 DEF JudgeOK, Held, Follows
<1>5. SweepOK(r, t, row[r], results')
  BY <1>1, <1>2 DEF SweepOK, Looking
<1> QED
  BY <1>1, <1>3, <1>4, <1>5, LoopMoves DEF At, Later, t

\* The slot of a row the sweep looks at.
LEMMA LookingIs ==
  ASSUME LoopInv, NEW r \in Rows, hand["sweep"][r].step \in Looking
  PROVE  LET s == hand["sweep"][r] IN
         /\ Held(s) /\ ~At("sweep", r, "idle") /\ s \in Slot /\ s.read \in MistralRow
         /\ s.read.status \in InFlight /\ s.read.key = s.read.attempt
         /\ Follows(row[r], s) /\ RowOK(row[r]) /\ row[r] \in MistralRow
         /\ row \in [Rows -> MistralRow]
<1>1. JudgeOK(hand["sweep"][r], row[r]) /\ SweepOK(r, hand["sweep"][r], row[r], results)
  BY Parts
<1>2. Held(hand["sweep"][r])
  BY <1>1 DEF JudgeOK, Held, Looking
<1> QED
  BY <1>1, <1>2, Parts DEF JudgeOK, SweepOK, Looking, At, LoopInv, TInv, TypeOK

LEMMA VerdictIs ==
  ASSUME NEW s \in Slot, NEW why
  PROVE  /\ ToVerdict(s, why).step = "verdict" /\ ToVerdict(s, why).why = why
         /\ ToVerdict(s, why).read = s.read
BY DEF ToVerdict, Slot

LEMMA VerdictOver ==
  ASSUME NEW s \in Slot, NEW why, NEW read
  PROVE  LET t == ToVerdict([s EXCEPT !.read = read], why) IN
         t.step = "verdict" /\ t.why = why /\ t.read = read
BY DEF ToVerdict, Slot

\* The deadline alone is judged, the row untouched.
LEMMA EndsLoops ==
  ASSUME LoopInv, NEW r \in Rows, hand["sweep"][r].step \in Looking, Grow, UNCHANGED row,
         Becomes("sweep", r, Ends(hand["sweep"][r], "retry"))
  PROVE  LInv'
<1> DEFINE s == hand["sweep"][r]
<1>1. CASE IsOverdue(s.read)
  <2>1. Becomes("sweep", r, ToVerdict(s, "retry"))
    BY <1>1 DEF Ends
  <2> DEFINE t == ToVerdict(s, "retry")
  <2>2. /\ s \in Slot /\ ~At("sweep", r, "idle") /\ s.read.status \in InFlight
        /\ Follows(row[r], s) /\ RowOK(row[r])
    BY LookingIs
  <2>3. t.step = "verdict" /\ t.why = "retry" /\ t.read = s.read
    BY <2>2, VerdictIs
  <2> HIDE DEF t
  <2>4. Follows(row[r], t) /\ t.read.status \in InFlight
    BY <2>2, <2>3 DEF Follows
  <2> QED
    BY <2>1, <2>2, <2>3, <2>4, SweepJudges DEF Later, t
<1>2. CASE ~IsOverdue(s.read)
  BY <1>2, LookingIs, LetsGo DEF Ends, Drops, Later
<1> QED
  BY <1>1, <1>2

LEMMA LookLoops ==
  ASSUME LoopInv, NEW r \in Rows, LookClaim(r) \/ LookAgain(r), Grow PROVE LInv'
<1> DEFINE s == hand["sweep"][r]
<1>1. CASE LookClaim(r)
  <2>1. s.step \in Looking /\ s.read.ext = NoId /\ UNCHANGED row
    BY <1>1 DEF LookClaim, Turn, At, Looking
  <2>2. CASE Drops("sweep", r)
    BY <2>1, <2>2, LookingIs, LetsGo DEF Later
  <2>3. CASE Becomes("sweep", r, Goes(s, "lost"))
    BY <2>1, <2>3, SweepLooks
  <2> QED
    BY <1>1, <2>2, <2>3 DEF LookClaim
<1>2. CASE LookAgain(r)
  <2>1. s.step = "lost" /\ UNCHANGED row
    BY <1>2 DEF LookAgain, At
  <2>2. s.step \in Looking /\ s.read.ext = NoId
    BY <2>1, Parts DEF SweepOK, Looking
  <2>3. CASE Becomes("sweep", r, Idle)
    BY <2>1, <2>2, <2>3, LookingIs, LetsGo DEF Later, Drops
  <2>4. CASE Becomes("sweep", r, Goes(s, "discard"))
    BY <2>1, <2>2, <2>4, SweepLooks
  <2> QED
    BY <1>2, <2>3, <2>4 DEF LookAgain
<1> QED
  BY <1>1, <1>2

LEMMA DiscardLoops == ASSUME LoopInv, NEW r \in Rows, Discard(r), Grow PROVE LInv'
<1> DEFINE s == hand["sweep"][r]
           tried == Found(r, s.read) \cup s.read.left
           read(kept) == AfterCarry(r, s.read, tried, kept)
           t(kept) == ToVerdict([s EXCEPT !.read = read(kept)], "retry")
<1>1. s.step \in Looking
  BY DEF Discard, At, Looking
<1>2. /\ Held(s) /\ ~At("sweep", r, "idle") /\ s \in Slot /\ s.read \in MistralRow
      /\ s.read.status \in InFlight /\ Follows(row[r], s) /\ RowOK(row[r])
  BY <1>1, LookingIs
<1>3. tried \in SUBSET Files
  BY <1>2, Same DEF Found, MistralRow, LoopInv
<1> HIDE DEF tried
<1>4. CASE Drops("sweep", r) /\ UNCHANGED <<row, files>>
  BY <1>2, <1>4, LetsGo DEF Later
<1>5. ASSUME NEW kept \in Kept(tried), Carry(r, s.read, tried, kept), Becomes("sweep", r, t(kept))
      PROVE  LInv'
  <2>1. kept \in SUBSET Files
    BY <1>3, FileFacts
  <2>2. /\ \A q \in Rows \ {r} : row'[q] = row[q]
        /\ CarriesOver(row[r], row'[r], s.read, read(kept), tried, kept)
    BY <1>2, <1>3, <1>5, <2>1, CarryMoves
  <2> HIDE DEF read
  <2>3. t(kept).step = "verdict" /\ t(kept).why = "retry" /\ t(kept).read = read(kept)
    BY <1>2, VerdictOver
  <2> HIDE DEF t
  <2>4. RowOK(row'[r]) /\ Later(row[r], row'[r])
    BY <1>2, <2>2, LedgerIsOK DEF CarriesOver
  <2>5. Follows(row'[r], t(kept)) /\ t(kept).read.status \in InFlight
    BY <1>2, <2>2, <2>3 DEF Follows, CarriesOver, LedgerOnly
  <2> QED
    BY <1>2, <1>5, <2>2, <2>3, <2>4, <2>5, SweepJudges
<1> QED
  BY <1>4, <1>5 DEF Discard, tried

LEMMA NameOutputsLoops ==
  ASSUME LoopInv, NEW r \in Rows, NEW why \in {"retry", "fail"}, Grow,
         hand["sweep"][r].step \in Looking, NameOutputs(r, hand["sweep"][r], why)
  PROVE  LInv'
<1> DEFINE s == hand["sweep"][r]
           named == Naming(row[r], Outputs(s.read))
           read == Refreshed(s.read, named)
           t == ToVerdict([s EXCEPT !.read = read], why)
<1>1. /\ s \in Slot /\ ~At("sweep", r, "idle") /\ s.read \in MistralRow
      /\ s.read.status \in InFlight /\ Follows(row[r], s) /\ RowOK(row[r])
      /\ row[r] \in MistralRow /\ row \in [Rows -> MistralRow]
  BY LookingIs
<1>2. CASE UNCHANGED row /\ Becomes("sweep", r, ToVerdict(s, why))
  <2> DEFINE u == ToVerdict(s, why)
  <2>1. u.step = "verdict" /\ u.why = why /\ u.read = s.read
    BY <1>1, VerdictIs
  <2> HIDE DEF u
  <2>2. Follows(row[r], u) /\ u.read.status \in InFlight
    BY <1>1, <2>1 DEF Follows
  <2> QED
    BY <1>1, <1>2, <2>1, <2>2, SweepJudges DEF Later, u
<1>3. CASE row' = [row EXCEPT ![r] = named] /\ Becomes("sweep", r, t)
  <2>1. /\ named.status = row[r].status /\ named.ext = row[r].ext
        /\ named.attempt = row[r].attempt /\ named.key = row[r].key
        /\ named.files = row[r].files /\ Refreshed(row[r], named) = named
    BY <1>1 DEF Naming, Refreshed, MistralRow
  <2>2. /\ read.status = s.read.status /\ read.attempt = s.read.attempt
        /\ read.files = named.files /\ read.left = named.left
    BY <1>1 DEF Refreshed, MistralRow
  <2>3. row[r] = s.read => named = read
    BY <2>1
  <2> HIDE DEF named, read
  <2>4. t.step = "verdict" /\ t.why = why /\ t.read = read
    BY <1>1 DEF ToVerdict, Slot
  <2> HIDE DEF t
  <2>5. row'[r] = named /\ \A q \in Rows \ {r} : row'[q] = row[q]
    BY <1>1, <1>3
  <2>6. RowOK(named) /\ Later(row[r], named)
    BY <1>1, <2>1, LedgerIsOK DEF LedgerOnly
  <2>7. Follows(named, t) /\ t.read.status \in InFlight
    BY <1>1, <2>1, <2>2, <2>3, <2>4 DEF Follows
  <2> QED
    BY <1>1, <1>3, <2>4, <2>5, <2>6, <2>7, SweepJudges
<1> QED
  BY <1>2, <1>3 DEF NameOutputs

LEMMA PollLoops == ASSUME LoopInv, NEW r \in Rows, Poll(r), Grow PROVE LInv'
<1> DEFINE s == hand["sweep"][r]
           fresh == WithStatus(s.read, "in_progress")
           mine == [s EXCEPT !.read = fresh]
           new == Refreshed(WithStatus(row[r], "in_progress"), s.read)
<1>1. s.step \in Looking /\ s.step = "swept" /\ s.read.ext # NoId
  BY DEF Poll, Turn, At, Looking
<1>2. /\ Held(s) /\ s \in Slot /\ ~At("sweep", r, "idle") /\ s.read \in MistralRow
      /\ s.read.status \in InFlight /\ s.read.key = s.read.attempt
      /\ Follows(row[r], s) /\ RowOK(row[r])
      /\ row[r] \in MistralRow /\ row \in [Rows -> MistralRow]
  BY <1>1, LookingIs
<1>3. CASE Becomes("sweep", r, Ends(s, "retry")) /\ UNCHANGED row
  BY <1>1, <1>3, EndsLoops
<1>4. CASE Becomes("sweep", r, Goes(s, "harvest")) /\ UNCHANGED row
  BY <1>1, <1>4, SweepLooks
<1>5. CASE NameOutputs(r, s, "retry") \/ NameOutputs(r, s, "fail")
  BY <1>1, <1>5, NameOutputsLoops
<1>6. CASE /\ Swap(r, s.read, new)
           /\ Becomes("sweep", r, IF Matches(row[r], s.read) THEN Ends(mine, "retry") ELSE Idle)
  <2>1. CASE ~Matches(row[r], s.read)
    BY <1>2, <1>6, <2>1, LetsGo DEF Swap, Later, Drops
  <2>2. CASE Matches(row[r], s.read)
    <3>1. row[r] = s.read
      BY <1>2, <2>2, HeldIs
    <3>2. /\ new = fresh /\ fresh.status = "in_progress" /\ fresh.ext = s.read.ext
          /\ fresh.key = s.read.key /\ fresh.attempt = s.read.attempt
      BY <1>2, <3>1 DEF WithStatus, Refreshed, MistralRow
    <3>3. row' = [row EXCEPT ![r] = new] /\ Becomes("sweep", r, Ends(mine, "retry"))
      BY <1>6, <2>2 DEF Swap
    <3> HIDE DEF new, fresh
    <3>4. row'[r] = fresh /\ \A q \in Rows \ {r} : row'[q] = row[q]
      BY <1>2, <3>2, <3>3
    <3>5. RowOK(fresh) /\ Later(row[r], fresh)
      BY <1>1, <1>2, <3>1, <3>2, StatusFacts DEF RowOK, Later
    <3>6. CASE Becomes("sweep", r, Idle)
      BY <1>2, <3>4, <3>5, <3>6, LetsGo DEF Drops
    <3>7. CASE Becomes("sweep", r, ToVerdict(mine, "retry"))
      <4> DEFINE t == ToVerdict(mine, "retry")
      <4>1. t.step = "verdict" /\ t.why = "retry" /\ t.read = fresh
        BY <1>2, VerdictOver
      <4> HIDE DEF t
      <4>2. Follows(fresh, t) /\ t.read.status \in InFlight
        BY <3>2, <4>1, StatusFacts DEF Follows
      <4> QED
        BY <1>2, <3>4, <3>5, <3>7, <4>1, <4>2, SweepJudges DEF t
    <3> QED
      BY <3>3, <3>6, <3>7 DEF Ends
  <2> QED
    BY <2>1, <2>2
<1> QED
  BY <1>3, <1>4, <1>5, <1>6 DEF Poll

LEMMA HarvestLoops == ASSUME LoopInv, NEW r \in Rows, Harvest(r), Grow PROVE LInv'
<1> DEFINE s == hand["sweep"][r]
<1>1. s.step \in Looking /\ s.step = "harvest"
  BY DEF Harvest, At, Looking
<1>2. s.read.ext # NoId /\ s.read.key = s.read.attempt
  BY <1>1, Parts DEF SweepOK
<1>3. CASE results' = results \cup {<<r, s.read.key>>}
           /\ Becomes("sweep", r, Goes(s, "stored")) /\ UNCHANGED row
  <2>1. <<r, s.read.attempt>> \in results'
    BY <1>2, <1>3
  <2> QED
    BY <1>1, <1>2, <1>3, <2>1, SweepLooks
<1>4. CASE Becomes("sweep", r, Ends(s, "retry")) /\ UNCHANGED <<row, results>>
  BY <1>1, <1>4, EndsLoops
<1>5. CASE NameOutputs(r, s, "retry")
  BY <1>1, <1>5, NameOutputsLoops
<1> QED
  BY <1>3, <1>4, <1>5 DEF Harvest

LEMMA CompleteLoops == ASSUME LoopInv, NEW r \in Rows, Complete(r), Grow PROVE LInv'
<1> DEFINE s == hand["sweep"][r]
           all == s.read.files \cup s.read.left \cup Outputs(s.read)
           new == [row[r] EXCEPT !.status = "completed", !.files = {}, !.left = all]
           over == [s EXCEPT !.step = "delete", !.read.files = {}, !.read.left = all]
           mine == [over EXCEPT !.files = all, !.why = "end", !.read.status = "completed"]
           lost == [over EXCEPT !.files = Outputs(s.read),
                                !.why = IF IsOverdue(s.read) THEN "late" ELSE "end"]
<1>1. s.step \in Looking /\ s.step = "stored"
  BY DEF Complete, At, Looking
<1>2. /\ Held(s) /\ s \in Slot /\ ~At("sweep", r, "idle") /\ s.read \in MistralRow
      /\ s.read.status \in InFlight /\ Follows(row[r], s) /\ RowOK(row[r])
      /\ row[r] \in MistralRow /\ row \in [Rows -> MistralRow]
  BY <1>1, LookingIs
<1>3. CASE Matches(row[r], s.read)
  <2>1. row' = [row EXCEPT ![r] = new] /\ Becomes("sweep", r, mine)
    BY <1>3 DEF Complete
  <2>2. new.status = "completed" /\ new.files = {}
    BY <1>2 DEF MistralRow
  <2>3. mine.step = "delete" /\ mine.why = "end"
    BY <1>2 DEF Slot
  <2> HIDE DEF new, mine
  <2>4. row'[r] = new /\ \A q \in Rows \ {r} : row'[q] = row[q]
    BY <1>2, <2>1
  <2>5. RowOK(new) /\ Later(row[r], new)
    BY <1>2, <1>3, <2>2, HeldIs, StatusFacts DEF RowOK, Later, Matches
  <2>6. JudgeOK(mine, new) /\ SweepOK(r, mine, new, results')
    BY <2>3 DEF JudgeOK, SweepOK, Held, Looking, Judged
  <2> QED
    BY <1>2, <2>1, <2>4, <2>5, <2>6, LoopMoves
<1>4. CASE ~Matches(row[r], s.read)
  <2>1. UNCHANGED row /\ Becomes("sweep", r, lost)
    BY <1>4 DEF Complete
  <2>2. /\ lost.step = "delete" /\ lost.why \in {"late", "end"} /\ lost.read.left = all
        /\ lost.read.status = s.read.status /\ lost.read.attempt = s.read.attempt
    BY <1>2 DEF Slot, MistralRow
  <2> HIDE DEF lost
  <2>3. /\ row[r].status = "cancelled" /\ row[r].attempt = s.read.attempt
        /\ row[r].files \subseteq s.read.files \cup s.read.left
    BY <1>2, <1>4 DEF Follows, Matches
  <2>4. Follows(row[r], lost)
    BY <2>2, <2>3 DEF Follows
  <2>5. JudgeOK(lost, row[r]) /\ SweepOK(r, lost, row[r], results')
    BY <1>2, <2>2, <2>3, <2>4 DEF JudgeOK, SweepOK, Held, Looking, Judged
  <2> QED
    BY <1>2, <2>1, <2>5, LoopMoves DEF Later
<1> QED
  BY <1>3, <1>4

-----------------------------------------------------------------------------
(* What starts a hold on a row, and what changes rows from outside.        *)

LEMMA WaveReadLoops ==
  ASSUME LoopInv, Serial, NEW r \in Rows, WaveRead(r), Grow PROVE LInv'
<1> DEFINE t == [Idle EXCEPT !.step = "read", !.read = row[r]]
<1>1. /\ t.step = "read" /\ t.read = row[r] /\ t.why = "none"
      /\ row[r].status = "pending" /\ Becomes("wave", r, t) /\ UNCHANGED row
  BY IdleFacts DEF WaveRead, Slot
<1> HIDE DEF t
<1>2. /\ hand'["wave"][r] = t
      /\ \A q \in Processes, u \in Rows : q # "wave" \/ u # r => hand'[q][u] = hand[q][u]
  BY <1>1, SlotIs, Names
<1>3. \A u \in Rows : hand["wave"][u].step = "idle" /\ hand["sweep"][u].step = "idle"
  BY DEF WaveRead, SubmitIdle, SweepDone, Free, At
<1>4. OneLoop'
  BY <1>2, <1>3, Names DEF OneLoop, Free, At
<1>5. JudgeOK(t, row[r]) /\ WaveOK(r, t, row[r], subs')
  BY <1>1, Parts DEF JudgeOK, WaveOK, Held, Follows, RowOK
<1>6. ASSUME NEW u \in Rows
      PROVE  /\ RowOK(row'[u])
             /\ JudgeOK(hand'["wave"][u], row'[u]) /\ WaveOK(u, hand'["wave"][u], row'[u], subs')
             /\ JudgeOK(hand'["sweep"][u], row'[u])
             /\ SweepOK(u, hand'["sweep"][u], row'[u], results')
             /\ WebOK(hand'["web"][u], row'[u])
  <2>1. hand'["sweep"][u] = hand["sweep"][u] /\ hand'["web"][u] = hand["web"][u]
    BY <1>2, Names
  <2>2. CASE u # r
    <3>1. hand'["wave"][u] = hand["wave"][u]
      BY <1>2, <2>2, Names
    <3> QED
      BY <1>1, <2>1, <3>1, Parts, GrownIsOK
  <2>3. CASE u = r
    BY <1>1, <1>2, <1>5, <2>1, <2>3, Parts, GrownIsOK
  <2> QED
    BY <2>2, <2>3
<1> QED
  BY <1>4, <1>6 DEF LInv, RowOK, JudgeOK, WaveOK, SweepOK, WebOK, Held, Follows

\* The sweep takes rows up while the wave holds none.
LEMMA SweepStarts ==
  ASSUME LoopInv, Serial, SweepDone, Grow, UNCHANGED row,
         \A p \in Processes \ {"sweep"}, r \in Rows : hand'[p][r] = hand[p][r],
         \A r \in Rows : \/ hand'["sweep"][r].step = "idle" /\ hand'["sweep"][r] = Idle
                         \/ hand'["sweep"][r] = hand["sweep"][r]
                         \/ /\ JudgeOK(hand'["sweep"][r], row[r])
                            /\ SweepOK(r, hand'["sweep"][r], row[r], results')
  PROVE  LInv'
<1>1. \A r \in Rows : /\ hand'["wave"][r] = hand["wave"][r] /\ hand'["web"][r] = hand["web"][r]
                      /\ hand["wave"][r].step = "idle"
  BY Names DEF SweepDone, SubmitIdle, Free, At
<1>2. OneLoop'
  BY <1>1 DEF OneLoop, Free, At
<1>3. ASSUME NEW r \in Rows
      PROVE  /\ RowOK(row'[r])
             /\ JudgeOK(hand'["wave"][r], row'[r]) /\ WaveOK(r, hand'["wave"][r], row'[r], subs')
             /\ JudgeOK(hand'["sweep"][r], row'[r])
             /\ SweepOK(r, hand'["sweep"][r], row'[r], results')
             /\ WebOK(hand'["web"][r], row'[r])
  <2>1. /\ RowOK(row'[r]) /\ WebOK(hand'["web"][r], row'[r])
        /\ JudgeOK(hand'["wave"][r], row'[r]) /\ WaveOK(r, hand'["wave"][r], row'[r], subs')
    BY <1>1, Parts, GrownIsOK
  <2>2. JudgeOK(hand'["sweep"][r], row'[r]) /\ SweepOK(r, hand'["sweep"][r], row'[r], results')
    <3>1. CASE hand'["sweep"][r] = Idle
      BY <3>1, IdleIsOK
    <3>2. CASE hand'["sweep"][r] = hand["sweep"][r]
      BY <3>2, Parts, GrownIsOK
    <3> QED
      BY <3>1, <3>2
  <2> QED
    BY <2>1, <2>2
<1> QED
  BY <1>2, <1>3 DEF LInv, RowOK, JudgeOK, WaveOK, SweepOK, WebOK, Held, Follows

LEMMA SweepReadLoops == ASSUME LoopInv, Serial, SweepRead, Grow PROVE LInv'
<1> DEFINE s(r) == [Idle EXCEPT !.step = "swept", !.read = row[r]]
<1>1. /\ SweepDone /\ UNCHANGED row
      /\ hand \in [Processes -> [Rows -> Slot]]
      /\ hand' = [hand EXCEPT !["sweep"] = [r \in Rows |-> IF r \in InFlightRows THEN s(r)
                                                                                 ELSE Idle]]
  BY DEF SweepRead, LoopInv, TInv, TypeOK
<1>2. ASSUME NEW r \in Rows, r \in InFlightRows
      PROVE  JudgeOK(s(r), row[r]) /\ SweepOK(r, s(r), row[r], results')
  <2>1. /\ s(r).step = "swept" /\ s(r).read = row[r] /\ s(r).why = "none"
    BY IdleFacts DEF Slot
  <2> HIDE DEF s
  <2> QED
    BY <1>2, <2>1, Parts DEF JudgeOK, SweepOK, Held, Follows, RowOK, InFlightRows, Looking
<1> HIDE DEF s
<1>3. /\ \A p \in Processes \ {"sweep"}, r \in Rows : hand'[p][r] = hand[p][r]
      /\ \A r \in Rows : hand'["sweep"][r] = IF r \in InFlightRows THEN s(r) ELSE Idle
  BY <1>1, Names
<1> QED
  BY <1>1, <1>2, <1>3, IdleFacts, SweepStarts

LEMMA TailLoops ==
  ASSUME LoopInv, Serial, NEW r \in Rows, StrandedRead(r) \/ LeftoverRead(r), Grow PROVE LInv'
<1> DEFINE held == [Idle EXCEPT !.read = row[r]]
           left == [Idle EXCEPT !.step = "delete", !.read = row[r],
                                !.files = row[r].left, !.why = "end"]
<1>1. /\ held \in Slot /\ held.read = row[r]
      /\ left.step = "delete" /\ left.why = "end"
  BY Parts, IdleFacts DEF Slot
<1>2. PICK s : /\ SweepIs(r, s)
               /\ \/ s = ToVerdict(held, "fail") /\ row[r].status = "pending"
                  \/ s = left
  BY DEF StrandedRead, LeftoverRead
<1>3. JudgeOK(s, row[r]) /\ SweepOK(r, s, row[r], results')
  <2>1. CASE s = left
    BY <1>1, <2>1 DEF JudgeOK, SweepOK, Held, Looking, Judged
  <2>2. CASE s = ToVerdict(held, "fail") /\ row[r].status = "pending"
    <3>1. s.step = "verdict" /\ s.why = "fail" /\ s.read = row[r]
      BY <1>1, <2>2, VerdictIs
    <3> QED
      BY <2>2, <3>1 DEF JudgeOK, SweepOK, Held, Follows, Looking, Judged
  <2> QED
    BY <1>2, <2>1, <2>2
<1>4. /\ hand'["sweep"][r] = s
      /\ \A q \in Processes, t \in Rows : q # "sweep" \/ t # r => hand'[q][t] = hand[q][t]
  BY <1>2, SlotIs, Names DEF SweepIs
<1> QED
  BY <1>2, <1>3, <1>4, SweepStarts, Names DEF SweepIs

LEMMA AbandonHandlesLoops ==
  ASSUME LoopInv, NEW r \in Rows, AbandonHandles(r), Grow PROVE LInv'
<1> DEFINE s == [hand["web"][r] EXCEPT !.read = row[r]]
           t == ToCancel(s, "end")
<1>1. s \in Slot /\ s.read = row[r] /\ hand["web"][r].step = "handles"
  BY Parts DEF Slot, AbandonHandles, At
<1>2. Becomes("web", r, t) /\ UNCHANGED row
  BY DEF AbandonHandles
<1>3. t.step = "cancel" /\ t.why = "end" /\ t.files = row[r].files \cup row[r].left
  BY <1>1, CancelIs
<1> HIDE DEF t
<1>4. RowOK(row[r]) /\ WebOK(hand["web"][r], row[r])
  BY Parts
<1>5. WebOK(t, row[r])
  BY <1>1, <1>3, <1>4 DEF WebOK
<1> QED
  BY <1>1, <1>2, <1>4, <1>5, WebMoves DEF At, Later

\* An abandon takes nothing from a slot that holds the row.
LEMMA AbandonedIsOK ==
  ASSUME NEW cur \in MistralRow, NEW new, new = WithStatus(cur, "cancelled"),
         cur.status \in Open, NEW s, NEW r, NEW log, NEW stored, RowOK(cur)
  PROVE  /\ RowOK(new) /\ new.status = "cancelled"
         /\ JudgeOK(s, cur) => JudgeOK(s, new)
         /\ WaveOK(r, s, cur, log) => WaveOK(r, s, new, log)
         /\ SweepOK(r, s, cur, stored) => SweepOK(r, s, new, stored)
<1>1. /\ new.status = "cancelled" /\ new.attempt = cur.attempt /\ new.ext = cur.ext
      /\ new.files = cur.files
  BY DEF WithStatus, MistralRow
<1>2. cur.status # "cancelled"
  BY DEF Open, InFlight
<1>3. Follows(cur, s) => Follows(new, s)
  BY <1>1, <1>2 DEF Follows
<1>4. RowOK(new)
  BY <1>1, StatusFacts DEF RowOK
<1>5. JudgeOK(s, cur) => JudgeOK(s, new)
  BY <1>1, <1>2, <1>3 DEF JudgeOK
<1> QED
  BY <1>1, <1>4, <1>5 DEF WaveOK, SweepOK

LEMMA AbandonLoops == ASSUME LoopInv, Abandon, Grow PROVE LInv'
<1>1. PICK doomed \in SUBSET Rows :
        /\ \A r \in doomed : row[r].status \in Open
        /\ \A r \in Rows : row'[r] = IF r \in doomed
                                     THEN WithStatus(row[r], "cancelled") ELSE row[r]
        /\ hand' = [hand EXCEPT !["web"] = [r \in Rows |->
                      IF r \in doomed \cap InFlightRows THEN Goes(Idle, "handles") ELSE Idle]]
  BY AbandonIs DEF LoopInv
<1> DEFINE web(r) == IF r \in doomed \cap InFlightRows THEN Goes(Idle, "handles") ELSE Idle
<1>2. /\ hand \in [Processes -> [Rows -> Slot]]
      /\ hand' = [hand EXCEPT !["web"] = [r \in Rows |-> web(r)]]
  BY <1>1 DEF LoopInv, TInv, TypeOK
<1>3. Goes(Idle, "handles").step = "handles" /\ Goes(Idle, "handles").why = "none"
  BY IdleFacts DEF Goes, Slot
<1>4. \A r \in Rows : /\ web(r).step \in {"idle", "handles"}
                      /\ web(r).step = "handles" => r \in doomed
  BY <1>3, IdleFacts
<1> HIDE DEF web
<1>5. \A r \in Rows : /\ hand'["wave"][r] = hand["wave"][r]
                      /\ hand'["sweep"][r] = hand["sweep"][r] /\ hand'["web"][r] = web(r)
  BY <1>2, Names
<1>6. OneLoop'
  BY <1>5 DEF LoopInv, LInv, OneLoop, Free, At
<1>7. ASSUME NEW r \in Rows
      PROVE  /\ RowOK(row'[r])
             /\ JudgeOK(hand'["wave"][r], row'[r]) /\ WaveOK(r, hand'["wave"][r], row'[r], subs')
             /\ JudgeOK(hand'["sweep"][r], row'[r])
             /\ SweepOK(r, hand'["sweep"][r], row'[r], results')
             /\ WebOK(hand'["web"][r], row'[r])
  <2>1. CASE r \in doomed
    <3>1. row'[r] = WithStatus(row[r], "cancelled") /\ row[r].status \in Open
      BY <1>1, <2>1
    <3>2. /\ RowOK(row'[r]) /\ row'[r].status = "cancelled"
          /\ JudgeOK(hand["wave"][r], row'[r]) /\ WaveOK(r, hand["wave"][r], row'[r], subs)
          /\ JudgeOK(hand["sweep"][r], row'[r])
          /\ SweepOK(r, hand["sweep"][r], row'[r], results)
      BY <3>1, Parts, AbandonedIsOK
    <3>3. WebOK(web(r), row'[r])
      BY <1>4, <3>2 DEF WebOK
    <3> QED
      BY <1>5, <3>2, <3>3, GrownIsOK
  <2>2. CASE r \notin doomed
    <3>1. row'[r] = row[r] /\ web(r).step = "idle"
      BY <1>1, <1>4, <2>2
    <3>2. WebOK(web(r), row[r])
      BY <3>1 DEF WebOK
    <3> QED
      BY <1>5, <3>1, <3>2, Parts, GrownIsOK
  <2> QED
    BY <2>1, <2>2
<1> QED
  BY <1>6, <1>7 DEF LInv, RowOK, JudgeOK, WaveOK, SweepOK, WebOK, Held, Follows

\* Nothing but one row changes, and whoever holds it finds it fit.
LEMMA RowLoops ==
  ASSUME LoopInv, NEW r \in Rows, NEW new, row' = [row EXCEPT ![r] = new],
         UNCHANGED <<hand, subs, results>>,
         RowOK(new), JudgeOK(hand["wave"][r], new), WaveOK(r, hand["wave"][r], new, subs),
         JudgeOK(hand["sweep"][r], new), SweepOK(r, hand["sweep"][r], new, results),
         WebOK(hand["web"][r], new)
  PROVE  LInv'
<1>1. row'[r] = new /\ \A t \in Rows \ {r} : row'[t] = row[t]
  BY DEF LoopInv, TInv, TypeOK
<1>2. ASSUME NEW t \in Rows
      PROVE  /\ RowOK(row'[t])
             /\ JudgeOK(hand["wave"][t], row'[t]) /\ WaveOK(t, hand["wave"][t], row'[t], subs)
             /\ JudgeOK(hand["sweep"][t], row'[t])
             /\ SweepOK(t, hand["sweep"][t], row'[t], results)
             /\ WebOK(hand["web"][t], row'[t])
  BY <1>1, Parts
<1>3. OneLoop'
  BY DEF LoopInv, LInv, OneLoop, Free, At
<1> QED
  BY <1>2, <1>3 DEF LInv, RowOK, JudgeOK, WaveOK, SweepOK, WebOK, Held, Follows

LEMMA ConsumeLoops == ASSUME LoopInv, NEW r \in Rows, Consume(r) PROVE LInv'
<1> DEFINE new == WithStatus(row[r], "consumed")
<1>1. /\ row' = [row EXCEPT ![r] = new] /\ UNCHANGED <<hand, subs, results>>
      /\ row[r].status = "completed"
  BY DEF Consume
<1>2. new.status = "consumed" /\ new.ext = row[r].ext /\ new.files = row[r].files
  BY Parts DEF WithStatus, MistralRow
<1> HIDE DEF new
<1>3. RowOK(new) /\ WebOK(hand["web"][r], new)
  BY <1>1, <1>2, Parts, StatusFacts DEF RowOK, WebOK
<1>4. ASSUME NEW p \in {"wave", "sweep"} PROVE JudgeOK(hand[p][r], new)
  <2>1. JudgeOK(hand[p][r], row[r])
    BY Parts
  <2>2. ~Held(hand[p][r])
    BY <1>1, <2>1, StatusFacts DEF JudgeOK, Follows
  <2> QED
    BY <1>1, <1>2, <2>1, <2>2 DEF JudgeOK
<1>5. WaveOK(r, hand["wave"][r], new, subs) /\ SweepOK(r, hand["sweep"][r], new, results)
  BY <1>2, Parts DEF WaveOK, SweepOK
<1> QED
  BY <1>1, <1>3, <1>4, <1>5, RowLoops

LEMMA DeadlineLoops == ASSUME LoopInv, NEW r \in Rows, DeadlinePasses(r) PROVE LInv'
<1> DEFINE new == [row[r] EXCEPT !.deadline = "passed"]
<1>1. /\ row' = [row EXCEPT ![r] = new] /\ UNCHANGED <<hand, subs, results>>
      /\ \A p \in {"wave", "sweep", "web"} : hand[p][r].step = "idle"
  BY Names DEF DeadlinePasses, At
<1>2. /\ new.status = row[r].status /\ new.ext = row[r].ext /\ new.files = row[r].files
      /\ new.key = row[r].key /\ new.attempt = row[r].attempt
  BY Parts DEF MistralRow
<1> HIDE DEF new
<1>3. RowOK(new) /\ WebOK(hand["web"][r], new)
  BY <1>1, <1>2, Parts DEF RowOK, WebOK
<1>4. ASSUME NEW p \in {"wave", "sweep"} PROVE JudgeOK(hand[p][r], new)
  BY <1>1, <1>2, Parts DEF JudgeOK, Held
<1>5. WaveOK(r, hand["wave"][r], new, subs) /\ SweepOK(r, hand["sweep"][r], new, results)
  BY <1>2, Parts DEF WaveOK, SweepOK
<1> QED
  BY <1>1, <1>3, <1>4, <1>5, RowLoops

\* Slots that stay or are let go of.
LEMMA HandsStay ==
  ASSUME LoopInv, Grow, UNCHANGED row,
         \A p \in Processes, r \in Rows : hand'[p][r] \in {Idle, hand[p][r]}
  PROVE  LInv'
<1>1. OneLoop'
  <2>1. \A p \in Processes, r \in Rows : hand'[p][r].step # "idle" => hand[p][r].step # "idle"
    BY IdleFacts
  <2> QED
    BY <2>1, Names DEF LoopInv, LInv, OneLoop, Free, At
<1>2. ASSUME NEW r \in Rows
      PROVE  /\ RowOK(row'[r])
             /\ JudgeOK(hand'["wave"][r], row'[r]) /\ WaveOK(r, hand'["wave"][r], row'[r], subs')
             /\ JudgeOK(hand'["sweep"][r], row'[r])
             /\ SweepOK(r, hand'["sweep"][r], row'[r], results')
             /\ WebOK(hand'["web"][r], row'[r])
  <2>1. \A p \in {"wave", "sweep", "web"} : hand'[p][r] \in {Idle, hand[p][r]}
    BY Names
  <2> QED
    BY <2>1, Parts, IdleIsOK, GrownIsOK
<1> QED
  BY <1>1, <1>2 DEF LInv, RowOK, JudgeOK, WaveOK, SweepOK, WebOK, Held, Follows

LEMMA BatchEndsLoops == ASSUME LoopInv, NEW n \in Ids, BatchEnds(n) PROVE LInv'
<1>1. PICK end \in {"success", "failed"} : subs' = [subs EXCEPT ![n].batch = end]
  BY DEF BatchEnds
<1>2. Grow /\ UNCHANGED <<row, hand>>
  BY <1>1, BatchGrows DEF BatchEnds
<1> QED
  BY <1>2, HandsStay

LEMMA CrashLoops == ASSUME LoopInv, NEW p \in Processes, Crash(p) PROVE LInv'
<1>1. /\ hand \in [Processes -> [Rows -> Slot]]
      /\ hand' = [hand EXCEPT ![p] = [r \in Rows |-> Idle]] /\ UNCHANGED <<row, subs, results>>
  BY DEF Crash, LoopInv, TInv, TypeOK
<1>2. \A q \in Processes, r \in Rows : hand'[q][r] \in {Idle, hand[q][r]}
  BY <1>1
<1> QED
  BY <1>1, <1>2, SameLog, HandsStay

LEMMA LoopStart == Init => LInv
<1> SUFFICES ASSUME Init PROVE LInv
  OBVIOUS
<1>1. \A r \in Rows : /\ row[r] = FreshRow
                      /\ \A p \in {"wave", "sweep", "web"} : hand[p][r] = Idle
  BY Names DEF Init
<1>2. RowOK(FreshRow)
  BY StatusFacts DEF RowOK, FreshRow
<1>3. OneLoop
  BY <1>1, IdleFacts DEF OneLoop, Free, At
<1> QED
  BY <1>1, <1>2, <1>3, IdleIsOK DEF LInv

LEMMA ClaimGrows == ASSUME LoopInv, NEW r \in Rows, Claim(r) PROVE Grow
<1>1. UNCHANGED results /\ (UNCHANGED subs \/ \E sub : subs' = Append(subs, sub))
  BY DEF Claim
<1>2. subs \in Seq(Submission)
  BY DEF LoopInv, TInv, TypeOK
<1> QED
  BY <1>1, <1>2 DEF Grow

LEMMA CreateBatchGrows == ASSUME LoopInv, NEW r \in Rows, CreateBatch(r) PROVE Grow
<1>1. /\ UNCHANGED results
      /\ \/ UNCHANGED subs
         \/ subs' = [subs EXCEPT ![hand["wave"][r].read.at].batch = "running"]
  BY DEF CreateBatch
<1> QED
  BY <1>1, SameLog, BatchGrows

LEMMA CancelGrows ==
  ASSUME LoopInv, NEW r \in Rows, NEW p \in Processes, Cancel(p, r) PROVE Grow
<1>1. /\ UNCHANGED results
      /\ UNCHANGED subs \/ subs' = [subs EXCEPT ![hand[p][r].ext].batch = "cancelled"]
  BY DEF Cancel
<1> QED
  BY <1>1, SameLog, BatchGrows

LEMMA HarvestGrows == ASSUME LoopInv, NEW r \in Rows, Harvest(r) PROVE Grow
BY DEF Harvest, NameOutputs, Grow

LEMMA WriteOffLoops ==
  ASSUME LoopInv, NEW p \in Processes, NEW r \in Rows, WriteOffNext(p, r) PROVE LInv'
<1>1. p \in {"wave", "sweep", "web"}
  BY DEF Processes
<1>2. CASE Verdict(p, r)
  <2>1. p \in {"wave", "sweep"} /\ Grow
    BY <1>1, <1>2, Parts, SameLog DEF Verdict, At, WebOK
  <2> QED
    BY <1>2, <2>1, VerdictLoops
<1>3. CASE Cancel(p, r)
  BY <1>1, <1>3, CancelGrows, CancelLoops
<1>4. CASE Delete(p, r)
  <2>1. Grow
    BY <1>4, SameLog DEF Delete
  <2> QED
    BY <1>1, <1>4, <2>1, DeleteLoops
<1>5. CASE Rewrite(p, r)
  <2>1. Grow
    BY <1>5, SameLog DEF Rewrite
  <2> QED
    BY <1>1, <1>5, <2>1, RewriteLoops
<1> QED
  BY <1>2, <1>3, <1>4, <1>5 DEF WriteOffNext

LEMMA WaveLoops == ASSUME LoopInv, NEW r \in Rows, WaveStep(r) PROVE LInv'
<1>1. CASE Claim(r)
  BY <1>1, ClaimGrows, ClaimLoops
<1>2. CASE Upload(r)
  BY <1>2, SameLog, UploadLoops DEF Upload
<1>3. CASE CreateBatch(r)
  BY <1>3, CreateBatchGrows, CreateBatchLoops
<1>4. CASE LetGo(r)
  BY <1>4, SameLog, LetGoLoops DEF LetGo
<1>5. CASE CarryLeft(r)
  BY <1>5, SameLog, CarryLeftLoops DEF CarryLeft
<1>6. CASE HandBack(r)
  BY <1>6, SameLog, HandBackLoops DEF HandBack
<1>7. CASE RecordId(r)
  BY <1>7, SameLog, RecordIdLoops DEF RecordId
<1> QED
  BY <1>1, <1>2, <1>3, <1>4, <1>5, <1>6, <1>7, WriteOffLoops, Names DEF WaveStep

LEMMA SweepLoops == ASSUME LoopInv, NEW r \in Rows, SweepStep(r) PROVE LInv'
<1>1. CASE LookClaim(r) \/ LookAgain(r)
  <2>1. Grow
    BY <1>1, SameLog DEF LookClaim, LookAgain
  <2> QED
    BY <1>1, <2>1, LookLoops
<1>2. CASE Discard(r)
  BY <1>2, SameLog, DiscardLoops DEF Discard
<1>3. CASE Poll(r)
  BY <1>3, SameLog, PollLoops DEF Poll
<1>4. CASE Harvest(r)
  BY <1>4, HarvestGrows, HarvestLoops
<1>5. CASE Complete(r)
  BY <1>5, SameLog, CompleteLoops DEF Complete
<1> QED
  BY <1>1, <1>2, <1>3, <1>4, <1>5, WriteOffLoops, Names DEF SweepStep

LEMMA LoopStep == ASSUME LoopInv, Serial, [Next]_vars PROVE LoopInv'
<1>1. TInv'
  BY TypesStep DEF LoopInv
<1>2. CASE UNCHANGED vars
  <2>1. Grow /\ UNCHANGED <<row, hand>>
    BY <1>2, SameLog DEF vars
  <2>2. LInv'
    BY <2>1, HandsStay
  <2> QED
    BY <1>1, <2>2 DEF LoopInv
<1>3. ASSUME SweepRead \/ Abandon PROVE LInv'
  <2>1. Grow
    BY <1>3, SameLog DEF SweepRead, Abandon
  <2> QED
    BY <1>3, <2>1, SweepReadLoops, AbandonLoops
<1>4. ASSUME NEW r \in Rows, WaveRead(r) \/ StrandedRead(r) \/ LeftoverRead(r) PROVE LInv'
  <2>1. Grow
    BY <1>4, SameLog DEF WaveRead, StrandedRead, LeftoverRead, SweepIs
  <2> QED
    BY <1>4, <2>1, WaveReadLoops, TailLoops
<1>5. ASSUME NEW r \in Rows, WebStep(r) PROVE LInv'
  <2>1. CASE AbandonHandles(r)
    BY <2>1, SameLog, AbandonHandlesLoops DEF AbandonHandles
  <2> QED
    BY <1>5, <2>1, WriteOffLoops, Names DEF WebStep
<1> QED
  BY <1>1, <1>2, <1>3, <1>4, <1>5, WaveLoops, SweepLoops, ConsumeLoops, DeadlineLoops,
     BatchEndsLoops, CrashLoops DEF LoopInv, Next

LEMMA LoopInvariant == ASSUME Serial PROVE Spec => []LoopInv
<1>1. Init => LoopInv
  BY TypesStart, LoopStart DEF LoopInv
<1>2. LoopInv /\ [Next]_vars => LoopInv'
  BY LoopStep
<1> QED
  BY <1>1, <1>2, PTL DEF Spec

-----------------------------------------------------------------------------
(* The contract, in one loop.                                              *)

StateOf(cur) == CASE cur.status = "completed" -> "completed"
                  [] cur.status = "consumed"  -> "consumed"
                  [] cur.status \in Dead      -> "dead"
                  [] OTHER                    -> "open"

States  == [r \in Rows |-> StateOf(row[r])]
Attempt == [r \in Rows |-> row[r].attempt]

SameJob(cur, new) == StateOf(new) = StateOf(cur) /\ new.attempt = cur.attempt

LEMMA OpenStates ==
  /\ \A cur : cur.status \in InFlight \cup {"pending"} => StateOf(cur) = "open"
  /\ \A cur : cur.status = "completed" => StateOf(cur) = "completed"
  /\ \A cur, new : LedgerOnly(cur, new) => SameJob(cur, new)
BY DEF StateOf, InFlight, Dead, LedgerOnly, SameJob

LEMMA Stuttering ==
  ASSUME UNCHANGED <<States, Attempt, results>> PROVE UNCHANGED Contract!vars
BY DEF Contract!vars, States, StateOf, Attempt

\* No row's job moves.
LEMMA QuietRows ==
  ASSUME \A r \in Rows : SameJob(row[r], row'[r]), UNCHANGED results
  PROVE  UNCHANGED Contract!vars
<1>1. UNCHANGED <<States, Attempt>>
  BY DEF States, StateOf, Attempt, SameJob
<1> QED
  BY <1>1, Stuttering

LEMMA QuietRow ==
  ASSUME NEW r \in Rows, \A t \in Rows \ {r} : row'[t] = row[t], SameJob(row[r], row'[r]),
         UNCHANGED results
  PROVE  UNCHANGED Contract!vars
<1>1. \A t \in Rows : SameJob(row[t], row'[t])
  BY DEF SameJob
<1> QED
  BY <1>1, QuietRows

LEMMA SameRows == UNCHANGED <<row, results>> => UNCHANGED Contract!vars
BY Stuttering DEF States, Attempt

\* One row moves to another state.
LEMMA OneStateMoves ==
  ASSUME NEW r \in Rows, NEW s, \A t \in Rows \ {r} : row'[t] = row[t],
         StateOf(row'[r]) = s, row'[r].attempt = row[r].attempt
  PROVE  UNCHANGED Attempt /\ States' = [States EXCEPT ![r] = s]
<1>1. /\ \A t \in Rows : StateOf(row'[t]) = IF t = r THEN s ELSE StateOf(row[t])
      /\ \A t \in Rows : row'[t].attempt = row[t].attempt
  OBVIOUS
<1>2. UNCHANGED Attempt
  BY <1>1 DEF Attempt
<1>3. /\ States' = [t \in Rows |-> IF t = r THEN s ELSE StateOf(row[t])]
      /\ States = [t \in Rows |-> StateOf(row[t])]
  BY <1>1 DEF States, StateOf
<1>4. [States EXCEPT ![r] = s] = [t \in Rows |-> IF t = r THEN s ELSE StateOf(row[t])]
  <2> HIDE DEF StateOf, States
  <2> QED
    BY <1>3
<1> QED
  BY <1>2, <1>3, <1>4

LEMMA WritingOff ==
  ASSUME NEW S \in SUBSET Rows, \A r \in S : StateOf(row[r]) \in {"open", "completed"},
         States' = [r \in Rows |-> IF r \in S THEN "dead" ELSE States[r]],
         UNCHANGED <<Attempt, results>>
  PROVE  Contract!Next
<1>1. Contract!WriteOff(S)
  BY DEF Contract!WriteOff, States, StateOf, Attempt
<1> QED
  BY <1>1 DEF Contract!Next

-----------------------------------------------------------------------------
LEMMA SwapEither ==
  ASSUME LoopInv, NEW r \in Rows, NEW read, NEW new, Swap(r, read, new)
  PROVE  /\ \A t \in Rows \ {r} : row'[t] = row[t]
         /\ row'[r] = IF Matches(row[r], read) THEN new ELSE row[r]
BY DEF Swap, LoopInv, TInv, TypeOK

\* The writes that leave the job where it is: both statuses are open, or nothing
\* but the ledger of files changes.
LEMMA ClaimKeeps ==
  ASSUME LoopInv, NEW r \in Rows, Claim(r) PROVE UNCHANGED Contract!vars
<1> DEFINE s == hand["wave"][r]
           new == [Claimed(row[r], s.read, CeilingOnce(s.read)) EXCEPT !.at = Len(subs) + 1]
<1>1. /\ s.step = "read" /\ s.read.status = "pending" /\ row[r] \in MistralRow
      /\ Swap(r, s.read, new) /\ UNCHANGED results
  BY Parts DEF Claim, At, WaveOK
<1>2. new.status = "submitted" /\ new.attempt = row[r].attempt
  BY <1>1 DEF Claimed, MistralRow
<1> HIDE DEF new
<1>3. Matches(row[r], s.read) => SameJob(row[r], new)
  BY <1>1, <1>2, OpenStates, StatusFacts DEF Matches, SameJob
<1>4. SameJob(row[r], row'[r]) /\ \A t \in Rows \ {r} : row'[t] = row[t]
  BY <1>1, <1>3, SwapEither DEF SameJob
<1> QED
  BY <1>1, <1>4, QuietRow

LEMMA CarryLeftKeeps ==
  ASSUME LoopInv, NEW r \in Rows, CarryLeft(r) PROVE UNCHANGED Contract!vars
<1> DEFINE s == hand["wave"][r]
           tried == s.read.left \cup s.files
<1>1. /\ s.read \in MistralRow /\ s.left \in SUBSET Files /\ tried \in SUBSET Files
      /\ UNCHANGED results
  BY Parts DEF Slot, MistralRow, CarryLeft
<1>2. CASE UNCHANGED row
  BY <1>1, <1>2, SameRows
<1>3. CASE Carry(r, s.read, tried, s.left)
  <2> HIDE DEF tried
  <2>1. /\ \A t \in Rows \ {r} : row'[t] = row[t]
        /\ CarriesOver(row[r], row'[r], s.read, AfterCarry(r, s.read, tried, s.left), tried, s.left)
    BY <1>1, <1>3, CarryMoves
  <2>2. LedgerOnly(row[r], row'[r])
    BY <2>1 DEF CarriesOver
  <2> QED
    BY <1>1, <2>1, <2>2, OpenStates, QuietRow
<1> QED
  BY <1>2, <1>3 DEF CarryLeft

LEMMA HandBackKeeps ==
  ASSUME LoopInv, NEW r \in Rows, HandBack(r) PROVE UNCHANGED Contract!vars
<1> DEFINE s == hand["wave"][r]
           new == HandedBack(row[r])
<1>1. /\ s.step = "handback" /\ JudgeOK(s, row[r]) /\ row[r] \in MistralRow
      /\ Swap(r, s.read, new) /\ UNCHANGED results
  BY Parts DEF HandBack, At
<1>2. Held(s)
  BY <1>1 DEF JudgeOK, Held
<1>3. Matches(row[r], s.read) => row[r].status \in InFlight \cup {"pending"}
  BY <1>2, HeldIs DEF Matches
<1>4. new.status = "pending" /\ new.attempt = row[r].attempt
  BY <1>1 DEF HandedBack, Deferred, MistralRow
<1> HIDE DEF new
<1>5. Matches(row[r], s.read) => SameJob(row[r], new)
  BY <1>3, <1>4, OpenStates DEF SameJob
<1>6. SameJob(row[r], row'[r]) /\ \A t \in Rows \ {r} : row'[t] = row[t]
  BY <1>1, <1>5, SwapEither DEF SameJob
<1> QED
  BY <1>1, <1>6, QuietRow

LEMMA RecordIdKeeps ==
  ASSUME LoopInv, NEW r \in Rows, RecordId(r) PROVE UNCHANGED Contract!vars
<1> DEFINE s == hand["wave"][r]
           new == [row[r] EXCEPT !.ext = s.read.at, !.files = s.files, !.left = s.left]
<1>1. UNCHANGED results /\ row[r] \in MistralRow /\ row \in [Rows -> MistralRow]
  BY Parts DEF RecordId, LoopInv, TInv, TypeOK
<1>2. CASE row' = [row EXCEPT ![r] = new]
  <2>1. new.status = row[r].status /\ new.attempt = row[r].attempt
    BY <1>1 DEF MistralRow
  <2> HIDE DEF new
  <2>2. row'[r] = new /\ \A t \in Rows \ {r} : row'[t] = row[t]
    BY <1>1, <1>2
  <2>3. SameJob(row[r], new)
    BY <2>1 DEF SameJob, StateOf
  <2> QED
    BY <1>1, <2>2, <2>3, QuietRow
<1>3. CASE UNCHANGED row
  BY <1>1, <1>3, SameRows
<1> QED
  BY <1>2, <1>3 DEF RecordId

\* A row that is failed is written off, one that is retried is submitted again.
LEMMA VerdictKeeps ==
  ASSUME LoopInv, NEW p \in {"wave", "sweep"}, NEW r \in Rows, Verdict(p, r)
  PROVE  Contract!Next \/ UNCHANGED Contract!vars
<1> DEFINE s == hand[p][r]
           new == WithStatus(row[r], "failed")
<1>1. /\ s.step = "verdict" /\ JudgeOK(s, row[r]) /\ row[r] \in MistralRow /\ UNCHANGED results
  BY Parts DEF Verdict, At
<1>2. Held(s)
  BY <1>1 DEF JudgeOK, Held
<1>3. CASE UNCHANGED row
  BY <1>1, <1>3, SameRows
<1>4. CASE Matches(row[r], s.read) /\ Swap(r, s.read, new)
  <2>1. StateOf(row[r]) = "open"
    BY <1>2, <1>4, HeldIs, OpenStates DEF Matches
  <2>2. new.status = "failed" /\ new.attempt = row[r].attempt
    BY <1>1 DEF WithStatus, MistralRow
  <2> HIDE DEF new
  <2>3. row'[r] = new /\ \A t \in Rows \ {r} : row'[t] = row[t]
    BY <1>4, SwapEither
  <2>4. StateOf(new) = "dead"
    BY <2>2 DEF StateOf, Dead
  <2>5. UNCHANGED Attempt /\ States' = [States EXCEPT ![r] = "dead"]
    BY <2>2, <2>3, <2>4, OneStateMoves
  <2>6. States' = [t \in Rows |-> IF t \in {r} THEN "dead" ELSE States[t]]
    BY <2>5 DEF States
  <2> QED
    BY <1>1, <2>1, <2>5, <2>6, WritingOff
<1> QED
  BY <1>3, <1>4 DEF Verdict, Swap

LEMMA RewriteKeeps ==
  ASSUME LoopInv, NEW p \in {"wave", "sweep"}, NEW r \in Rows, Rewrite(p, r)
  PROVE  Contract!Next \/ UNCHANGED Contract!vars
<1> DEFINE s == hand[p][r]
           new == NextAttempt(row[r], s.read)
<1>1. /\ s.step = "rewrite" /\ JudgeOK(s, row[r]) /\ row[r] \in MistralRow /\ UNCHANGED results
      /\ Swap(r, s.read, new)
  BY Parts DEF Rewrite, At
<1>2. Held(s) /\ ~OutOfAttempts(s.read)
  BY <1>1, Slots, Names DEF JudgeOK, Held, SlotFits, Retrying, LoopInv
<1>3. CASE UNCHANGED row
  BY <1>1, <1>3, SameRows
<1>4. CASE Matches(row[r], s.read)
  <2>1. row[r] = s.read /\ StateOf(row[r]) = "open"
    BY <1>2, <1>4, HeldIs, OpenStates DEF Matches
  <2>2. new.status = "pending" /\ new.attempt = row[r].attempt + 1
    BY <1>1, <2>1 DEF NextAttempt, Retried, MistralRow
  <2> HIDE DEF new
  <2>3. row'[r] = new /\ \A t \in Rows \ {r} : row'[t] = row[t]
    BY <1>1, <1>4, SwapEither
  <2>4. StateOf(new) = "open"
    BY <2>2, OpenStates
  <2>5. /\ \A t \in Rows : StateOf(row'[t]) = StateOf(row[t])
        /\ \A t \in Rows : row'[t].attempt = IF t = r THEN row[r].attempt + 1 ELSE row[t].attempt
    BY <2>1, <2>2, <2>3, <2>4
  <2>6. UNCHANGED States
    BY <2>5 DEF States, StateOf
  <2>7. Attempt' = [Attempt EXCEPT ![r] = @ + 1]
    <3>1. /\ Attempt = [t \in Rows |-> row[t].attempt]
          /\ Attempt' = [t \in Rows |-> IF t = r THEN row[r].attempt + 1 ELSE row[t].attempt]
      BY <2>5 DEF Attempt
    <3> QED
      BY <3>1
  <2>8. row[r].attempt < MaxAttempts
    BY <1>1, <1>2, <2>1, ConstantFacts DEF OutOfAttempts, MistralRow, Attempts
  <2>9. Contract!Resubmit(r)
    BY <1>1, <2>1, <2>6, <2>7, <2>8 DEF Contract!Resubmit, States, StateOf, Attempt
  <2> QED
    BY <2>9 DEF Contract!Next
<1> QED
  BY <1>1, <1>3, <1>4 DEF Swap

LEMMA CancelKeeps ==
  ASSUME LoopInv, NEW p \in {"wave", "sweep", "web"}, NEW r \in Rows, Cancel(p, r)
  PROVE  UNCHANGED Contract!vars
<1>1. LedgerOnly(row[r], row'[r]) /\ \A t \in Rows \ {r} : row'[t] = row[t]
  BY CancelNames
<1> QED
  BY <1>1, OpenStates, QuietRow DEF Cancel

LEMMA DeleteKeeps ==
  ASSUME LoopInv, NEW p \in {"wave", "sweep", "web"}, NEW r \in Rows, Delete(p, r)
  PROVE  UNCHANGED Contract!vars
<1> DEFINE s == hand[p][r]
<1>1. s.read \in MistralRow /\ s.files \in SUBSET Files /\ UNCHANGED results
  BY Parts DEF Delete, Slot
<1>2. PICK kept \in Kept(s.files) : Carry(r, s.read, s.files, kept)
  BY DEF Delete
<1>3. kept \in SUBSET Files
  BY <1>1, <1>2, FileFacts
<1>4. /\ \A t \in Rows \ {r} : row'[t] = row[t]
      /\ CarriesOver(row[r], row'[r], s.read, AfterCarry(r, s.read, s.files, kept), s.files, kept)
  BY <1>1, <1>2, <1>3, CarryMoves
<1>5. LedgerOnly(row[r], row'[r])
  BY <1>4 DEF CarriesOver
<1> QED
  BY <1>1, <1>4, <1>5, OpenStates, QuietRow

LEMMA WriteOffKeeps ==
  ASSUME LoopInv, NEW p \in Processes, NEW r \in Rows, WriteOffNext(p, r)
  PROVE  Contract!Next \/ UNCHANGED Contract!vars
<1>1. p \in {"wave", "sweep", "web"}
  BY DEF Processes
<1>2. p = "web" => ~Verdict(p, r) /\ ~Rewrite(p, r)
  BY Parts DEF Verdict, Rewrite, At, WebOK
<1> QED
  BY <1>1, <1>2, VerdictKeeps, CancelKeeps, DeleteKeeps, RewriteKeeps DEF WriteOffNext

LEMMA DiscardKeeps ==
  ASSUME LoopInv, NEW r \in Rows, Discard(r) PROVE UNCHANGED Contract!vars
<1> DEFINE s == hand["sweep"][r]
           tried == Found(r, s.read) \cup s.read.left
<1>1. s.read \in MistralRow /\ tried \in SUBSET Files /\ UNCHANGED results
  <2>1. s.read \in MistralRow /\ UNCHANGED results
    BY Parts DEF Discard
  <2> QED
    BY <2>1, Same DEF Found, MistralRow, LoopInv
<1> HIDE DEF tried
<1>2. CASE UNCHANGED row
  BY <1>1, <1>2, SameRows
<1>3. ASSUME NEW kept \in Kept(tried), Carry(r, s.read, tried, kept)
      PROVE  UNCHANGED Contract!vars
  <2>1. kept \in SUBSET Files
    BY <1>1, FileFacts
  <2>2. /\ \A t \in Rows \ {r} : row'[t] = row[t]
        /\ CarriesOver(row[r], row'[r], s.read, AfterCarry(r, s.read, tried, kept), tried, kept)
    BY <1>1, <1>3, <2>1, CarryMoves
  <2>3. LedgerOnly(row[r], row'[r])
    BY <2>2 DEF CarriesOver
  <2> QED
    BY <1>1, <2>2, <2>3, OpenStates, QuietRow
<1> QED
  BY <1>2, <1>3 DEF Discard, tried

LEMMA NameOutputsKeeps ==
  ASSUME LoopInv, NEW r \in Rows, NEW why, NameOutputs(r, hand["sweep"][r], why),
         UNCHANGED results
  PROVE  UNCHANGED Contract!vars
<1> DEFINE named == Naming(row[r], Outputs(hand["sweep"][r].read))
<1>1. row[r] \in MistralRow /\ row \in [Rows -> MistralRow]
  BY Parts DEF LoopInv, TInv, TypeOK
<1>2. CASE UNCHANGED row
  BY <1>2, SameRows
<1>3. CASE row' = [row EXCEPT ![r] = named]
  <2>1. LedgerOnly(row[r], named)
    BY <1>1 DEF LedgerOnly, Naming, MistralRow
  <2> HIDE DEF named
  <2>2. row'[r] = named /\ \A t \in Rows \ {r} : row'[t] = row[t]
    BY <1>1, <1>3
  <2> QED
    BY <2>1, <2>2, OpenStates, QuietRow
<1> QED
  BY <1>2, <1>3 DEF NameOutputs

LEMMA PollKeeps ==
  ASSUME LoopInv, NEW r \in Rows, Poll(r) PROVE UNCHANGED Contract!vars
<1> DEFINE s == hand["sweep"][r]
           new == Refreshed(WithStatus(row[r], "in_progress"), s.read)
<1>1. s.step \in Looking /\ UNCHANGED results
  BY DEF Poll, Turn, At, Looking
<1>2. s.read.status \in InFlight /\ row[r] \in MistralRow
  BY <1>1, LookingIs
<1>3. CASE UNCHANGED row
  BY <1>1, <1>3, SameRows
<1>4. CASE NameOutputs(r, s, "retry") \/ NameOutputs(r, s, "fail")
  BY <1>1, <1>4, NameOutputsKeeps
<1>5. CASE Swap(r, s.read, new)
  <2>1. new.status = "in_progress" /\ new.attempt = row[r].attempt
    BY <1>2 DEF Refreshed, WithStatus, MistralRow
  <2> HIDE DEF new
  <2>2. Matches(row[r], s.read) => SameJob(row[r], new)
    BY <1>2, <2>1, OpenStates, StatusFacts DEF Matches, SameJob
  <2>3. SameJob(row[r], row'[r]) /\ \A t \in Rows \ {r} : row'[t] = row[t]
    BY <1>5, <2>2, SwapEither DEF SameJob
  <2> QED
    BY <1>1, <2>3, QuietRow
<1> QED
  BY <1>3, <1>4, <1>5 DEF Poll

\* The stored output is the result of the attempt the row is on.
LEMMA HarvestKeeps ==
  ASSUME LoopInv, NEW r \in Rows, Harvest(r) PROVE Contract!Next \/ UNCHANGED Contract!vars
<1> DEFINE s == hand["sweep"][r]
           a == s.read.key
<1>1. CASE UNCHANGED <<row, results>>
  BY <1>1, SameRows
<1>2. CASE NameOutputs(r, s, "retry") /\ UNCHANGED results
  BY <1>2, NameOutputsKeeps
<1>3. CASE results' = results \cup {<<r, a>>} /\ UNCHANGED row
  <2>1. s.step \in Looking
    BY DEF Harvest, At, Looking
  <2>2. s.read.key = s.read.attempt /\ s.read \in MistralRow /\ Follows(row[r], s)
    BY <2>1, LookingIs
  <2>3. a = row[r].attempt /\ a \in 1..row[r].attempt
    BY <2>2, ConstantFacts DEF Follows, MistralRow, Attempts
  <2> HIDE DEF a
  <2>4. Contract!Produce(r)
    BY <1>3, <2>3 DEF Contract!Produce
  <2> QED
    BY <2>4 DEF Contract!Next
<1> QED
  BY <1>1, <1>2, <1>3 DEF Harvest

LEMMA CompleteKeeps ==
  ASSUME LoopInv, NEW r \in Rows, Complete(r) PROVE Contract!Next \/ UNCHANGED Contract!vars
<1> DEFINE s == hand["sweep"][r]
           all == s.read.files \cup s.read.left \cup Outputs(s.read)
           new == [row[r] EXCEPT !.status = "completed", !.files = {}, !.left = all]
<1>1. s.step = "stored" /\ s.step \in Looking /\ UNCHANGED results
  BY DEF Complete, At, Looking
<1>2. /\ Held(s) /\ s.read.status \in InFlight
      /\ row[r] \in MistralRow /\ row \in [Rows -> MistralRow]
  BY <1>1, LookingIs
<1>3. <<r, s.read.attempt>> \in results
  BY <1>1, Parts DEF SweepOK
<1>4. CASE UNCHANGED row
  BY <1>1, <1>4, SameRows
<1>5. CASE Matches(row[r], s.read) /\ row' = [row EXCEPT ![r] = new]
  <2>1. row[r] = s.read /\ StateOf(row[r]) = "open"
    BY <1>2, <1>5, HeldIs, OpenStates
  <2>2. new.status = "completed" /\ new.attempt = row[r].attempt
    BY <1>2 DEF MistralRow
  <2> HIDE DEF new
  <2>3. row'[r] = new /\ \A t \in Rows \ {r} : row'[t] = row[t]
    BY <1>2, <1>5
  <2>4. UNCHANGED Attempt /\ States' = [States EXCEPT ![r] = "completed"]
    BY <2>2, <2>3, OpenStates, OneStateMoves
  <2>5. Contract!Harvest(r)
    BY <1>1, <1>3, <2>1, <2>4 DEF Contract!Harvest, States, StateOf, Attempt
  <2> QED
    BY <2>5 DEF Contract!Next
<1> QED
  BY <1>4, <1>5 DEF Complete

\* An abandon writes off its rows at once.
LEMMA AbandonKeeps == ASSUME LoopInv, Abandon PROVE Contract!Next
<1>1. PICK S \in SUBSET Rows :
        /\ \A r \in S : row[r].status \in Open
        /\ \A r \in Rows : row'[r] = IF r \in S THEN WithStatus(row[r], "cancelled") ELSE row[r]
  BY AbandonIs DEF LoopInv
<1>2. \A r \in S : StateOf(row[r]) \in {"open", "completed"}
  <2> TAKE r \in S
  <2>1. row[r].status \in InFlight \cup {"pending"} \/ row[r].status = "completed"
    BY <1>1 DEF Open
  <2> QED
    BY <2>1, OpenStates
<1>3. \A r \in S : row'[r].attempt = row[r].attempt /\ row'[r].status = "cancelled"
  BY <1>1, Parts DEF WithStatus, MistralRow
<1>4. \A r \in Rows \ S : row'[r] = row[r]
  BY <1>1
<1>5. \A r \in S : StateOf(row'[r]) = "dead"
  BY <1>3 DEF StateOf, Dead
<1>6. UNCHANGED Attempt
  BY <1>3, <1>4 DEF Attempt
<1>7. States' = [r \in Rows |-> IF r \in S THEN "dead" ELSE States[r]]
  BY <1>4, <1>5 DEF States
<1> QED
  BY <1>2, <1>6, <1>7, WritingOff DEF Abandon

LEMMA ConsumeKeeps == ASSUME LoopInv, NEW r \in Rows, Consume(r) PROVE Contract!Next
<1> DEFINE new == WithStatus(row[r], "consumed")
<1>1. /\ row' = [row EXCEPT ![r] = new] /\ row[r].status = "completed" /\ UNCHANGED results
      /\ row[r] \in MistralRow /\ row \in [Rows -> MistralRow]
  BY Parts DEF Consume, LoopInv, TInv, TypeOK
<1>2. new.status = "consumed" /\ new.attempt = row[r].attempt
  BY <1>1 DEF WithStatus, MistralRow
<1> HIDE DEF new
<1>3. row'[r] = new /\ \A t \in Rows \ {r} : row'[t] = row[t]
  BY <1>1
<1>4. StateOf(row[r]) = "completed" /\ StateOf(new) = "consumed"
  BY <1>1, <1>2 DEF StateOf, Dead
<1>5. UNCHANGED Attempt /\ States' = [States EXCEPT ![r] = "consumed"]
  BY <1>2, <1>3, <1>4, OneStateMoves
<1>6. Contract!Consume(r)
  BY <1>1, <1>4, <1>5 DEF Contract!Consume, States, StateOf, Attempt
<1> QED
  BY <1>6 DEF Contract!Next

LEMMA DeadlineKeeps ==
  ASSUME LoopInv, NEW r \in Rows, DeadlinePasses(r) PROVE UNCHANGED Contract!vars
<1> DEFINE new == [row[r] EXCEPT !.deadline = "passed"]
<1>1. /\ row' = [row EXCEPT ![r] = new] /\ UNCHANGED results
      /\ row[r] \in MistralRow /\ row \in [Rows -> MistralRow]
  BY Parts DEF DeadlinePasses, LoopInv, TInv, TypeOK
<1>2. SameJob(row[r], new)
  BY <1>1 DEF SameJob, StateOf, MistralRow
<1> HIDE DEF new
<1>3. row'[r] = new /\ \A t \in Rows \ {r} : row'[t] = row[t]
  BY <1>1
<1> QED
  BY <1>1, <1>2, <1>3, QuietRow

LEMMA StepKeepsContract ==
  ASSUME LoopInv, [Next]_vars PROVE Contract!Next \/ UNCHANGED Contract!vars
<1>1. CASE UNCHANGED <<row, results>>
  BY <1>1, SameRows
<1>2. ASSUME NEW r \in Rows, WaveRead(r) \/ WaveStep(r)
      PROVE  Contract!Next \/ UNCHANGED Contract!vars
  BY <1>1, <1>2, ClaimKeeps, CarryLeftKeeps, HandBackKeeps, RecordIdKeeps, WriteOffKeeps, Names
     DEF WaveStep, WaveRead, Upload, CreateBatch, LetGo
<1>3. ASSUME NEW r \in Rows, SweepStep(r) \/ StrandedRead(r) \/ LeftoverRead(r)
      PROVE  Contract!Next \/ UNCHANGED Contract!vars
  BY <1>1, <1>3, DiscardKeeps, PollKeeps, HarvestKeeps, CompleteKeeps, WriteOffKeeps, Names
     DEF SweepStep, StrandedRead, LeftoverRead, SweepIs, LookClaim, LookAgain
<1>4. ASSUME NEW r \in Rows, WebStep(r) PROVE Contract!Next \/ UNCHANGED Contract!vars
  BY <1>1, <1>4, WriteOffKeeps, Names DEF WebStep, AbandonHandles
<1>5. CASE SweepRead \/ UNCHANGED vars
  BY <1>1, <1>5 DEF SweepRead, vars
<1>6. ASSUME NEW n, BatchEnds(n) PROVE UNCHANGED <<row, results>>
  BY <1>6 DEF BatchEnds
<1>7. ASSUME NEW p, Crash(p) PROVE UNCHANGED <<row, results>>
  BY <1>7 DEF Crash
<1> QED
  BY <1>1, <1>2, <1>3, <1>4, <1>5, <1>6, <1>7, AbandonKeeps, ConsumeKeeps, DeadlineKeeps
     DEF Next

LEMMA InitContract == Init => Contract!Init
<1> SUFFICES ASSUME Init PROVE Contract!Init
  OBVIOUS
<1>1. \A r \in Rows : row[r].status = "pending" /\ row[r].attempt = 1
  BY DEF Init, FreshRow
<1>2. \A r \in Rows : StateOf(row[r]) = "open"
  BY <1>1, OpenStates
<1> QED
  BY <1>1, <1>2 DEF Contract!Init, StateOf, Init

\* In one loop the Mistral lifecycle is a job's lifecycle: a row is completed only
\* over its current attempt's stored output, an attempt is counted once, and a row
\* consumed, failed or abandoned never comes back, whatever the providers, the
\* store and the web process do and whoever is killed (harvest_output,
\* _retry_or_fail, abandon_open).
THEOREM ContractIsImplemented == Serial /\ Spec => ImplementsContract
<1>1. Init => Contract!Init
  BY InitContract
<1>2. LoopInv /\ [Next]_vars => [Contract!Next]_(Contract!vars)
  BY StepKeepsContract
<1>3. ASSUME Serial PROVE Spec => ImplementsContract
  BY <1>1, <1>2, <1>3, LoopInvariant, PTL DEF Spec, ImplementsContract, Contract!Spec
<1> QED
  BY <1>3

-----------------------------------------------------------------------------
(* Only files of claimed submissions are named or there, so the number a    *)
(* claim takes is nowhere yet.                                             *)

Known(S, log)      == \A f \in S : f[1] \in DOMAIN log
Names4(s)          == s.files \cup s.left \cup s.read.files \cup s.read.left
RowKnown(cur, log) == Known(cur.files \cup cur.left, log)
SlotKnown(s, log)  == Known(Names4(s), log)

KInv == /\ Known(files, subs)
        /\ \A r \in Rows : RowKnown(row[r], subs)
        /\ \A p \in Processes, r \in Rows : SlotKnown(hand[p][r], subs)

LEMMA KnownGrows ==
  ASSUME Grow, NEW S, Known(S, subs) PROVE Known(S, subs')
BY DEF Known, Grow

LEMMA IdleKnown == \A log : SlotKnown(Idle, log)
BY IdleFacts DEF SlotKnown, Known, Names4, FreshRow

LEMMA KeptIn == \A S, kept : kept \in Kept(S) => kept \subseteq S
BY DEF Kept

LEMMA KnownMoves ==
  ASSUME LoopInv, KInv, Grow, NEW p \in Processes, NEW r \in Rows, NEW t, Becomes(p, r, t),
         \A q \in Rows \ {r} : row'[q] = row[q],
         RowKnown(row'[r], subs'), SlotKnown(t, subs'), Known(files', subs')
  PROVE  KInv'
<1>1. /\ hand'[p][r] = t
      /\ \A q \in Processes, u \in Rows : q # p \/ u # r => hand'[q][u] = hand[q][u]
  BY SlotIs
<1>2. ASSUME NEW q \in Rows PROVE RowKnown(row'[q], subs')
  <2>1. CASE q = r
    BY <2>1
  <2>2. CASE q # r
    BY <2>2, KnownGrows DEF KInv, RowKnown
  <2> QED
    BY <2>1, <2>2
<1>3. ASSUME NEW q \in Processes, NEW u \in Rows PROVE SlotKnown(hand'[q][u], subs')
  <2>1. CASE q = p /\ u = r
    BY <1>1, <2>1
  <2>2. CASE ~(q = p /\ u = r)
    BY <1>1, <2>2, KnownGrows DEF KInv, SlotKnown
  <2> QED
    BY <2>1, <2>2
<1> QED
  BY <1>2, <1>3 DEF KInv, RowKnown, SlotKnown, Known, Names4

\* A step on a slot that writes no row and adds no file.
LEMMA KnownSlot ==
  ASSUME LoopInv, KInv, Grow, NEW p \in Processes, NEW r \in Rows, NEW t, Becomes(p, r, t),
         UNCHANGED row, files' \subseteq files, SlotKnown(t, subs)
  PROVE  KInv'
<1>1. RowKnown(row[r], subs') /\ SlotKnown(t, subs') /\ Known(files', subs')
  BY KnownGrows DEF KInv, RowKnown, SlotKnown, Known
<1> QED
  BY <1>1, KnownMoves

LEMMA SlotWritesKnown ==
  ASSUME NEW s \in Slot, NEW log, SlotKnown(s, log), NEW step, NEW why
  PROVE  /\ SlotKnown(Goes(s, step), log) /\ SlotKnown(ToVerdict(s, why), log)
         /\ SlotKnown(ToCancel(s, why), log) /\ SlotKnown(Ends(s, why), log)
         /\ \A read : RowKnown(read, log) =>
              /\ SlotKnown([s EXCEPT !.read = read], log)
              /\ SlotKnown(Goes([s EXCEPT !.read = read], step), log)
              /\ SlotKnown(ToVerdict([s EXCEPT !.read = read], why), log)
<1>1. Names4(Goes(s, step)) = Names4(s) /\ Names4(ToVerdict(s, why)) = Names4(s)
  BY DEF Goes, ToVerdict, Slot, Names4
<1>2. Names4(ToCancel(s, why)) \subseteq Names4(s)
  BY DEF ToCancel, Slot, Names4
<1>3. ASSUME NEW read
      PROVE  /\ Names4([s EXCEPT !.read = read]) \subseteq Names4(s) \cup read.files \cup read.left
             /\ Names4(Goes([s EXCEPT !.read = read], step))
                  \subseteq Names4(s) \cup read.files \cup read.left
             /\ Names4(ToVerdict([s EXCEPT !.read = read], why))
                  \subseteq Names4(s) \cup read.files \cup read.left
  BY DEF Goes, ToVerdict, Slot, Names4
<1>4. SlotKnown(Goes(s, step), log) /\ SlotKnown(ToVerdict(s, why), log)
      /\ SlotKnown(ToCancel(s, why), log)
  BY <1>1, <1>2 DEF SlotKnown, Known
<1>5. SlotKnown(Ends(s, why), log)
  BY <1>4, IdleKnown DEF Ends
<1>6. ASSUME NEW read, RowKnown(read, log)
      PROVE  /\ SlotKnown([s EXCEPT !.read = read], log)
             /\ SlotKnown(Goes([s EXCEPT !.read = read], step), log)
             /\ SlotKnown(ToVerdict([s EXCEPT !.read = read], why), log)
  BY <1>3, <1>6 DEF SlotKnown, RowKnown, Known
<1> QED
  BY <1>4, <1>5, <1>6

\* What a slot, its row and its copy name.
LEMMA KnownParts ==
  ASSUME LoopInv, KInv, NEW p \in Processes, NEW r \in Rows
  PROVE  LET s == hand[p][r] IN
         /\ s \in Slot /\ s.read \in MistralRow /\ row[r] \in MistralRow
         /\ SlotKnown(s, subs) /\ RowKnown(row[r], subs) /\ RowKnown(s.read, subs)
         /\ Known(s.files, subs) /\ Known(s.left, subs) /\ Known(files, subs)
         /\ s.files \in SUBSET Files /\ s.left \in SUBSET Files
<1>1. hand[p][r] \in Slot /\ hand[p][r].read \in MistralRow /\ row[r] \in MistralRow
  BY Slots DEF LoopInv
<1> QED
  BY <1>1 DEF KInv, SlotKnown, RowKnown, Known, Names4, Slot

\* The carry names nothing new but what was kept.
LEMMA CarryKnown ==
  ASSUME NEW cur, NEW new, NEW read, NEW after, NEW T, NEW S, NEW log,
         CarriesOver(cur, new, read, after, T, S),
         RowKnown(cur, log), RowKnown(read, log), Known(S, log)
  PROVE  RowKnown(new, log) /\ RowKnown(after, log)
<1>1. /\ new.files = cur.files /\ new.left \subseteq cur.left \cup S
      /\ after.left \subseteq cur.left \cup S \cup read.left
      /\ after.files \subseteq cur.files \cup read.files
  BY DEF CarriesOver
<1> QED
  BY <1>1 DEF RowKnown, Known

LEMMA ClaimKnown == ASSUME LoopInv, KInv, NEW r \in Rows, Claim(r) PROVE KInv'
<1> DEFINE s == hand["wave"][r]
           n == Len(subs) + 1
           new == [Claimed(row[r], s.read, CeilingOnce(s.read)) EXCEPT !.at = n]
           mine == [Claimed(s.read, s.read, CeilingOnce(s.read)) EXCEPT !.at = n]
           t == [Idle EXCEPT !.step = "claimed", !.read = mine]
<1>1. /\ s \in Slot /\ s.read \in MistralRow /\ row[r] \in MistralRow
      /\ RowKnown(row[r], subs) /\ RowKnown(s.read, subs) /\ Known(files, subs)
      /\ row \in [Rows -> MistralRow]
  BY KnownParts, Names DEF LoopInv, TInv, TypeOK
<1>2. Grow /\ UNCHANGED files
  BY ClaimGrows DEF Claim
<1>3. new.files = row[r].files /\ new.left = row[r].left
  BY <1>1 DEF Claimed, MistralRow
<1>4. mine.files = s.read.files /\ mine.left = s.read.left
  BY <1>1 DEF Claimed, MistralRow
<1> HIDE DEF new, mine
<1>5. Names4(t) = mine.files \cup mine.left
  BY IdleFacts DEF Slot, Names4
<1>6. RowKnown(new, subs) /\ SlotKnown(t, subs)
  BY <1>1, <1>3, <1>4, <1>5 DEF RowKnown, SlotKnown
<1> HIDE DEF t
<1>7. CASE Swap(r, s.read, new) /\ (Becomes("wave", r, t) \/ Becomes("wave", r, Idle))
  <2>1. /\ \A q \in Rows \ {r} : row'[q] = row[q]
        /\ row'[r] \in {new, row[r]}
    BY <1>7, SwapEither
  <2>2. /\ RowKnown(row'[r], subs') /\ SlotKnown(t, subs') /\ SlotKnown(Idle, subs')
        /\ Known(files', subs')
    BY <1>1, <1>2, <1>6, <2>1, IdleKnown, KnownGrows DEF RowKnown, SlotKnown, Known
  <2> QED
    BY <1>2, <1>7, <2>1, <2>2, KnownMoves, Names
<1> QED
  BY <1>7 DEF Claim, Drops, new, t, mine

LEMMA UploadKnown == ASSUME LoopInv, KInv, NEW r \in Rows, Upload(r) PROVE KInv'
<1> DEFINE s == hand["wave"][r]
           n == s.read.at
<1>1. /\ s \in Slot /\ SlotKnown(s, subs) /\ RowKnown(row[r], subs) /\ Known(files, subs)
      /\ RowKnown(s.read, subs)
  BY KnownParts, Names
<1>2. n \in DOMAIN subs
  BY Parts DEF Upload, At, WaveOK, JudgeOK, Held
<1>3. Grow /\ UNCHANGED row
  BY SameLog DEF Upload
<1>4. PICK kept, landed, t :
        /\ kept \in Kept(s.read.left) /\ landed \in SUBSET {Pages(n)}
        /\ files' = (files \ (s.read.left \ kept)) \cup landed
        /\ Becomes("wave", r, t)
        /\ \/ t = [s EXCEPT !.step = "uploaded", !.files = {Pages(n)}, !.left = kept]
           \/ \E why \in Failings :
                t = [s EXCEPT !.step = "failing", !.files = landed, !.left = kept, !.why = why]
           \/ t = [s EXCEPT !.step = "failing", !.left = kept, !.why = "retry"]
  BY DEF Upload
<1>5. kept \subseteq s.read.left
  BY <1>4, KeptIn
<1>6. Names4(t) \subseteq Names4(s) \cup {Pages(n)}
  <2>1. \A step, F, why : Names4([s EXCEPT !.step = step, !.files = F, !.left = kept, !.why = why])
                             \subseteq Names4(s) \cup F
    BY <1>1, <1>5 DEF Names4, Slot
  <2>2. \A step, F : Names4([s EXCEPT !.step = step, !.files = F, !.left = kept])
                        \subseteq Names4(s) \cup F
    BY <1>1, <1>5 DEF Names4, Slot
  <2>3. \A step, why : Names4([s EXCEPT !.step = step, !.left = kept, !.why = why])
                        \subseteq Names4(s)
    BY <1>1, <1>5 DEF Names4, Slot
  <2> QED
    BY <1>4, <2>1, <2>2, <2>3
<1>7. Pages(n)[1] \in DOMAIN subs
  BY <1>2 DEF Pages
<1>8. SlotKnown(t, subs) /\ Known(files', subs)
  BY <1>1, <1>4, <1>6, <1>7 DEF SlotKnown, Known
<1>9. SlotKnown(t, subs') /\ Known(files', subs') /\ RowKnown(row'[r], subs')
  BY <1>1, <1>3, <1>8 DEF SlotKnown, RowKnown, Known, Upload
<1> QED
  BY <1>3, <1>4, <1>9, KnownMoves, Names

LEMMA CreateBatchKnown == ASSUME LoopInv, KInv, NEW r \in Rows, CreateBatch(r) PROVE KInv'
<1> DEFINE s == hand["wave"][r]
<1>1. s \in Slot /\ SlotKnown(s, subs)
  BY KnownParts, Names
<1>2. Grow /\ UNCHANGED <<row, files>>
  BY CreateBatchGrows DEF CreateBatch
<1>3. PICK t : /\ Becomes("wave", r, t)
               /\ t = Goes(s, "created") \/ \E why : t = [s EXCEPT !.step = "failing", !.why = why]
  BY DEF CreateBatch
<1>4. Names4(t) = Names4(s)
  BY <1>1, <1>3 DEF Goes, Slot, Names4
<1> QED
  BY <1>1, <1>2, <1>3, <1>4, KnownSlot, Names DEF SlotKnown

LEMMA LetGoKnown == ASSUME LoopInv, KInv, NEW r \in Rows, LetGo(r) PROVE KInv'
<1> DEFINE s == hand["wave"][r]
           t(kept) == [s EXCEPT !.step = "carry", !.left = @ \cup kept]
<1>1. s \in Slot /\ SlotKnown(s, subs)
  BY KnownParts, Names
<1>2. Grow /\ UNCHANGED row
  BY SameLog DEF LetGo
<1>3. PICK kept \in Kept(s.files) : files' \subseteq files /\ Becomes("wave", r, t(kept))
  BY DEF LetGo
<1>4. Names4(t(kept)) \subseteq Names4(s)
  BY <1>1, <1>3, KeptIn DEF Slot, Names4
<1>5. SlotKnown(t(kept), subs)
  BY <1>1, <1>4 DEF SlotKnown, Known
<1> QED
  BY <1>2, <1>3, <1>5, KnownSlot, Names

LEMMA CarryLeftKnown == ASSUME LoopInv, KInv, NEW r \in Rows, CarryLeft(r) PROVE KInv'
<1> DEFINE s == hand["wave"][r]
           tried == s.read.left \cup s.files
           after == AfterCarry(r, s.read, tried, s.left)
           t(u) == IF s.why = "busy" THEN Goes(u, "handback") ELSE ToVerdict(u, s.why)
<1>1. /\ s \in Slot /\ s.read \in MistralRow /\ s.left \in SUBSET Files
      /\ SlotKnown(s, subs) /\ RowKnown(row[r], subs) /\ RowKnown(s.read, subs)
      /\ Known(s.left, subs) /\ Known(files, subs) /\ s.files \in SUBSET Files
  BY KnownParts, Names
<1>2. tried \in SUBSET Files
  BY <1>1 DEF MistralRow
<1>3. Grow /\ UNCHANGED <<subs, files>>
  BY SameLog DEF CarryLeft
<1>4. CASE s.left = {}
  <2>1. UNCHANGED row /\ Becomes("wave", r, t(s))
    BY <1>4 DEF CarryLeft
  <2>2. SlotKnown(t(s), subs)
    BY <1>1, SlotWritesKnown
  <2> HIDE DEF t
  <2> QED
    BY <1>3, <2>1, <2>2, KnownSlot, Names
<1>5. CASE s.left # {}
  <2>1. Carry(r, s.read, tried, s.left) /\ Becomes("wave", r, t([s EXCEPT !.read = after]))
    BY <1>5 DEF CarryLeft
  <2> HIDE DEF tried, after
  <2>2. /\ \A q \in Rows \ {r} : row'[q] = row[q]
        /\ CarriesOver(row[r], row'[r], s.read, after, tried, s.left)
    BY <1>1, <1>2, <2>1, CarryMoves DEF after
  <2>3. RowKnown(row'[r], subs) /\ RowKnown(after, subs)
    BY <1>1, <2>2, CarryKnown
  <2>4. SlotKnown(t([s EXCEPT !.read = after]), subs)
    BY <1>1, <2>3, SlotWritesKnown
  <2> HIDE DEF t
  <2>5. /\ RowKnown(row'[r], subs') /\ SlotKnown(t([s EXCEPT !.read = after]), subs')
        /\ Known(files', subs')
    BY <1>1, <1>3, <2>3, <2>4
  <2> QED
    BY <1>3, <2>1, <2>2, <2>5, KnownMoves, Names
<1> QED
  BY <1>4, <1>5

LEMMA HandBackKnown == ASSUME LoopInv, KInv, NEW r \in Rows, HandBack(r) PROVE KInv'
<1> DEFINE s == hand["wave"][r]
           new == HandedBack(row[r])
<1>1. row[r] \in MistralRow /\ RowKnown(row[r], subs) /\ Known(files, subs)
  BY KnownParts, Names
<1>2. Grow /\ UNCHANGED <<subs, files>> /\ Swap(r, s.read, new) /\ Becomes("wave", r, Idle)
  BY SameLog DEF HandBack, Drops
<1>3. new.files = row[r].files /\ new.left = row[r].left
  BY <1>1 DEF HandedBack, Deferred, MistralRow
<1> HIDE DEF new
<1>4. row'[r] \in {new, row[r]} /\ \A q \in Rows \ {r} : row'[q] = row[q]
  BY <1>2, SwapEither
<1>5. RowKnown(row'[r], subs') /\ SlotKnown(Idle, subs') /\ Known(files', subs')
  BY <1>1, <1>2, <1>3, <1>4, IdleKnown DEF RowKnown
<1> QED
  BY <1>2, <1>4, <1>5, KnownMoves, Names

LEMMA RecordIdKnown == ASSUME LoopInv, KInv, NEW r \in Rows, RecordId(r) PROVE KInv'
<1> DEFINE s == hand["wave"][r]
           n == s.read.at
           new == [row[r] EXCEPT !.ext = n, !.files = s.files, !.left = s.left]
           t == [s EXCEPT !.step = "cancel", !.why = "end", !.ext = n, !.files = @ \cup s.left]
<1>1. /\ s \in Slot /\ row[r] \in MistralRow /\ SlotKnown(s, subs) /\ Known(files, subs)
      /\ Known(s.files, subs) /\ Known(s.left, subs) /\ row \in [Rows -> MistralRow]
      /\ RowKnown(row[r], subs)
  BY KnownParts, Names DEF LoopInv, TInv, TypeOK
<1>2. Grow /\ UNCHANGED <<subs, files>>
  BY SameLog DEF RecordId
<1>3. CASE row' = [row EXCEPT ![r] = new] /\ Becomes("wave", r, Idle)
  <2>1. new.files = s.files /\ new.left = s.left
    BY <1>1 DEF MistralRow
  <2> HIDE DEF new
  <2>2. row'[r] = new /\ \A q \in Rows \ {r} : row'[q] = row[q]
    BY <1>1, <1>3
  <2>3. RowKnown(row'[r], subs') /\ SlotKnown(Idle, subs') /\ Known(files', subs')
    BY <1>1, <1>2, <2>1, <2>2, IdleKnown DEF RowKnown, Known
  <2> QED
    BY <1>2, <1>3, <2>2, <2>3, KnownMoves, Names
<1>4. CASE UNCHANGED row /\ Becomes("wave", r, t)
  <2>1. Names4(t) \subseteq Names4(s)
    BY <1>1 DEF Names4, Slot
  <2>2. SlotKnown(t, subs)
    BY <1>1, <2>1 DEF SlotKnown, Known
  <2> HIDE DEF t
  <2> QED
    BY <1>2, <1>4, <2>2, KnownSlot, Names
<1> QED
  BY <1>3, <1>4 DEF RecordId, Drops

LEMMA VerdictKnown ==
  ASSUME LoopInv, KInv, NEW p \in Processes, NEW r \in Rows, Verdict(p, r) PROVE KInv'
<1> DEFINE s == hand[p][r]
           new == WithStatus(row[r], "failed")
<1>1. s \in Slot /\ row[r] \in MistralRow /\ SlotKnown(s, subs) /\ RowKnown(row[r], subs)
      /\ Known(files, subs)
  BY KnownParts
<1>2. Grow /\ UNCHANGED <<subs, files>>
  BY SameLog DEF Verdict
<1>3. \A why : SlotKnown(ToCancel(s, why), subs)
  BY <1>1, SlotWritesKnown
<1>4. PICK t : /\ Becomes(p, r, t)
               /\ t = Idle \/ \E why : t = ToCancel(s, why)
               /\ Swap(r, s.read, new) \/ UNCHANGED row
  BY DEF Verdict
<1>5. new.files = row[r].files /\ new.left = row[r].left
  BY <1>1 DEF WithStatus, MistralRow
<1> HIDE DEF new
<1>6. row'[r] \in {new, row[r]} /\ \A q \in Rows \ {r} : row'[q] = row[q]
  BY <1>4, SwapEither
<1>7. RowKnown(row'[r], subs') /\ SlotKnown(t, subs') /\ Known(files', subs')
  BY <1>1, <1>2, <1>3, <1>4, <1>5, <1>6, IdleKnown DEF RowKnown
<1> QED
  BY <1>2, <1>4, <1>6, <1>7, KnownMoves

LEMMA CancelKnown ==
  ASSUME LoopInv, KInv, NEW p \in Processes, NEW r \in Rows, Cancel(p, r) PROVE KInv'
<1> DEFINE s == hand[p][r]
<1>1. s \in Slot /\ row[r] \in MistralRow /\ SlotKnown(s, subs) /\ RowKnown(row[r], subs)
      /\ Known(files, subs)
  BY KnownParts
<1>2. Grow /\ UNCHANGED files
  BY CancelGrows DEF Cancel
<1>3. PICK t : /\ Becomes(p, r, t) /\ t.files = s.files /\ t.left = s.left
               /\ \A q \in Rows \ {r} : row'[q] = row[q]
               /\ t.read.files = {}
               /\ t.read.left \subseteq row[r].left \cup s.files \cup s.read.left
               /\ \/ row'[r].left = row[r].left \cup s.files /\ row'[r].files = {}
                  \/ s.files = {} /\ UNCHANGED row
  BY CancelNames DEF Processes
<1>4. RowKnown(row'[r], subs) /\ SlotKnown(t, subs)
  BY <1>1, <1>3 DEF RowKnown, SlotKnown, Known, Names4
<1>5. RowKnown(row'[r], subs') /\ SlotKnown(t, subs') /\ Known(files', subs')
  BY <1>1, <1>2, <1>4, KnownGrows DEF RowKnown, SlotKnown
<1> QED
  BY <1>2, <1>3, <1>5, KnownMoves

LEMMA DeleteKnown ==
  ASSUME LoopInv, KInv, NEW p \in Processes, NEW r \in Rows, Delete(p, r) PROVE KInv'
<1> DEFINE s == hand[p][r]
           after(kept) == AfterCarry(r, s.read, s.files, kept)
           done(kept) == [s EXCEPT !.read = after(kept)]
<1>1. /\ s \in Slot /\ s.read \in MistralRow /\ s.files \in SUBSET Files
      /\ SlotKnown(s, subs) /\ RowKnown(row[r], subs) /\ RowKnown(s.read, subs)
      /\ Known(s.files, subs) /\ Known(files, subs)
  BY KnownParts
<1>2. Grow /\ UNCHANGED subs
  BY SameLog DEF Delete
<1>3. PICK kept, t :
        /\ kept \in Kept(s.files)
        /\ files' \subseteq files /\ Carry(r, s.read, s.files, kept) /\ Becomes(p, r, t)
        /\ \/ t = Goes(done(kept), "rewrite") \/ t = ToVerdict(done(kept), "retry") \/ t = Idle
  <2>1. PICK kept \in Kept(s.files) :
          /\ files' = files \ (s.files \ kept) /\ Carry(r, s.read, s.files, kept)
          /\ Becomes(p, r, CASE s.why = "retry" -> Goes(done(kept), "rewrite")
                             [] s.why = "late"  -> ToVerdict(done(kept), "retry")
                             [] OTHER           -> Idle)
    BY DEF Delete
  <2> QED
    BY <2>1
<1>4. kept \in SUBSET Files /\ Known(kept, subs)
  <2>1. kept \subseteq s.files
    BY <1>3, KeptIn
  <2> QED
    BY <1>1, <2>1 DEF Known
<1> HIDE DEF after
<1>5. /\ \A q \in Rows \ {r} : row'[q] = row[q]
      /\ CarriesOver(row[r], row'[r], s.read, after(kept), s.files, kept)
  BY <1>1, <1>3, <1>4, CarryMoves DEF after
<1>6. RowKnown(row'[r], subs) /\ RowKnown(after(kept), subs)
  BY <1>1, <1>4, <1>5, CarryKnown
<1>7. SlotKnown(t, subs)
  BY <1>1, <1>3, <1>6, SlotWritesKnown, IdleKnown
<1>8. RowKnown(row'[r], subs') /\ SlotKnown(t, subs') /\ Known(files', subs')
  BY <1>1, <1>2, <1>3, <1>6, <1>7 DEF Known
<1> QED
  BY <1>2, <1>3, <1>5, <1>8, KnownMoves

LEMMA RewriteKnown ==
  ASSUME LoopInv, KInv, NEW p \in Processes, NEW r \in Rows, Rewrite(p, r) PROVE KInv'
<1> DEFINE s == hand[p][r]
           new == NextAttempt(row[r], s.read)
<1>1. /\ s.read \in MistralRow /\ row[r] \in MistralRow
      /\ RowKnown(row[r], subs) /\ RowKnown(s.read, subs) /\ Known(files, subs)
  BY KnownParts
<1>2. Grow /\ UNCHANGED <<subs, files>> /\ Swap(r, s.read, new) /\ Becomes(p, r, Idle)
  BY SameLog DEF Rewrite, Drops
<1>3. new.files = s.read.files /\ new.left = s.read.left
  BY <1>1 DEF NextAttempt, Retried, MistralRow
<1> HIDE DEF new
<1>4. row'[r] \in {new, row[r]} /\ \A q \in Rows \ {r} : row'[q] = row[q]
  BY <1>2, SwapEither
<1>5. RowKnown(row'[r], subs') /\ SlotKnown(Idle, subs') /\ Known(files', subs')
  BY <1>1, <1>2, <1>3, <1>4, IdleKnown DEF RowKnown
<1> QED
  BY <1>2, <1>4, <1>5, KnownMoves

\* A copy just read names what its row names.
LEMMA CopyKnown ==
  ASSUME NEW cur \in MistralRow, NEW log, RowKnown(cur, log), NEW step, NEW why
  PROVE  /\ SlotKnown([Idle EXCEPT !.step = step, !.read = cur], log)
         /\ SlotKnown(ToVerdict([Idle EXCEPT !.read = cur], why), log)
         /\ SlotKnown([Idle EXCEPT !.step = step, !.read = cur, !.files = cur.left,
                                   !.why = why], log)
BY IdleFacts DEF Names4, SlotKnown, RowKnown, Known, ToVerdict, Slot, MistralRow

LEMMA WaveReadKnown == ASSUME LoopInv, KInv, NEW r \in Rows, WaveRead(r) PROVE KInv'
<1> DEFINE t == [Idle EXCEPT !.step = "read", !.read = row[r]]
<1>1. Grow /\ UNCHANGED <<row, files>> /\ Becomes("wave", r, t)
  BY SameLog DEF WaveRead
<1>2. SlotKnown(t, subs)
  BY KnownParts, CopyKnown, Names
<1> HIDE DEF t
<1> QED
  BY <1>1, <1>2, KnownSlot, Names

LEMMA TailKnown ==
  ASSUME LoopInv, KInv, NEW r \in Rows, StrandedRead(r) \/ LeftoverRead(r) PROVE KInv'
<1>1. PICK t : /\ Becomes("sweep", r, t) /\ UNCHANGED <<row, files, subs, results>>
               /\ \/ t = ToVerdict([Idle EXCEPT !.read = row[r]], "fail")
                  \/ t = [Idle EXCEPT !.step = "delete", !.read = row[r],
                                      !.files = row[r].left, !.why = "end"]
  BY DEF StrandedRead, LeftoverRead, SweepIs
<1>2. row[r] \in MistralRow /\ RowKnown(row[r], subs)
  BY KnownParts, Names
<1>3. /\ SlotKnown(ToVerdict([Idle EXCEPT !.read = row[r]], "fail"), subs)
      /\ SlotKnown([Idle EXCEPT !.step = "delete", !.read = row[r], !.files = row[r].left,
                                !.why = "end"], subs)
  BY <1>2, CopyKnown
<1>4. Grow
  BY <1>1, SameLog
<1> QED
  BY <1>1, <1>3, <1>4, KnownSlot, Names

LEMMA AbandonHandlesKnown ==
  ASSUME LoopInv, KInv, NEW r \in Rows, AbandonHandles(r) PROVE KInv'
<1> DEFINE s == hand["web"][r]
           u == [s EXCEPT !.read = row[r]]
<1>1. Grow /\ UNCHANGED <<row, files>> /\ Becomes("web", r, ToCancel(u, "end"))
  BY SameLog DEF AbandonHandles
<1>2. s \in Slot /\ row[r] \in MistralRow /\ SlotKnown(s, subs) /\ RowKnown(row[r], subs)
  BY KnownParts, Names
<1>3. u \in Slot /\ SlotKnown(u, subs)
  BY <1>2, SlotWritesKnown, SlotWrites
<1>4. SlotKnown(ToCancel(u, "end"), subs)
  BY <1>3, SlotWritesKnown
<1> QED
  BY <1>1, <1>4, KnownSlot, Names

LEMMA LookKnown ==
  ASSUME LoopInv, KInv, NEW r \in Rows, LookClaim(r) \/ LookAgain(r) PROVE KInv'
<1> DEFINE s == hand["sweep"][r]
<1>1. PICK t : /\ Becomes("sweep", r, t) /\ UNCHANGED <<row, files, subs, results>>
               /\ t = Idle \/ t = Goes(s, "lost") \/ t = Goes(s, "discard")
  BY DEF LookClaim, LookAgain, Drops
<1>2. SlotKnown(t, subs)
  BY <1>1, KnownParts, SlotWritesKnown, IdleKnown, Names
<1>3. Grow
  BY <1>1, SameLog
<1> QED
  BY <1>1, <1>2, <1>3, KnownSlot, Names

LEMMA DiscardKnown == ASSUME LoopInv, KInv, NEW r \in Rows, Discard(r) PROVE KInv'
<1> DEFINE s == hand["sweep"][r]
           tried == Found(r, s.read) \cup s.read.left
           after(kept) == AfterCarry(r, s.read, tried, kept)
           t(kept) == ToVerdict([s EXCEPT !.read = after(kept)], "retry")
<1>1. /\ s \in Slot /\ s.read \in MistralRow
      /\ SlotKnown(s, subs) /\ RowKnown(row[r], subs) /\ RowKnown(s.read, subs)
      /\ Known(files, subs)
  BY KnownParts, Names
<1>2. Grow /\ UNCHANGED subs
  BY SameLog DEF Discard
<1>3. Known(tried, subs) /\ tried \in SUBSET Files
  <2>1. files \subseteq Files
    BY Same DEF LoopInv
  <2> QED
    BY <1>1, <2>1 DEF Found, Known, RowKnown, MistralRow
<1> HIDE DEF tried
<1>4. ASSUME NEW kept \in Kept(tried), files' = files \ (tried \ kept),
             Carry(r, s.read, tried, kept), Becomes("sweep", r, t(kept))
      PROVE  KInv'
  <2>1. kept \in SUBSET Files /\ Known(kept, subs)
    BY <1>3, KeptIn DEF Known
  <2> HIDE DEF after
  <2>2. /\ \A q \in Rows \ {r} : row'[q] = row[q]
        /\ CarriesOver(row[r], row'[r], s.read, after(kept), tried, kept)
    BY <1>1, <1>3, <1>4, <2>1, CarryMoves DEF after
  <2>3. RowKnown(row'[r], subs) /\ RowKnown(after(kept), subs)
    BY <1>1, <2>1, <2>2, CarryKnown
  <2>4. SlotKnown(t(kept), subs)
    BY <1>1, <2>3, SlotWritesKnown
  <2> HIDE DEF t
  <2>5. RowKnown(row'[r], subs') /\ SlotKnown(t(kept), subs') /\ Known(files', subs')
    BY <1>1, <1>2, <1>4, <2>3, <2>4 DEF Known
  <2> QED
    BY <1>2, <1>4, <2>2, <2>5, KnownMoves, Names
<1>5. CASE Drops("sweep", r) /\ UNCHANGED <<row, files>>
  BY <1>2, <1>5, IdleKnown, KnownSlot, Names DEF Drops
<1> QED
  BY <1>4, <1>5 DEF Discard, tried

\* The outputs a row is told of are there, so known.
LEMMA NameOutputsKnown ==
  ASSUME LoopInv, KInv, NEW r \in Rows, NEW why, NameOutputs(r, hand["sweep"][r], why),
         UNCHANGED <<subs, files>>, Grow
  PROVE  KInv'
<1> DEFINE s == hand["sweep"][r]
           O == Outputs(s.read)
           named == Naming(row[r], O)
           copy == Refreshed(s.read, named)
<1>1. /\ s \in Slot /\ s.read \in MistralRow /\ row[r] \in MistralRow
      /\ SlotKnown(s, subs) /\ RowKnown(row[r], subs) /\ RowKnown(s.read, subs)
      /\ Known(files, subs) /\ row \in [Rows -> MistralRow]
  BY KnownParts, Names DEF LoopInv, TInv, TypeOK
<1>2. Known(O, subs)
  BY <1>1 DEF Outputs, Known
<1>3. /\ O = {} => UNCHANGED row /\ Becomes("sweep", r, ToVerdict(s, why))
      /\ O # {} => /\ row' = [row EXCEPT ![r] = named]
                   /\ Becomes("sweep", r, ToVerdict([s EXCEPT !.read = copy], why))
  BY DEF NameOutputs
<1> HIDE DEF O
<1>4. CASE O = {}
  BY <1>1, <1>3, <1>4, SlotWritesKnown, KnownSlot, Names
<1>5. CASE O # {}
  <2>1. named.files = row[r].files /\ named.left = row[r].left \cup O
    BY <1>1 DEF Naming, MistralRow
  <2>2. RowKnown(named, subs)
    BY <1>1, <1>2, <2>1 DEF RowKnown, Known
  <2> HIDE DEF named
  <2>3. copy.files = named.files /\ copy.left = named.left
    BY <1>1, CopyWrites
  <2> HIDE DEF copy
  <2>4. RowKnown(copy, subs)
    BY <2>2, <2>3 DEF RowKnown
  <2>5. row'[r] = named /\ \A q \in Rows \ {r} : row'[q] = row[q]
    BY <1>1, <1>3, <1>5
  <2>6. SlotKnown(ToVerdict([s EXCEPT !.read = copy], why), subs)
    BY <1>1, <2>4, SlotWritesKnown
  <2> QED
    BY <1>1, <1>3, <1>5, <2>2, <2>5, <2>6, KnownMoves, Names
<1> QED
  BY <1>4, <1>5

LEMMA PollKnown == ASSUME LoopInv, KInv, NEW r \in Rows, Poll(r) PROVE KInv'
<1> DEFINE s == hand["sweep"][r]
           fresh == WithStatus(s.read, "in_progress")
           new == Refreshed(WithStatus(row[r], "in_progress"), s.read)
<1>1. /\ s \in Slot /\ s.read \in MistralRow /\ row[r] \in MistralRow
      /\ SlotKnown(s, subs) /\ RowKnown(row[r], subs) /\ RowKnown(s.read, subs)
      /\ Known(files, subs)
  BY KnownParts, Names
<1>2. Grow /\ UNCHANGED <<subs, files>>
  BY SameLog DEF Poll
<1>3. CASE UNCHANGED row /\ \/ Becomes("sweep", r, Ends(s, "retry"))
                            \/ Becomes("sweep", r, Goes(s, "harvest"))
  BY <1>1, <1>2, <1>3, SlotWritesKnown, KnownSlot, Names
<1>4. CASE Swap(r, s.read, new) /\ \/ Becomes("sweep", r, Ends([s EXCEPT !.read = fresh], "retry"))
                                   \/ Becomes("sweep", r, Idle)
  <2>1. fresh.files = s.read.files /\ fresh.left = s.read.left /\ fresh \in MistralRow
    BY <1>1, RowWrites, StatusFacts DEF WithStatus, MistralRow
  <2>2. new.files = s.read.files /\ new.left = s.read.left
    <3>1. WithStatus(row[r], "in_progress") \in MistralRow
      BY <1>1, RowWrites, StatusFacts
    <3> QED
      BY <3>1, CopyWrites
  <2> HIDE DEF new, fresh
  <2>3. [s EXCEPT !.read = fresh] \in Slot /\ SlotKnown([s EXCEPT !.read = fresh], subs)
    BY <1>1, <2>1, SlotWrites, SlotWritesKnown DEF RowKnown
  <2>4. SlotKnown(Ends([s EXCEPT !.read = fresh], "retry"), subs)
    BY <2>3, SlotWritesKnown
  <2>5. row'[r] \in {new, row[r]} /\ \A q \in Rows \ {r} : row'[q] = row[q]
    BY <1>4, SwapEither
  <2>6. RowKnown(row'[r], subs)
    BY <1>1, <2>2, <2>5 DEF RowKnown
  <2> QED
    BY <1>1, <1>2, <1>4, <2>4, <2>5, <2>6, IdleKnown, KnownMoves, Names
<1>5. CASE \E why \in {"retry", "fail"} : NameOutputs(r, s, why)
  BY <1>2, <1>5, NameOutputsKnown
<1> QED
  BY <1>3, <1>4, <1>5 DEF Poll

LEMMA HarvestKnown == ASSUME LoopInv, KInv, NEW r \in Rows, Harvest(r) PROVE KInv'
<1> DEFINE s == hand["sweep"][r]
<1>1. s \in Slot /\ SlotKnown(s, subs)
  BY KnownParts, Names
<1>2. Grow /\ UNCHANGED <<subs, files>>
  BY HarvestGrows DEF Harvest
<1>3. CASE UNCHANGED row /\ \/ Becomes("sweep", r, Ends(s, "retry"))
                            \/ Becomes("sweep", r, Goes(s, "stored"))
  BY <1>1, <1>2, <1>3, SlotWritesKnown, KnownSlot, Names
<1>4. CASE NameOutputs(r, s, "retry")
  BY <1>2, <1>4, NameOutputsKnown
<1> QED
  BY <1>3, <1>4 DEF Harvest

LEMMA CompleteKnown == ASSUME LoopInv, KInv, NEW r \in Rows, Complete(r) PROVE KInv'
<1> DEFINE s == hand["sweep"][r]
           all == s.read.files \cup s.read.left \cup Outputs(s.read)
           new == [row[r] EXCEPT !.status = "completed", !.files = {}, !.left = all]
           over == [s EXCEPT !.step = "delete", !.read.files = {}, !.read.left = all]
           t1 == [over EXCEPT !.files = all, !.why = "end", !.read.status = "completed"]
           t2(why) == [over EXCEPT !.files = Outputs(s.read), !.why = why]
<1>1. /\ s \in Slot /\ s.read \in MistralRow /\ row[r] \in MistralRow
      /\ SlotKnown(s, subs) /\ RowKnown(row[r], subs) /\ RowKnown(s.read, subs)
      /\ Known(files, subs) /\ row \in [Rows -> MistralRow]
  BY KnownParts, Names DEF LoopInv, TInv, TypeOK
<1>2. Grow /\ UNCHANGED <<subs, files>>
  BY SameLog DEF Complete
<1>3. Known(all, subs) /\ Outputs(s.read) \subseteq all
  BY <1>1 DEF Outputs, Known, RowKnown
<1>4. /\ \/ row' = [row EXCEPT ![r] = new] /\ Becomes("sweep", r, t1)
         \/ UNCHANGED row /\ \E why : Becomes("sweep", r, t2(why))
  BY DEF Complete
<1>5. new.files = {} /\ new.left = all
  BY <1>1 DEF MistralRow
<1> HIDE DEF new, all
<1>6. Names4(t1) \subseteq Names4(s) \cup all /\ \A why : Names4(t2(why)) \subseteq Names4(s) \cup all
  BY <1>1, <1>3 DEF Names4, Slot, MistralRow
<1>7. SlotKnown(t1, subs) /\ \A why : SlotKnown(t2(why), subs)
  BY <1>1, <1>3, <1>6 DEF SlotKnown, Known
<1> HIDE DEF t1, t2
<1>8. CASE row' = [row EXCEPT ![r] = new] /\ Becomes("sweep", r, t1)
  <2>1. row'[r] = new /\ \A q \in Rows \ {r} : row'[q] = row[q]
    BY <1>1, <1>8
  <2>2. RowKnown(row'[r], subs)
    BY <1>3, <1>5, <2>1 DEF RowKnown, Known
  <2> QED
    BY <1>1, <1>2, <1>7, <1>8, <2>1, <2>2, KnownMoves, Names
<1>9. CASE UNCHANGED row /\ \E why : Becomes("sweep", r, t2(why))
  BY <1>2, <1>7, <1>9, KnownSlot, Names
<1> QED
  BY <1>4, <1>8, <1>9

\* Steps that write no row and put in the hands copies of rows, or nothing.
LEMMA HandsKnown ==
  ASSUME LoopInv, KInv, Grow, UNCHANGED <<subs, files>>,
         \A r \in Rows : row'[r].files = row[r].files /\ row'[r].left = row[r].left,
         \A p \in Processes, r \in Rows : SlotKnown(hand'[p][r], subs)
  PROVE  KInv'
BY DEF KInv, RowKnown, Known, SlotKnown, Names4

LEMMA SweepReadKnown == ASSUME LoopInv, KInv, SweepRead PROVE KInv'
<1> DEFINE t(r) == [Idle EXCEPT !.step = "swept", !.read = row[r]]
<1>1. Grow /\ UNCHANGED <<row, subs, files>>
  BY SameLog DEF SweepRead
<1>2. ASSUME NEW r \in Rows PROVE SlotKnown(t(r), subs)
  BY KnownParts, CopyKnown, Names
<1>3. \A r \in Rows : SlotKnown(t(r), subs)
  BY <1>2
<1>4. ASSUME NEW p \in Processes, NEW r \in Rows PROVE SlotKnown(hand'[p][r], subs)
  <2>1. hand'[p][r] \in {hand[p][r], t(r), Idle}
    BY DEF SweepRead, LoopInv, TInv, TypeOK
  <2> HIDE DEF t
  <2> QED
    BY <1>3, <2>1, IdleKnown DEF KInv
<1> QED
  BY <1>1, <1>4, HandsKnown

LEMMA AbandonKnown == ASSUME LoopInv, KInv, Abandon PROVE KInv'
<1>1. PICK doomed \in SUBSET Rows :
        /\ \A r \in Rows : row'[r] = IF r \in doomed THEN WithStatus(row[r], "cancelled")
                                                     ELSE row[r]
        /\ hand' = [hand EXCEPT !["web"] = [r \in Rows |->
                      IF r \in doomed \cap InFlightRows THEN Goes(Idle, "handles") ELSE Idle]]
        /\ UNCHANGED <<subs, files, results, stops, killed>>
  BY AbandonIs DEF LoopInv
<1>2. Grow
  BY <1>1, SameLog
<1>3. ASSUME NEW r \in Rows PROVE row'[r].files = row[r].files /\ row'[r].left = row[r].left
  <2>1. row[r] \in MistralRow
    BY KnownParts, Names
  <2> QED
    BY <1>1, <2>1 DEF WithStatus, MistralRow
<1>4. SlotKnown(Goes(Idle, "handles"), subs)
  BY IdleFacts, IdleKnown, SlotWritesKnown
<1>5. ASSUME NEW p \in Processes, NEW r \in Rows PROVE SlotKnown(hand'[p][r], subs)
  <2>1. hand'[p][r] \in {hand[p][r], Goes(Idle, "handles"), Idle}
    BY <1>1 DEF LoopInv, TInv, TypeOK
  <2> QED
    BY <1>4, <2>1, IdleKnown DEF KInv
<1> QED
  BY <1>1, <1>2, <1>3, <1>5, HandsKnown

LEMMA CrashKnown == ASSUME LoopInv, KInv, NEW p \in Processes, Crash(p) PROVE KInv'
<1>1. Grow /\ UNCHANGED <<row, subs, files>>
  BY SameLog DEF Crash
<1>2. ASSUME NEW q \in Processes, NEW r \in Rows PROVE SlotKnown(hand'[q][r], subs)
  <2>1. hand'[q][r] \in {hand[q][r], Idle}
    BY DEF Crash, LoopInv, TInv, TypeOK
  <2> QED
    BY <2>1, IdleKnown DEF KInv
<1> QED
  BY <1>1, <1>2, HandsKnown

LEMMA ClockKnown ==
  ASSUME LoopInv, KInv, NEW r \in Rows, Consume(r) \/ DeadlinePasses(r) PROVE KInv'
<1>1. Grow /\ UNCHANGED <<hand, subs, files>>
  BY SameLog DEF Consume, DeadlinePasses
<1>2. ASSUME NEW q \in Rows PROVE row'[q].files = row[q].files /\ row'[q].left = row[q].left
  <2>1. row[q] \in MistralRow /\ row[r] \in MistralRow /\ row \in [Rows -> MistralRow]
    BY KnownParts, Names DEF LoopInv, TInv, TypeOK
  <2>2. \/ row' = [row EXCEPT ![r] = WithStatus(row[r], "consumed")]
        \/ row' = [row EXCEPT ![r] = [row[r] EXCEPT !.deadline = "passed"]]
    BY DEF Consume, DeadlinePasses
  <2> QED
    BY <2>1, <2>2 DEF WithStatus, MistralRow
<1>3. \A p \in Processes, q \in Rows : SlotKnown(hand'[p][q], subs)
  BY <1>1 DEF KInv
<1> QED
  BY <1>1, <1>2, <1>3, HandsKnown

LEMMA BatchEndsKnown == ASSUME LoopInv, KInv, NEW n \in Ids, BatchEnds(n) PROVE KInv'
<1>1. Grow
  BY BatchGrows DEF BatchEnds
<1>2. files' = files \cup {Out(n)} /\ UNCHANGED <<row, hand>> /\ n <= Len(subs)
  BY DEF BatchEnds
<1>3. n \in DOMAIN subs
  BY <1>2, Same, ConstantFacts DEF LoopInv, Ids
<1>4. Known(files', subs)
  BY <1>2, <1>3 DEF KInv, Known, Out
<1> QED
  BY <1>1, <1>2, <1>4, KnownGrows DEF KInv, RowKnown, SlotKnown

LEMMA KnownStep == ASSUME LoopInv, KInv, [Next]_vars PROVE KInv'
<1>1. ASSUME NEW p \in Processes, NEW r \in Rows, WriteOffNext(p, r) PROVE KInv'
  BY <1>1, VerdictKnown, CancelKnown, DeleteKnown, RewriteKnown DEF WriteOffNext
<1>2. ASSUME NEW r \in Rows, WaveRead(r) \/ WaveStep(r) PROVE KInv'
  BY <1>1, <1>2, WaveReadKnown, ClaimKnown, UploadKnown, CreateBatchKnown, LetGoKnown,
     CarryLeftKnown, HandBackKnown, RecordIdKnown, Names DEF WaveStep
<1>3. ASSUME NEW r \in Rows, SweepStep(r) \/ StrandedRead(r) \/ LeftoverRead(r) PROVE KInv'
  BY <1>1, <1>3, LookKnown, DiscardKnown, PollKnown, HarvestKnown, CompleteKnown, TailKnown,
     Names DEF SweepStep
<1>4. ASSUME NEW r \in Rows, WebStep(r) \/ Consume(r) \/ DeadlinePasses(r) PROVE KInv'
  BY <1>1, <1>4, AbandonHandlesKnown, ClockKnown, Names DEF WebStep
<1>5. ASSUME UNCHANGED vars PROVE KInv'
  BY <1>5 DEF vars, KInv
<1> QED
  BY <1>2, <1>3, <1>4, <1>5, SweepReadKnown, AbandonKnown, BatchEndsKnown, CrashKnown DEF Next

LEMMA KnownStart == Init => KInv
<1> SUFFICES ASSUME Init PROVE KInv
  OBVIOUS
<1>1. \A p \in Processes, r \in Rows : hand[p][r] = Idle
  BY DEF Init
<1>2. Known(files, subs) /\ \A r \in Rows : RowKnown(row[r], subs)
  BY DEF Init, Known, RowKnown, FreshRow
<1> QED
  BY <1>1, <1>2, IdleKnown DEF KInv

-----------------------------------------------------------------------------
(* Where the name of each page file is.                                    *)

Live(S) == {f \in S : f[2] = "pages"}

\* What a wave holds accounts for the pages of its submission and for what an
\* earlier try left of the row.
WaveFiles(s, S) ==
  /\ s.step = "claimed" => Pages(s.read.at) \notin S \cup s.read.left
  /\ s.step \in {"uploaded", "created"} => s.files = {Pages(s.read.at)}
  /\ s.step = "failing" => /\ s.files \subseteq {Pages(s.read.at)}
                           /\ Pages(s.read.at) \in S => Pages(s.read.at) \in s.files
  /\ s.step \in {"uploaded", "failing", "created"} => Live(S) \cap s.read.left \subseteq s.left
  /\ s.step = "carry" =>
       Live(S) \cap (s.read.left \cup s.files \cup {Pages(s.read.at)}) \subseteq s.left

OnRow(n, cur) == Pages(n) \in cur.files \cup cur.left

\* The submission is of the row's own claim.
OwnClaim(n, r, cur, log) ==
  log[n].of = <<r, cur.attempt>> /\ cur.status \in InFlight /\ cur.ext = NoId

InWave(n, r, cur, s, log) ==
  /\ s.step \in {"uploaded", "failing", "carry", "created", "cancel"}
  /\ s.read.at = n /\ Pages(n) \in s.files
  /\ cur.status = "cancelled" \/ OwnClaim(n, r, cur, log)

\* Its wave was killed; the sweep that finds it lists its prefix.
LostClaim(n, r, cur, w, s, log) ==
  /\ OwnClaim(n, r, cur, log)
  /\ w.step = "idle" /\ s.step \in {"idle", "swept", "lost", "discard"}

Tracked(n, r, cur, w, s, log, dead) ==
  \/ OnRow(n, cur)
  \/ InWave(n, r, cur, w, log)
  \/ dead /\ (LostClaim(n, r, cur, w, s, log) \/ cur.status = "cancelled")

FInv ==
  /\ \A r \in Rows : WaveFiles(hand["wave"][r], files)
  /\ \A r \in Rows, n \in DOMAIN subs :
       subs[n].of[1] = r /\ Pages(n) \in files =>
         Tracked(n, r, row[r], hand["wave"][r], hand["sweep"][r], subs, killed)

FilesInv == LoopInv /\ KInv /\ FInv

LEMMA WaveFilesShrink ==
  ASSUME NEW s, NEW S, NEW T, T \subseteq S, WaveFiles(s, S) PROVE WaveFiles(s, T)
BY DEF WaveFiles, Live

LEMMA QuietWave ==
  ASSUME NEW s, NEW S,
         s.step \notin {"claimed", "uploaded", "created", "failing", "carry"}
  PROVE  WaveFiles(s, S)
BY DEF WaveFiles

\* Tracked does not see a batch change.
LEMMA TrackedGrows ==
  ASSUME Grow, NEW n \in DOMAIN subs, NEW r, NEW cur, NEW w, NEW s, NEW dead,
         Tracked(n, r, cur, w, s, subs, dead)
  PROVE  Tracked(n, r, cur, w, s, subs', dead)
BY DEF Grow, Tracked, InWave, LostClaim, OwnClaim

\* A step at one row: the others keep what they had.
LEMMA FilesMove ==
  ASSUME FilesInv, Grow, NEW r \in Rows,
         \A q \in Rows \ {r} : /\ row'[q] = row[q]
                               /\ hand'["wave"][q] = hand["wave"][q]
                               /\ hand'["sweep"][q] = hand["sweep"][q]
                               /\ WaveFiles(hand["wave"][q], files'),
         WaveFiles(hand'["wave"][r], files'), UNCHANGED killed,
         \A n \in DOMAIN subs' : subs'[n].of[1] # r /\ Pages(n) \in files'
                                 => n \in DOMAIN subs /\ Pages(n) \in files,
         \A n \in DOMAIN subs' :
           subs'[n].of[1] = r /\ Pages(n) \in files' =>
             Tracked(n, r, row'[r], hand'["wave"][r], hand'["sweep"][r], subs', killed)
  PROVE  FInv'
<1>1. ASSUME NEW q \in Rows, NEW n \in DOMAIN subs', subs'[n].of[1] = q, Pages(n) \in files'
      PROVE  Tracked(n, q, row'[q], hand'["wave"][q], hand'["sweep"][q], subs', killed')
  <2>1. CASE q = r
    BY <1>1, <2>1
  <2>2. CASE q # r
    <3>1. n \in DOMAIN subs /\ Pages(n) \in files
      BY <1>1, <2>2
    <3>2. subs[n].of[1] = q
      BY <1>1, <3>1 DEF Grow
    <3>3. Tracked(n, q, row[q], hand["wave"][q], hand["sweep"][q], subs, killed)
      BY <3>1, <3>2 DEF FilesInv, FInv
    <3> QED
      BY <2>2, <3>1, <3>3, TrackedGrows
  <2> QED
    BY <2>1, <2>2
<1>2. ASSUME NEW q \in Rows PROVE WaveFiles(hand'["wave"][q], files')
  BY <1>2
<1> QED
  BY <1>1, <1>2 DEF FInv

\* What FInv says of a row whose wave is at work: nothing of it is a lost claim.
LEMMA WaveTracks ==
  ASSUME FilesInv, NEW r \in Rows, ~At("wave", r, "idle")
  PROVE  /\ \A q \in Rows \ {r} : hand["wave"][q].step = "idle"
         /\ \A q \in Rows : hand["sweep"][q].step = "idle"
         /\ \A n \in DOMAIN subs : subs[n].of[1] = r /\ Pages(n) \in files =>
              \/ OnRow(n, row[r])
              \/ InWave(n, r, row[r], hand["wave"][r], subs)
              \/ killed /\ row[r].status = "cancelled"
<1>1. /\ \A q \in Rows \ {r} : hand["wave"][q].step = "idle"
      /\ \A q \in Rows : hand["sweep"][q].step = "idle"
  BY DEF FilesInv, LoopInv, LInv, OneLoop, At, Free
<1> QED
  BY <1>1 DEF FilesInv, FInv, Tracked, LostClaim, At

\* A step of the wave.
LEMMA WaveFinds ==
  ASSUME FilesInv, Grow, NEW r \in Rows, NEW t, ~At("wave", r, "idle"), Becomes("wave", r, t),
         \A q \in Rows \ {r} : row'[q] = row[q], WaveFiles(t, files'), UNCHANGED killed,
         \A n \in DOMAIN subs' : subs'[n].of[1] # r /\ Pages(n) \in files'
                                 => n \in DOMAIN subs /\ Pages(n) \in files,
         \A n \in DOMAIN subs' :
           subs'[n].of[1] = r /\ Pages(n) \in files' =>
             \/ OnRow(n, row'[r])
             \/ InWave(n, r, row'[r], t, subs')
             \/ killed /\ row'[r].status = "cancelled"
  PROVE  FInv'
<1>1. /\ hand'["wave"][r] = t
      /\ \A p \in Processes, q \in Rows : p # "wave" \/ q # r => hand'[p][q] = hand[p][q]
  BY SlotIs, Names DEF FilesInv
<1>2. ASSUME NEW q \in Rows \ {r}
      PROVE  /\ row'[q] = row[q] /\ hand'["wave"][q] = hand["wave"][q]
             /\ hand'["sweep"][q] = hand["sweep"][q] /\ WaveFiles(hand["wave"][q], files')
  <2>1. hand["wave"][q].step = "idle"
    BY WaveTracks
  <2>2. WaveFiles(hand["wave"][q], files')
    BY <2>1, QuietWave
  <2> QED
    BY <1>1, <2>2, Names
<1>3. ASSUME NEW n \in DOMAIN subs', subs'[n].of[1] = r, Pages(n) \in files'
      PROVE  Tracked(n, r, row'[r], hand'["wave"][r], hand'["sweep"][r], subs', killed)
  BY <1>1, <1>3 DEF Tracked
<1> QED
  BY <1>1, <1>2, <1>3, FilesMove

\* What FInv says of a row the sweep is at: its wave is idle.
LEMMA SweepTracks ==
  ASSUME FilesInv, NEW r \in Rows, ~At("sweep", r, "idle")
  PROVE  /\ \A q \in Rows : hand["wave"][q].step = "idle"
         /\ \A n \in DOMAIN subs : subs[n].of[1] = r /\ Pages(n) \in files =>
              \/ OnRow(n, row[r])
              \/ killed /\ LostClaim(n, r, row[r], hand["wave"][r], hand["sweep"][r], subs)
              \/ killed /\ row[r].status = "cancelled"
<1>1. \A q \in Rows : hand["wave"][q].step = "idle"
  BY DEF FilesInv, LoopInv, LInv, OneLoop, At, Free
<1> QED
  BY <1>1 DEF FilesInv, FInv, Tracked, InWave

\* A step of the sweep, which adds no page file.
LEMMA SweepFinds ==
  ASSUME FilesInv, Grow, NEW r \in Rows, NEW t, ~At("sweep", r, "idle"), Becomes("sweep", r, t),
         \A q \in Rows \ {r} : row'[q] = row[q], UNCHANGED killed,
         files' \subseteq files, DOMAIN subs' = DOMAIN subs,
         row[r].status = "cancelled" => row'[r].status = "cancelled",
         \A n \in DOMAIN subs :
           subs[n].of[1] = r /\ Pages(n) \in files' =>
             /\ OnRow(n, row[r]) => OnRow(n, row'[r])
             /\ LostClaim(n, r, row[r], hand["wave"][r], hand["sweep"][r], subs) =>
                  \/ OnRow(n, row'[r])
                  \/ OwnClaim(n, r, row'[r], subs) /\ t.step \in {"idle", "lost", "discard"}
  PROVE  FInv'
<1>1. /\ hand'["sweep"][r] = t
      /\ \A p \in Processes, q \in Rows : p # "sweep" \/ q # r => hand'[p][q] = hand[p][q]
  BY SlotIs, Names DEF FilesInv
<1>2. \A q \in Rows : hand["wave"][q].step = "idle" /\ WaveFiles(hand["wave"][q], files')
  BY SweepTracks, QuietWave
<1>3. \A q \in Rows : hand'["wave"][q] = hand["wave"][q]
  BY <1>1, Names
<1>4. ASSUME NEW n \in DOMAIN subs', subs'[n].of[1] = r, Pages(n) \in files'
      PROVE  Tracked(n, r, row'[r], hand'["wave"][r], hand'["sweep"][r], subs', killed)
  <2>1. n \in DOMAIN subs /\ subs[n].of = subs'[n].of /\ Pages(n) \in files
    BY <1>4 DEF Grow
  <2>2. \/ OnRow(n, row[r])
        \/ killed /\ LostClaim(n, r, row[r], hand["wave"][r], hand["sweep"][r], subs)
        \/ killed /\ row[r].status = "cancelled"
    BY <1>4, <2>1, SweepTracks
  <2>3. OwnClaim(n, r, row'[r], subs) => OwnClaim(n, r, row'[r], subs')
    BY <2>1 DEF OwnClaim
  <2> QED
    BY <1>1, <1>2, <1>3, <1>4, <2>1, <2>2, <2>3 DEF Tracked, LostClaim
<1>5. \A q \in Rows \ {r} : /\ row'[q] = row[q] /\ hand'["wave"][q] = hand["wave"][q]
                            /\ hand'["sweep"][q] = hand["sweep"][q]
                            /\ WaveFiles(hand["wave"][q], files')
  BY <1>1, <1>2, <1>3, Names
<1> QED
  BY <1>2, <1>3, <1>4, <1>5, FilesMove

\* What a claimed submission's wave may still assume of its row.
LEMMA WaveClaimIs ==
  ASSUME FilesInv, NEW r \in Rows, Held(hand["wave"][r]), hand["wave"][r].step # "read"
  PROVE  LET s == hand["wave"][r] IN
         /\ s.read.at \in DOMAIN subs /\ subs[s.read.at].of = <<r, s.read.attempt>>
         /\ row[r].status = "cancelled" \/ (row[r] = s.read /\ row[r].status = "submitted")
         /\ row[r].ext = NoId /\ row[r].files = {}
         /\ row[r].status = "cancelled" \/ OwnClaim(s.read.at, r, row[r], subs)
<1>1. /\ Follows(row[r], hand["wave"][r]) /\ RowOK(row[r])
      /\ WaveOK(r, hand["wave"][r], row[r], subs)
  BY Parts DEF FilesInv, JudgeOK
<1> QED
  BY <1>1 DEF WaveOK, Follows, RowOK, OwnClaim, InFlight

LEMMA ClaimFinds == ASSUME FilesInv, NEW r \in Rows, Claim(r) PROVE FInv'
<1> DEFINE s == hand["wave"][r]
           n == Len(subs) + 1
           new == [Claimed(row[r], s.read, CeilingOnce(s.read)) EXCEPT !.at = n]
           mine == [Claimed(s.read, s.read, CeilingOnce(s.read)) EXCEPT !.at = n]
           t == [Idle EXCEPT !.step = "claimed", !.read = mine]
<1>1. /\ s \in Slot /\ s.read \in MistralRow /\ row[r] \in MistralRow
      /\ Known(files, subs) /\ RowKnown(s.read, subs)
  BY KnownParts, Names DEF FilesInv
<1>2. /\ Grow /\ UNCHANGED <<files, killed>> /\ ~At("wave", r, "idle") /\ s.step = "read"
      /\ Len(subs) \in Nat /\ DOMAIN subs = 1..Len(subs)
  BY ClaimGrows, Same DEF Claim, At, FilesInv, LoopInv
<1>3. \A m : Pages(m) \in files \cup s.read.left => m \in DOMAIN subs
  BY <1>1 DEF Known, RowKnown, Pages
<1>4. Swap(r, s.read, new) /\ (Becomes("wave", r, t) \/ Becomes("wave", r, Idle))
  BY DEF Claim, Drops
<1>5. mine.at = n /\ mine.left = s.read.left
  BY <1>1 DEF Claimed, MistralRow
<1>6. new.files = row[r].files /\ new.left = row[r].left
  BY <1>1 DEF Claimed, MistralRow
<1> HIDE DEF new, mine
<1>7. /\ \A q \in Rows \ {r} : row'[q] = row[q]
      /\ (row'[r] = new /\ Matches(row[r], s.read)) \/ row'[r] = row[r]
  BY <1>4, SwapEither DEF FilesInv
<1>8. WaveFiles(t, files') /\ WaveFiles(Idle, files')
  <2>1. t.step = "claimed" /\ t.read = mine
    BY IdleFacts DEF Slot
  <2>2. Pages(n) \notin files' \cup mine.left
    BY <1>2, <1>3, <1>5
  <2> QED
    BY <1>5, <2>1, <2>2, IdleFacts, QuietWave DEF WaveFiles
<1>9. ASSUME NEW m \in DOMAIN subs', Pages(m) \in files'
      PROVE  m \in DOMAIN subs /\ subs'[m].of = subs[m].of /\ Pages(m) \in files
  BY <1>2, <1>3, <1>9 DEF Grow
<1>10. ASSUME NEW m \in DOMAIN subs', subs'[m].of[1] = r, Pages(m) \in files'
       PROVE  OnRow(m, row'[r]) \/ (killed /\ row'[r].status = "cancelled")
  <2>1. OnRow(m, row[r]) \/ (killed /\ row[r].status = "cancelled")
    BY <1>2, <1>9, <1>10, WaveTracks DEF InWave
  <2>2. Matches(row[r], s.read) => row[r].status # "cancelled"
    BY <1>2, Parts DEF FilesInv, WaveOK, Matches
  <2> QED
    BY <1>6, <1>7, <2>1, <2>2 DEF OnRow
<1> HIDE DEF t
<1> QED
  BY <1>2, <1>4, <1>7, <1>8, <1>9, <1>10, WaveFinds

LEMMA UploadFinds ==
  ASSUME FilesInv, "lost" \notin Faults, NEW r \in Rows, Upload(r) PROVE FInv'
<1> DEFINE s == hand["wave"][r]
           n == s.read.at
<1>1. /\ s \in Slot /\ s.step = "claimed" /\ ~At("wave", r, "idle") /\ Held(s)
      /\ s.step # "read"
  BY KnownParts, Names, Parts DEF FilesInv, Upload, At, JudgeOK, Held
<1>2. Grow /\ UNCHANGED <<row, subs, killed>>
  BY SameLog DEF Upload
<1>3. PICK kept, landed, t :
        /\ kept \in Kept(s.read.left) /\ landed \in SUBSET {Pages(n)}
        /\ files' = (files \ (s.read.left \ kept)) \cup landed
        /\ Becomes("wave", r, t)
        /\ \/ /\ t = [s EXCEPT !.step = "uploaded", !.files = {Pages(n)}, !.left = kept]
              /\ landed = {Pages(n)}
           \/ \E why \in Failings :
                t = [s EXCEPT !.step = "failing", !.files = landed, !.left = kept, !.why = why]
  BY DEF Upload
<1>4. /\ t.step \in {"uploaded", "failing"} /\ t.files = landed /\ t.left = kept
      /\ t.read = s.read /\ (t.step = "uploaded" => landed = {Pages(n)})
  BY <1>1, <1>3 DEF Slot
<1>5. Pages(n) \notin files \cup s.read.left
  BY <1>1 DEF FilesInv, FInv, WaveFiles
<1>6. WaveFiles(t, files')
  <2>1. \A f \in files' \cap s.read.left : f \in kept
    BY <1>3, <1>5
  <2>2. Pages(n) \in files' => Pages(n) \in landed
    BY <1>3, <1>5
  <2>3. t.read.at = n /\ t.read.left = s.read.left
    BY <1>4
  <2> HIDE DEF s, n
  <2> QED
    BY <1>3, <1>4, <2>1, <2>2, <2>3 DEF WaveFiles, Live
<1>7. \A m : Pages(m) \in files' => m = n \/ Pages(m) \in files
  BY <1>3 DEF Pages
<1>8. /\ n \in DOMAIN subs /\ subs[n].of = <<r, s.read.attempt>>
      /\ row[r].status = "cancelled" \/ OwnClaim(n, r, row[r], subs)
  BY <1>1, WaveClaimIs
<1>9. ASSUME NEW m \in DOMAIN subs', subs'[m].of[1] = r, Pages(m) \in files'
      PROVE  OnRow(m, row'[r]) \/ InWave(m, r, row'[r], t, subs')
             \/ (killed /\ row'[r].status = "cancelled")
  <2>1. CASE m = n
    <3>1. Pages(n) \in t.files
      BY <1>3, <1>4, <1>5, <1>9, <2>1
    <3>2. InWave(n, r, row[r], t, subs) \/ ~(t.step \in {"uploaded", "failing"} /\ t.read.at = n)
      BY <1>8, <3>1 DEF InWave
    <3>3. row' = row /\ subs' = subs /\ t.read.at = n
      BY <1>2, <1>4
    <3> QED
      BY <1>4, <2>1, <3>2, <3>3
  <2>2. CASE m # n
    BY <1>1, <1>2, <1>7, <1>9, <2>2, WaveTracks DEF InWave
  <2> QED
    BY <2>1, <2>2
<1>10. \A m \in DOMAIN subs' : subs'[m].of[1] # r /\ Pages(m) \in files'
                               => m \in DOMAIN subs /\ Pages(m) \in files
  BY <1>2, <1>7, <1>8
<1> QED
  BY <1>1, <1>2, <1>3, <1>6, <1>9, <1>10, WaveFinds

\* A step of the wave that keeps its hold on the files.
LEMMA WaveHolds ==
  ASSUME FilesInv, Grow, NEW r \in Rows, NEW t, ~At("wave", r, "idle"), Becomes("wave", r, t),
         UNCHANGED <<row, killed>>, files' \subseteq files, DOMAIN subs' = DOMAIN subs,
         WaveFiles(t, files'), t.read = hand["wave"][r].read,
         t.step \in {"uploaded", "failing", "carry", "created", "cancel"},
         hand["wave"][r].files \subseteq t.files
  PROVE  FInv'
<1>1. ASSUME NEW m \in DOMAIN subs', subs'[m].of[1] = r, Pages(m) \in files'
      PROVE  OnRow(m, row'[r]) \/ InWave(m, r, row'[r], t, subs')
             \/ (killed /\ row'[r].status = "cancelled")
  <2>1. m \in DOMAIN subs /\ subs[m].of = subs'[m].of /\ Pages(m) \in files
    BY <1>1 DEF Grow
  <2> QED
    BY <1>1, <2>1, WaveTracks DEF InWave, OwnClaim
<1> QED
  BY <1>1, WaveFinds

LEMMA CreateBatchFinds == ASSUME FilesInv, NEW r \in Rows, CreateBatch(r) PROVE FInv'
<1> DEFINE s == hand["wave"][r]
<1>1. s \in Slot /\ s.step = "uploaded" /\ ~At("wave", r, "idle")
  BY KnownParts, Names DEF FilesInv, CreateBatch, At
<1>2. Grow /\ UNCHANGED <<row, files, killed>> /\ DOMAIN subs' = DOMAIN subs
  BY CreateBatchGrows DEF CreateBatch, FilesInv
<1>3. PICK t : /\ Becomes("wave", r, t)
               /\ t = Goes(s, "created") \/ \E why : t = [s EXCEPT !.step = "failing", !.why = why]
  BY DEF CreateBatch
<1>4. t.step \in {"created", "failing"} /\ t.read = s.read /\ t.files = s.files /\ t.left = s.left
  BY <1>1, <1>3 DEF Goes, Slot
<1>5. WaveFiles(t, files')
  BY <1>1, <1>2, <1>4 DEF FilesInv, FInv, WaveFiles
<1> QED
  BY <1>1, <1>2, <1>3, <1>4, <1>5, WaveHolds

LEMMA LetGoFinds == ASSUME FilesInv, NEW r \in Rows, LetGo(r) PROVE FInv'
<1> DEFINE s == hand["wave"][r]
           t(kept) == [s EXCEPT !.step = "carry", !.left = @ \cup kept]
<1>1. s \in Slot /\ s.step = "failing" /\ ~At("wave", r, "idle")
  BY KnownParts, Names DEF FilesInv, LetGo, At
<1>2. Grow /\ UNCHANGED <<row, subs, killed>>
  BY SameLog DEF LetGo
<1>3. PICK kept \in Kept(s.files) : files' = files \ (s.files \ kept) /\ Becomes("wave", r, t(kept))
  BY DEF LetGo
<1>4. /\ t(kept).step = "carry" /\ t(kept).read = s.read /\ t(kept).files = s.files
      /\ t(kept).left = s.left \cup kept
  BY <1>1 DEF Slot
<1> HIDE DEF t
<1>5. WaveFiles(s, files)
  BY DEF FilesInv, FInv
<1>6. WaveFiles(t(kept), files')
  BY <1>1, <1>3, <1>4, <1>5 DEF WaveFiles, Live
<1> QED
  BY <1>1, <1>2, <1>3, <1>4, <1>6, WaveHolds

LEMMA CarryLeftFinds == ASSUME FilesInv, NEW r \in Rows, CarryLeft(r) PROVE FInv'
<1> DEFINE s == hand["wave"][r]
           tried == s.read.left \cup s.files
           after == AfterCarry(r, s.read, tried, s.left)
           t(u) == IF s.why = "busy" THEN Goes(u, "handback") ELSE ToVerdict(u, s.why)
<1>1. /\ s \in Slot /\ s.read \in MistralRow /\ s.left \in SUBSET Files /\ s.files \in SUBSET Files
      /\ s.step = "carry" /\ ~At("wave", r, "idle")
  BY KnownParts, Names DEF FilesInv, CarryLeft, At
<1>2. Grow /\ UNCHANGED <<subs, files, killed>>
  BY SameLog DEF CarryLeft
<1>3. Live(files) \cap (s.read.left \cup s.files \cup {Pages(s.read.at)}) \subseteq s.left
  BY <1>1 DEF FilesInv, FInv, WaveFiles
<1>4. \A u \in Slot : WaveFiles(t(u), files')
  <2>1. ASSUME NEW u \in Slot PROVE t(u).step \in {"handback", "verdict"}
    BY DEF Goes, ToVerdict, Slot
  <2> HIDE DEF t
  <2> QED
    BY <2>1, QuietWave
<1>5. \A m : Pages(m) \in files => Pages(m) \in Live(files)
  BY DEF Pages, Live
<1>6. ASSUME NEW u \in Slot, Becomes("wave", r, t(u)), \A q \in Rows \ {r} : row'[q] = row[q],
             row'[r].status = row[r].status,
             \A m : Pages(m) \in files =>
               /\ OnRow(m, row[r]) => OnRow(m, row'[r])
               /\ Pages(m) \in s.left => OnRow(m, row'[r])
      PROVE  FInv'
  <2>1. ASSUME NEW m \in DOMAIN subs', subs'[m].of[1] = r, Pages(m) \in files'
        PROVE  OnRow(m, row'[r]) \/ (killed /\ row'[r].status = "cancelled")
    BY <1>1, <1>2, <1>3, <1>5, <1>6, <2>1, WaveTracks DEF InWave
  <2>2. WaveFiles(t(u), files')
    BY <1>4
  <2> HIDE DEF t
  <2> QED
    BY <1>1, <1>2, <1>6, <2>1, <2>2, WaveFinds
<1>7. CASE s.left = {}
  <2>1. UNCHANGED row /\ Becomes("wave", r, t(s))
    BY <1>7 DEF CarryLeft
  <2> HIDE DEF t
  <2> QED
    BY <1>1, <1>6, <1>7, <2>1
<1>8. CASE s.left # {}
  <2>1. Carry(r, s.read, tried, s.left) /\ Becomes("wave", r, t([s EXCEPT !.read = after]))
    BY <1>8 DEF CarryLeft
  <2>2. tried \in SUBSET Files
    BY <1>1 DEF MistralRow
  <2> HIDE DEF tried, after
  <2>3. /\ \A q \in Rows \ {r} : row'[q] = row[q]
        /\ CarriesOver(row[r], row'[r], s.read, after, tried, s.left)
    BY <1>1, <2>1, <2>2, CarryMoves DEF after, FilesInv
  <2>4. after \in MistralRow
    BY <1>1, <2>1, <2>2, CarrySet DEF after, FilesInv, LoopInv
  <2>5. [s EXCEPT !.read = after] \in Slot
    BY <1>1, <2>4, SlotWrites
  <2>6. /\ row'[r].files = row[r].files /\ row'[r].status = row[r].status
        /\ row'[r].left = (row[r].left \ (tried \ s.left)) \cup s.left
    BY <1>8, <2>3 DEF CarriesOver, LedgerOnly
  <2>7. ASSUME NEW m, Pages(m) \in files
        PROVE  /\ OnRow(m, row[r]) => OnRow(m, row'[r])
               /\ Pages(m) \in s.left => OnRow(m, row'[r])
    BY <1>3, <1>5, <2>6, <2>7 DEF OnRow, tried
  <2> HIDE DEF t
  <2> QED
    BY <1>6, <2>1, <2>3, <2>5, <2>6, <2>7
<1> QED
  BY <1>7, <1>8

\* A step of the wave after which every file of the row is named on it.
LEMMA WaveLeavesNamed ==
  ASSUME FilesInv, Grow, NEW r \in Rows, NEW t, ~At("wave", r, "idle"), Becomes("wave", r, t),
         \A q \in Rows \ {r} : row'[q] = row[q], UNCHANGED killed,
         files' \subseteq files, DOMAIN subs' = DOMAIN subs,
         t.step \notin {"claimed", "uploaded", "created", "failing", "carry"},
         row[r].status = "cancelled" => row'[r].status = "cancelled",
         \A n \in DOMAIN subs : Pages(n) \in files' =>
           /\ OnRow(n, row[r]) => OnRow(n, row'[r])
           /\ InWave(n, r, row[r], hand["wave"][r], subs) => OnRow(n, row'[r])
  PROVE  FInv'
<1>1. WaveFiles(t, files')
  BY QuietWave
<1>2. ASSUME NEW m \in DOMAIN subs', subs'[m].of[1] = r, Pages(m) \in files'
      PROVE  OnRow(m, row'[r]) \/ (killed /\ row'[r].status = "cancelled")
  <2>1. m \in DOMAIN subs /\ subs[m].of = subs'[m].of /\ Pages(m) \in files
    BY <1>2 DEF Grow
  <2> QED
    BY <1>2, <2>1, WaveTracks
<1> QED
  BY <1>1, <1>2, WaveFinds

\* A swap that changes no name, and does not touch an abandoned row.
LEMMA SameNames ==
  ASSUME NEW cur, NEW new, new.files = cur.files, new.left = cur.left
  PROVE  \A n : OnRow(n, cur) => OnRow(n, new)
BY DEF OnRow

LEMMA HandBackFinds == ASSUME FilesInv, NEW r \in Rows, HandBack(r) PROVE FInv'
<1> DEFINE s == hand["wave"][r]
           new == HandedBack(row[r])
<1>1. /\ row[r] \in MistralRow /\ s.step = "handback" /\ ~At("wave", r, "idle") /\ Held(s)
  BY KnownParts, Names, Parts DEF FilesInv, HandBack, At, JudgeOK, Held
<1>2. /\ Grow /\ UNCHANGED <<subs, files, killed>> /\ Swap(r, s.read, new)
      /\ Becomes("wave", r, Idle)
  BY SameLog DEF HandBack, Drops
<1>3. new.files = row[r].files /\ new.left = row[r].left
  BY <1>1 DEF HandedBack, Deferred, MistralRow
<1> HIDE DEF new
<1>4. /\ \A q \in Rows \ {r} : row'[q] = row[q]
      /\ row'[r] = IF Matches(row[r], s.read) THEN new ELSE row[r]
  BY <1>2, SwapEither DEF FilesInv
<1>5. row[r].status = "cancelled" => row'[r].status = "cancelled"
  BY <1>1, <1>4, HeldIs DEF Matches, FilesInv
<1>6. \A n : OnRow(n, row[r]) => OnRow(n, row'[r])
  BY <1>3, <1>4, SameNames
<1>7. \A n : ~InWave(n, r, row[r], s, subs)
  BY <1>1 DEF InWave
<1> QED
  BY <1>1, <1>2, <1>4, <1>5, <1>6, <1>7, IdleFacts, WaveLeavesNamed

LEMMA RecordIdFinds == ASSUME FilesInv, NEW r \in Rows, RecordId(r) PROVE FInv'
<1> DEFINE s == hand["wave"][r]
           n == s.read.at
           new == [row[r] EXCEPT !.ext = n, !.files = s.files, !.left = s.left]
           t == [s EXCEPT !.step = "cancel", !.why = "end", !.ext = n, !.files = @ \cup s.left]
<1>1. /\ s \in Slot /\ row[r] \in MistralRow /\ row \in [Rows -> MistralRow]
      /\ s.step = "created" /\ ~At("wave", r, "idle") /\ Held(s) /\ s.step # "read"
  BY KnownParts, Names, Parts DEF FilesInv, LoopInv, TInv, TypeOK, RecordId, At, JudgeOK, Held
<1>2. Grow /\ UNCHANGED <<subs, files, killed>>
  BY SameLog DEF RecordId
<1>3. s.files = {Pages(n)} /\ Live(files) \cap s.read.left \subseteq s.left
  BY <1>1 DEF FilesInv, FInv, WaveFiles
<1>4. CASE Matches(row[r], s.read) /\ row' = [row EXCEPT ![r] = new] /\ Becomes("wave", r, Idle)
  <2>1. new.files = s.files /\ new.left = s.left
    BY <1>1 DEF MistralRow
  <2> HIDE DEF new
  <2>2. row'[r] = new /\ \A q \in Rows \ {r} : row'[q] = row[q]
    BY <1>1, <1>4
  <2>3. row[r] = s.read /\ row[r].status # "cancelled" /\ row[r].files = {}
    BY <1>1, <1>4, HeldIs, WaveClaimIs DEF FilesInv
  <2>4. ASSUME NEW m, Pages(m) \in files PROVE OnRow(m, row[r]) => OnRow(m, row'[r])
    <3>1. Pages(m) \in Live(files)
      BY <2>4 DEF Live, Pages
    <3> QED
      BY <1>3, <2>1, <2>2, <2>3, <3>1 DEF OnRow
  <2>5. \A m : InWave(m, r, row[r], s, subs) => OnRow(m, row'[r])
    BY <2>1, <2>2 DEF InWave, OnRow
  <2> QED
    BY <1>1, <1>2, <1>4, <2>2, <2>3, <2>4, <2>5, IdleFacts, WaveLeavesNamed
<1>5. CASE UNCHANGED row /\ Becomes("wave", r, t)
  <2>1. t.step = "cancel" /\ t.read = s.read /\ t.files = s.files \cup s.left
    BY <1>1 DEF Slot
  <2> HIDE DEF t
  <2>2. WaveFiles(t, files')
    BY <2>1, QuietWave
  <2> QED
    BY <1>1, <1>2, <1>5, <2>1, <2>2, WaveHolds
<1> QED
  BY <1>4, <1>5 DEF RecordId, Drops

\* What a write-off or a retry does to the names of its row, whoever does it: files
\* that are still there stay named, and what the wave held is named before it goes.
LEMMA WriteOffNames ==
  ASSUME FilesInv, NEW p \in Processes, NEW r \in Rows, WriteOffNext(p, r)
  PROVE  \E t :
           /\ Becomes(p, r, t) /\ t.step \in {"idle"} \cup Judged
           /\ hand[p][r].step \in Judged
           /\ Grow /\ DOMAIN subs' = DOMAIN subs /\ UNCHANGED killed /\ files' \subseteq files
           /\ \A q \in Rows \ {r} : row'[q] = row[q]
           /\ row[r].status = "cancelled" => row'[r].status = "cancelled"
           /\ \A n : Pages(n) \in files' => (OnRow(n, row[r]) => OnRow(n, row'[r]))
           /\ hand[p][r].step = "cancel" =>
                \A n : Pages(n) \in hand[p][r].files => OnRow(n, row'[r])
<1> DEFINE s == hand[p][r]
<1>1. /\ s \in Slot /\ s.read \in MistralRow /\ row[r] \in MistralRow /\ s.files \in SUBSET Files
      /\ p \in {"wave", "sweep", "web"}
  BY KnownParts DEF FilesInv, Processes
<1>2. s.step \in {"verdict", "rewrite"} => p \in {"wave", "sweep"} /\ Held(s)
  BY <1>1, Parts DEF FilesInv, WebOK, Held, JudgeOK
<1>3. s.step = "cancel" => row[r].files \subseteq s.files
  BY <1>1, Parts DEF FilesInv, WebOK, JudgeOK
<1>4. CASE Verdict(p, r)
  <2> DEFINE new == WithStatus(row[r], "failed")
  <2>1. PICK t : /\ Becomes(p, r, t)
                 /\ t = Idle \/ \E why : t = ToCancel(s, why)
                 /\ Swap(r, s.read, new) \/ UNCHANGED row
    BY <1>4 DEF Verdict
  <2>2. t.step \in {"idle", "cancel"}
    BY <1>1, <2>1, CancelIs, IdleFacts
  <2>3. s.step = "verdict" /\ Grow /\ UNCHANGED <<subs, files, killed>>
    BY <1>4, SameLog DEF Verdict, At
  <2>4. new.files = row[r].files /\ new.left = row[r].left
    BY <1>1 DEF WithStatus, MistralRow
  <2> HIDE DEF new
  <2>5. /\ \A q \in Rows \ {r} : row'[q] = row[q]
        /\ row'[r] = row[r] \/ (row'[r] = new /\ Matches(row[r], s.read))
    BY <2>1, SwapEither DEF FilesInv
  <2>6. row[r].status = "cancelled" => row'[r].status = "cancelled"
    BY <1>2, <2>3, <2>5, HeldIs DEF FilesInv, Matches
  <2>7. \A n : OnRow(n, row[r]) => OnRow(n, row'[r])
    BY <2>4, <2>5, SameNames
  <2>8. t.step \in {"idle"} \cup Judged /\ s.step \in Judged /\ s.step # "cancel"
    BY <2>2, <2>3 DEF Judged
  <2> QED
    BY <2>1, <2>3, <2>5, <2>6, <2>7, <2>8
<1>5. CASE Cancel(p, r)
  <2>1. s.step = "cancel" /\ Grow /\ UNCHANGED <<files, killed>>
    BY <1>5, CancelGrows DEF Cancel, At, FilesInv
  <2>2. DOMAIN subs' = DOMAIN subs
    BY <1>5 DEF Cancel
  <2>3. PICK t :
          /\ Becomes(p, r, t) /\ t.step = "delete"
          /\ \A q \in Rows \ {r} : row'[q] = row[q]
          /\ LedgerOnly(row[r], row'[r])
          /\ \/ row'[r].left = row[r].left \cup s.files /\ row'[r].files = {}
             \/ s.files = {} /\ UNCHANGED row
    BY <1>1, <1>5, CancelNames DEF FilesInv
  <2>4. \A n : Pages(n) \in s.files => OnRow(n, row'[r])
    BY <2>3 DEF OnRow
  <2>5. \A n : OnRow(n, row[r]) => OnRow(n, row'[r])
    BY <1>3, <2>1, <2>3 DEF OnRow
  <2>6. row[r].status = "cancelled" => row'[r].status = "cancelled"
    BY <2>3 DEF LedgerOnly
  <2>7. t.step \in {"idle"} \cup Judged /\ s.step \in Judged
    BY <2>1, <2>3 DEF Judged
  <2> QED
    BY <2>1, <2>2, <2>3, <2>4, <2>5, <2>6, <2>7
<1>6. CASE Delete(p, r)
  <2> DEFINE after(kept) == AfterCarry(r, s.read, s.files, kept)
             done(kept) == [s EXCEPT !.read = after(kept)]
  <2>1. PICK kept, t :
          /\ kept \in Kept(s.files)
          /\ files' = files \ (s.files \ kept) /\ Carry(r, s.read, s.files, kept)
          /\ Becomes(p, r, t)
          /\ t = CASE s.why = "retry" -> Goes(done(kept), "rewrite")
                   [] s.why = "late"  -> ToVerdict(done(kept), "retry")
                   [] OTHER           -> Idle
    BY <1>6 DEF Delete
  <2>2. kept \in SUBSET Files
    BY <1>1, <2>1, KeptIn
  <2>3. t.step \in {"idle", "rewrite", "verdict"}
    <3>1. done(kept) \in Slot
      BY <1>1, <2>1, <2>2, CarrySet, SlotWrites DEF FilesInv, LoopInv
    <3> HIDE DEF done
    <3>2. Goes(done(kept), "rewrite").step = "rewrite"
      BY <3>1 DEF Goes, Slot
    <3>3. ToVerdict(done(kept), "retry").step = "verdict"
      BY <3>1, VerdictIs
    <3> QED
      BY <2>1, <3>2, <3>3, IdleFacts
  <2> HIDE DEF after
  <2>4. /\ \A q \in Rows \ {r} : row'[q] = row[q]
        /\ CarriesOver(row[r], row'[r], s.read, after(kept), s.files, kept)
    BY <1>1, <2>1, <2>2, CarryMoves DEF after, FilesInv
  <2>5. /\ row'[r].status = row[r].status /\ row'[r].files = row[r].files
        /\ row[r].left \ (s.files \ kept) \subseteq row'[r].left
    BY <2>4 DEF CarriesOver, LedgerOnly
  <2>6. ASSUME NEW n, Pages(n) \in files', OnRow(n, row[r]) PROVE OnRow(n, row'[r])
    BY <2>1, <2>5, <2>6 DEF OnRow
  <2>7. s.step = "delete" /\ Grow /\ UNCHANGED <<subs, killed>>
    BY <1>6, SameLog DEF Delete, At
  <2>8. t.step \in {"idle"} \cup Judged /\ s.step \in Judged /\ s.step # "cancel"
    BY <2>3, <2>7 DEF Judged
  <2> QED
    BY <2>1, <2>4, <2>5, <2>6, <2>7, <2>8
<1>7. CASE Rewrite(p, r)
  <2> DEFINE new == NextAttempt(row[r], s.read)
  <2>1. /\ s.step = "rewrite" /\ Grow /\ UNCHANGED <<subs, files, killed>>
        /\ Swap(r, s.read, new) /\ Becomes(p, r, Idle)
    BY <1>7, SameLog DEF Rewrite, Drops, At
  <2>2. new.files = s.read.files /\ new.left = s.read.left
    BY <1>1 DEF NextAttempt, Retried, MistralRow
  <2> HIDE DEF new
  <2>3. /\ \A q \in Rows \ {r} : row'[q] = row[q]
        /\ row'[r] = row[r] \/ (row'[r] = new /\ Matches(row[r], s.read))
    BY <2>1, SwapEither DEF FilesInv
  <2>4. Matches(row[r], s.read) => row[r] = s.read /\ row[r].status # "cancelled"
    BY <1>2, <2>1, HeldIs DEF FilesInv
  <2>5. \A n : OnRow(n, row[r]) => OnRow(n, row'[r])
    BY <2>2, <2>3, <2>4 DEF OnRow
  <2>6. Idle.step \in {"idle"} \cup Judged /\ s.step \in Judged /\ s.step # "cancel"
    BY <2>1, IdleFacts DEF Judged
  <2> QED
    BY <2>1, <2>3, <2>4, <2>5, <2>6
<1> QED
  BY <1>4, <1>5, <1>6, <1>7 DEF WriteOffNext

\* A step of the web process: it writes only on abandoned rows, so nothing of the
\* row is a lost claim, and what its wave holds the wave goes on holding.
LEMMA WebFinds ==
  ASSUME FilesInv, Grow, NEW r \in Rows, NEW t, ~At("web", r, "idle"), Becomes("web", r, t),
         \A q \in Rows \ {r} : row'[q] = row[q], UNCHANGED killed,
         files' \subseteq files, DOMAIN subs' = DOMAIN subs,
         row'[r].status = "cancelled",
         \A n : Pages(n) \in files' => (OnRow(n, row[r]) => OnRow(n, row'[r]))
  PROVE  FInv'
<1>1. \A p \in Processes, q \in Rows : p # "web" \/ q # r => hand'[p][q] = hand[p][q]
  BY SlotIs, Names DEF FilesInv
<1>2. \A q \in Rows : hand'["wave"][q] = hand["wave"][q] /\ hand'["sweep"][q] = hand["sweep"][q]
  BY <1>1, Names
<1>3. \A q \in Rows : WaveFiles(hand["wave"][q], files')
  BY WaveFilesShrink DEF FilesInv, FInv
<1>4. row[r].status = "cancelled"
  BY Parts DEF FilesInv, WebOK, At
<1>5. ASSUME NEW n \in DOMAIN subs', subs'[n].of[1] = r, Pages(n) \in files'
      PROVE  Tracked(n, r, row'[r], hand'["wave"][r], hand'["sweep"][r], subs', killed)
  <2>1. n \in DOMAIN subs /\ subs[n].of = subs'[n].of /\ Pages(n) \in files
    BY <1>5 DEF Grow
  <2>2. Tracked(n, r, row[r], hand["wave"][r], hand["sweep"][r], subs, killed)
    BY <1>5, <2>1 DEF FilesInv, FInv
  <2> QED
    BY <1>2, <1>4, <1>5, <2>2 DEF Tracked, InWave
<1> QED
  BY <1>2, <1>3, <1>5, FilesMove

LEMMA WriteOffFinds ==
  ASSUME FilesInv, NEW p \in Processes, NEW r \in Rows, WriteOffNext(p, r) PROVE FInv'
<1> DEFINE s == hand[p][r]
<1>1. PICK t :
        /\ Becomes(p, r, t) /\ t.step \in {"idle"} \cup Judged
        /\ s.step \in Judged
        /\ Grow /\ DOMAIN subs' = DOMAIN subs /\ UNCHANGED killed /\ files' \subseteq files
        /\ \A q \in Rows \ {r} : row'[q] = row[q]
        /\ row[r].status = "cancelled" => row'[r].status = "cancelled"
        /\ \A n : Pages(n) \in files' => (OnRow(n, row[r]) => OnRow(n, row'[r]))
        /\ s.step = "cancel" => \A n : Pages(n) \in s.files => OnRow(n, row'[r])
  BY WriteOffNames
<1>2. ~At(p, r, "idle")
  BY <1>1 DEF At, Judged
<1>3. CASE p = "wave"
  <2>1. \A n : InWave(n, r, row[r], s, subs) => OnRow(n, row'[r])
    BY <1>1 DEF InWave, Judged
  <2>2. t.step \notin {"claimed", "uploaded", "created", "failing", "carry"}
    BY <1>1 DEF Judged
  <2> QED
    BY <1>1, <1>2, <1>3, <2>1, <2>2, WaveLeavesNamed
<1>4. CASE p = "sweep"
  <2>1. \A n : ~LostClaim(n, r, row[r], hand["wave"][r], s, subs)
    BY <1>1 DEF LostClaim, Judged
  <2> QED
    BY <1>1, <1>2, <1>4, <2>1, SweepFinds
<1>5. CASE p = "web"
  <2>1. row[r].status = "cancelled"
    BY <1>2, <1>5, Parts DEF FilesInv, WebOK, At
  <2> QED
    BY <1>1, <1>2, <1>5, <2>1, WebFinds
<1> QED
  BY <1>3, <1>4, <1>5 DEF Processes

LEMMA AbandonHandlesFinds == ASSUME FilesInv, NEW r \in Rows, AbandonHandles(r) PROVE FInv'
<1>1. /\ Grow /\ UNCHANGED <<row, subs, files, killed>> /\ ~At("web", r, "idle")
      /\ \E t : Becomes("web", r, t)
  BY SameLog DEF AbandonHandles, At
<1>2. row[r].status = "cancelled"
  BY <1>1, Parts DEF FilesInv, WebOK, At
<1> QED
  BY <1>1, <1>2, WebFinds

-----------------------------------------------------------------------------
(* The sweep: a claim it gives up was searched first.                      *)

\* The sweep holds a row that names a batch: no lost claim.
LEMMA NamedIsNotLost ==
  ASSUME FilesInv, NEW r \in Rows, hand["sweep"][r].step \in Looking,
         hand["sweep"][r].read.ext # NoId
  PROVE  \A n, w, s, log : ~LostClaim(n, r, row[r], w, s, log)
<1>1. Follows(row[r], hand["sweep"][r])
  BY LookingIs DEF FilesInv
<1> QED
  BY <1>1 DEF Follows, LostClaim, OwnClaim, InFlight

LEMMA LookFinds ==
  ASSUME FilesInv, NEW r \in Rows, LookClaim(r) \/ LookAgain(r) PROVE FInv'
<1> DEFINE s == hand["sweep"][r]
<1>1. PICK t : /\ Becomes("sweep", r, t) /\ UNCHANGED <<row, files, subs, results, killed>>
               /\ t = Idle \/ t = Goes(s, "lost") \/ t = Goes(s, "discard")
               /\ s.step \in {"swept", "lost"}
  BY DEF LookClaim, LookAgain, Drops, Turn, At
<1>2. s \in Slot
  BY KnownParts, Names DEF FilesInv
<1>3. t.step \in {"idle", "lost", "discard"}
  BY <1>1, <1>2, IdleFacts DEF Goes, Slot
<1>4. Grow /\ ~At("sweep", r, "idle")
  BY <1>1, SameLog DEF At
<1>5. \A n : LostClaim(n, r, row[r], hand["wave"][r], s, subs) => OwnClaim(n, r, row'[r], subs)
  BY <1>1 DEF LostClaim
<1> QED
  BY <1>1, <1>3, <1>4, <1>5, SweepFinds

LEMMA DiscardFinds == ASSUME FilesInv, NEW r \in Rows, Discard(r) PROVE FInv'
<1> DEFINE s == hand["sweep"][r]
           tried == Found(r, s.read) \cup s.read.left
           after(kept) == AfterCarry(r, s.read, tried, kept)
           t(kept) == ToVerdict([s EXCEPT !.read = after(kept)], "retry")
<1>1. /\ s \in Slot /\ s.read \in MistralRow /\ files \subseteq Files
      /\ s.step = "discard" /\ ~At("sweep", r, "idle")
      /\ Follows(row[r], s)
  <2>1. s.step = "discard" /\ ~At("sweep", r, "idle")
    BY DEF Discard, At
  <2> QED
    BY <2>1, KnownParts, Names, Same, LookingIs DEF FilesInv, LoopInv, Looking
<1>2. Grow /\ UNCHANGED <<subs, killed>>
  BY SameLog DEF Discard
<1>3. tried \in SUBSET Files
  BY <1>1 DEF Found, MistralRow
<1>4. ASSUME NEW n, Pages(n) \in files, LostClaim(n, r, row[r], hand["wave"][r], s, subs)
      PROVE  Pages(n) \in tried
  BY <1>1, <1>4 DEF LostClaim, OwnClaim, Follows, Found, Pages, InFlight
<1> HIDE DEF tried
<1>5. ASSUME NEW kept \in Kept(tried), files' = files \ (tried \ kept),
             Carry(r, s.read, tried, kept), Becomes("sweep", r, t(kept))
      PROVE  FInv'
  <2>1. kept \in SUBSET Files
    BY <1>3, KeptIn
  <2> HIDE DEF after
  <2>2. /\ \A q \in Rows \ {r} : row'[q] = row[q]
        /\ CarriesOver(row[r], row'[r], s.read, after(kept), tried, kept)
    BY <1>1, <1>3, <1>5, <2>1, CarryMoves DEF after, FilesInv
  <2>3. /\ row'[r].status = row[r].status /\ row'[r].files = row[r].files
        /\ row[r].left \ (tried \ kept) \subseteq row'[r].left /\ kept \subseteq row'[r].left
    BY <2>2 DEF CarriesOver, LedgerOnly
  <2>4. ASSUME NEW n, Pages(n) \in files'
        PROVE  /\ OnRow(n, row[r]) => OnRow(n, row'[r])
               /\ Pages(n) \in files /\ (Pages(n) \in tried => OnRow(n, row'[r]))
    BY <1>5, <2>3, <2>4 DEF OnRow
  <2> HIDE DEF t
  <2> QED
    BY <1>1, <1>2, <1>4, <1>5, <2>2, <2>3, <2>4, SweepFinds
<1>6. CASE Drops("sweep", r) /\ UNCHANGED <<row, files>>
  BY <1>1, <1>2, <1>6, IdleFacts, SweepFinds DEF Drops, LostClaim
<1> QED
  BY <1>5, <1>6 DEF Discard, tried

LEMMA NameOutputsFinds ==
  ASSUME FilesInv, NEW r \in Rows, NEW why, NameOutputs(r, hand["sweep"][r], why), Grow,
         UNCHANGED <<subs, files, killed>>, hand["sweep"][r].step \in Looking,
         hand["sweep"][r].read.ext # NoId
  PROVE  FInv'
<1> DEFINE s == hand["sweep"][r]
           named == Naming(row[r], Outputs(s.read))
<1>1. row[r] \in MistralRow /\ row \in [Rows -> MistralRow] /\ ~At("sweep", r, "idle")
  BY LookingIs DEF FilesInv
<1>2. /\ row' = [row EXCEPT ![r] = named] \/ UNCHANGED row
      /\ \E t : Becomes("sweep", r, t)
  BY DEF NameOutputs
<1>3. named.status = row[r].status /\ named.files = row[r].files /\ row[r].left \subseteq named.left
  BY <1>1 DEF Naming, MistralRow
<1> HIDE DEF named
<1>4. /\ \A q \in Rows \ {r} : row'[q] = row[q]
      /\ row'[r] \in {named, row[r]}
  BY <1>1, <1>2
<1>5. \A n : OnRow(n, row[r]) => OnRow(n, row'[r])
  BY <1>3, <1>4 DEF OnRow
<1>6. row[r].status = "cancelled" => row'[r].status = "cancelled"
  BY <1>3, <1>4
<1> QED
  BY <1>1, <1>2, <1>4, <1>5, <1>6, NamedIsNotLost, SweepFinds

\* The sweep looks at a batch and changes no name.
LEMMA LookingFinds ==
  ASSUME FilesInv, NEW r \in Rows, NEW t, Becomes("sweep", r, t), Grow,
         UNCHANGED <<subs, files, killed>>, hand["sweep"][r].step \in Looking,
         hand["sweep"][r].read.ext # NoId, \A q \in Rows \ {r} : row'[q] = row[q],
         row[r].status = "cancelled" => row'[r].status = "cancelled",
         \A n : Pages(n) \in files => (OnRow(n, row[r]) => OnRow(n, row'[r]))
  PROVE  FInv'
<1>1. ~At("sweep", r, "idle")
  BY DEF At, Looking
<1> QED
  BY <1>1, NamedIsNotLost, SweepFinds

LEMMA PollFinds == ASSUME FilesInv, NEW r \in Rows, Poll(r) PROVE FInv'
<1> DEFINE s == hand["sweep"][r]
           new == Refreshed(WithStatus(row[r], "in_progress"), s.read)
<1>1. /\ s.step \in Looking /\ s.read.ext # NoId /\ Grow /\ UNCHANGED <<subs, files, killed>>
      /\ row[r] \in MistralRow /\ Follows(row[r], s)
  <2>1. s.step \in Looking
    BY DEF Poll, Turn, At, Looking
  <2> QED
    BY <2>1, LookingIs, SameLog DEF Poll, FilesInv
<1>2. CASE UNCHANGED row /\ \E t : Becomes("sweep", r, t)
  BY <1>1, <1>2, LookingFinds
<1>3. CASE Swap(r, s.read, new) /\ \E t : Becomes("sweep", r, t)
  <2>1. new.files = s.read.files /\ new.left = s.read.left
    <3>1. WithStatus(row[r], "in_progress") \in MistralRow
      BY <1>1, RowWrites, StatusFacts
    <3> QED
      BY <3>1, CopyWrites
  <2> HIDE DEF new
  <2>2. /\ \A q \in Rows \ {r} : row'[q] = row[q]
        /\ row'[r] = row[r] \/ (row'[r] = new /\ Matches(row[r], s.read))
    BY <1>3, SwapEither DEF FilesInv
  <2>3. Matches(row[r], s.read) => row[r] = s.read /\ row[r].status # "cancelled"
    <3>1. Held(s)
      BY <1>1, LookingIs DEF FilesInv
    <3> QED
      BY <3>1, HeldIs DEF FilesInv
  <2>4. \A n : OnRow(n, row[r]) => OnRow(n, row'[r])
    BY <2>1, <2>2, <2>3 DEF OnRow
  <2> QED
    BY <1>1, <1>3, <2>2, <2>3, <2>4, LookingFinds
<1>4. CASE \E why \in {"retry", "fail"} : NameOutputs(r, s, why)
  BY <1>1, <1>4, NameOutputsFinds
<1> QED
  BY <1>2, <1>3, <1>4 DEF Poll

LEMMA HarvestFinds == ASSUME FilesInv, NEW r \in Rows, Harvest(r) PROVE FInv'
<1> DEFINE s == hand["sweep"][r]
<1>1. s.step \in Looking /\ s.read.ext # NoId /\ Grow /\ UNCHANGED <<subs, files, killed>>
  <2>1. s.step = "harvest"
    BY DEF Harvest, At
  <2> QED
    BY <2>1, Parts, HarvestGrows DEF Harvest, FilesInv, SweepOK, Looking
<1>2. CASE UNCHANGED row /\ \E t : Becomes("sweep", r, t)
  BY <1>1, <1>2, LookingFinds
<1>3. CASE NameOutputs(r, s, "retry")
  BY <1>1, <1>3, NameOutputsFinds
<1> QED
  BY <1>2, <1>3 DEF Harvest

LEMMA CompleteFinds == ASSUME FilesInv, NEW r \in Rows, Complete(r) PROVE FInv'
<1> DEFINE s == hand["sweep"][r]
           all == s.read.files \cup s.read.left \cup Outputs(s.read)
           new == [row[r] EXCEPT !.status = "completed", !.files = {}, !.left = all]
<1>1. /\ s.step \in Looking /\ s.read.ext # NoId /\ Grow /\ UNCHANGED <<subs, files, killed>>
      /\ row[r] \in MistralRow /\ row \in [Rows -> MistralRow] /\ Held(s)
  <2>1. s.step = "stored"
    BY DEF Complete, At
  <2> QED
    BY <2>1, Parts, LookingIs, SameLog DEF Complete, FilesInv, SweepOK, Looking
<1>2. CASE UNCHANGED row /\ \E t : Becomes("sweep", r, t)
  BY <1>1, <1>2, LookingFinds
<1>3. CASE Matches(row[r], s.read) /\ row' = [row EXCEPT ![r] = new] /\ \E t : Becomes("sweep", r, t)
  <2>1. new.files = {} /\ new.left = all
    BY <1>1 DEF MistralRow
  <2> HIDE DEF new
  <2>2. row'[r] = new /\ \A q \in Rows \ {r} : row'[q] = row[q]
    BY <1>1, <1>3
  <2>3. row[r] = s.read /\ row[r].status # "cancelled"
    BY <1>1, <1>3, HeldIs DEF FilesInv
  <2>4. \A n : OnRow(n, row[r]) => OnRow(n, row'[r])
    BY <2>1, <2>2, <2>3 DEF OnRow
  <2> QED
    BY <1>1, <1>3, <2>2, <2>3, <2>4, LookingFinds
<1> QED
  BY <1>2, <1>3 DEF Complete

-----------------------------------------------------------------------------
(* The other steps.                                                        *)

\* Both ticks look at a row afresh only where no claim of it can be lost, or where
\* they look for one.
LEMMA WaveReadFinds == ASSUME FilesInv, NEW r \in Rows, WaveRead(r) PROVE FInv'
<1> DEFINE t == [Idle EXCEPT !.step = "read", !.read = row[r]]
<1>1. /\ Grow /\ UNCHANGED <<row, subs, files, killed>> /\ Becomes("wave", r, t)
      /\ \A q \in Rows : hand["wave"][q].step = "idle" /\ row[r].status = "pending"
  BY SameLog DEF WaveRead, SubmitIdle, Free, At
<1>2. t.step = "read"
  BY IdleFacts DEF Slot
<1> HIDE DEF t
<1>3. /\ hand'["wave"][r] = t
      /\ \A p \in Processes, q \in Rows : p # "wave" \/ q # r => hand'[p][q] = hand[p][q]
  BY <1>1, SlotIs, Names DEF FilesInv
<1>4. ASSUME NEW n \in DOMAIN subs', subs'[n].of[1] = r, Pages(n) \in files'
      PROVE  Tracked(n, r, row'[r], hand'["wave"][r], hand'["sweep"][r], subs', killed)
  <2>1. Tracked(n, r, row[r], hand["wave"][r], hand["sweep"][r], subs, killed)
    BY <1>1, <1>4 DEF FilesInv, FInv
  <2>2. OnRow(n, row[r])
    BY <1>1, <2>1 DEF Tracked, InWave, LostClaim, OwnClaim, InFlight
  <2> QED
    BY <1>1, <2>2 DEF Tracked
<1>5. \A q \in Rows : WaveFiles(hand["wave"][q], files')
  BY <1>1, QuietWave
<1>6. WaveFiles(hand'["wave"][r], files')
  BY <1>2, <1>3, QuietWave
<1>7. \A q \in Rows \ {r} : /\ hand'["wave"][q] = hand["wave"][q]
                            /\ hand'["sweep"][q] = hand["sweep"][q]
  BY <1>3, Names
<1> QED
  BY <1>1, <1>4, <1>5, <1>6, <1>7, FilesMove

\* Steps that add no page file and leave each its reason.
LEMMA FilesStay ==
  ASSUME FilesInv, Grow, DOMAIN subs' = DOMAIN subs,
         Live(files') \subseteq files,
         \A r \in Rows : \/ hand'["wave"][r] = hand["wave"][r]
                         \/ hand'["wave"][r].step = "idle",
         \A r \in Rows, n \in DOMAIN subs :
           Tracked(n, r, row[r], hand["wave"][r], hand["sweep"][r], subs, killed) =>
             Tracked(n, r, row'[r], hand'["wave"][r], hand'["sweep"][r], subs, killed')
  PROVE  FInv'
<1>1. ASSUME NEW r \in Rows PROVE WaveFiles(hand'["wave"][r], files')
  <2>1. CASE hand'["wave"][r].step = "idle"
    BY <2>1, QuietWave
  <2>2. CASE hand'["wave"][r] = hand["wave"][r]
    <3>1. WaveFiles(hand["wave"][r], files)
      BY DEF FilesInv, FInv
    <3>2. Live(files') \subseteq Live(files) /\ \A n : Pages(n) \in files' => Pages(n) \in files
      BY DEF Live, Pages
    <3> QED
      BY <2>2, <3>1, <3>2 DEF WaveFiles
  <2> QED
    BY <2>1, <2>2
<1>2. ASSUME NEW r \in Rows, NEW n \in DOMAIN subs', subs'[n].of[1] = r, Pages(n) \in files'
      PROVE  Tracked(n, r, row'[r], hand'["wave"][r], hand'["sweep"][r], subs', killed')
  <2>1. n \in DOMAIN subs /\ subs[n].of = subs'[n].of /\ Pages(n) \in files
    BY <1>2 DEF Grow, Live, Pages
  <2>2. Tracked(n, r, row[r], hand["wave"][r], hand["sweep"][r], subs, killed)
    BY <1>2, <2>1 DEF FilesInv, FInv
  <2> QED
    BY <2>1, <2>2, TrackedGrows
<1> QED
  BY <1>1, <1>2 DEF FInv

LEMMA SweepReadFinds == ASSUME FilesInv, SweepRead PROVE FInv'
<1> DEFINE t(r) == [Idle EXCEPT !.step = "swept", !.read = row[r]]
<1>1. Grow /\ UNCHANGED <<row, subs, files, killed>> /\ SweepDone
  BY SameLog DEF SweepRead
<1>2. ASSUME NEW r \in Rows
      PROVE  /\ hand'["wave"][r] = hand["wave"][r]
             /\ hand'["sweep"][r].step \in {"idle", "swept"}
  <2>1. hand'["wave"][r] = hand["wave"][r] /\ hand'["sweep"][r] \in {t(r), Idle}
    BY Names DEF SweepRead, FilesInv, LoopInv, TInv, TypeOK
  <2>2. t(r).step = "swept" /\ Idle.step = "idle"
    BY IdleFacts DEF Slot
  <2> QED
    BY <2>1, <2>2
<1>3. ASSUME NEW r \in Rows, NEW n \in DOMAIN subs,
             Tracked(n, r, row[r], hand["wave"][r], hand["sweep"][r], subs, killed)
      PROVE  Tracked(n, r, row'[r], hand'["wave"][r], hand'["sweep"][r], subs, killed')
  BY <1>1, <1>2, <1>3 DEF Tracked, LostClaim
<1> QED
  BY <1>1, <1>2, <1>3, FilesStay DEF Live

LEMMA TailFinds ==
  ASSUME FilesInv, NEW r \in Rows, StrandedRead(r) \/ LeftoverRead(r) PROVE FInv'
<1>1. /\ Grow /\ UNCHANGED <<row, subs, files, killed>> /\ row[r].status \notin InFlight
      /\ \E t : Becomes("sweep", r, t)
  <2>1. "pending" \notin InFlight
    BY StatusFacts
  <2> QED
    BY <2>1, SameLog DEF StrandedRead, LeftoverRead, SweepIs
<1>2. \A p \in Processes, q \in Rows : p # "sweep" \/ q # r => hand'[p][q] = hand[p][q]
  BY <1>1, SlotIs, Names DEF FilesInv
<1>3. \A q \in Rows : hand'["wave"][q] = hand["wave"][q]
  BY <1>2, Names
<1>4. ASSUME NEW q \in Rows, NEW n \in DOMAIN subs,
             Tracked(n, q, row[q], hand["wave"][q], hand["sweep"][q], subs, killed)
      PROVE  Tracked(n, q, row'[q], hand'["wave"][q], hand'["sweep"][q], subs, killed')
  <2>1. CASE q = r
    BY <1>1, <1>3, <1>4, <2>1 DEF Tracked, LostClaim, OwnClaim
  <2>2. CASE q # r
    BY <1>1, <1>2, <1>4, <2>2, Names
  <2> QED
    BY <2>1, <2>2
<1> QED
  BY <1>1, <1>3, <1>4, FilesStay DEF Live

\* What a wave uploads for a row abandoned under it, it holds on; what a killed one
\* left nothing looks for.
LEMMA AbandonFinds == ASSUME FilesInv, Abandon PROVE FInv'
<1>1. PICK doomed \in SUBSET Rows :
        /\ \A r \in Rows : row'[r] = IF r \in doomed THEN WithStatus(row[r], "cancelled")
                                                     ELSE row[r]
        /\ hand' = [hand EXCEPT !["web"] = [r \in Rows |->
                      IF r \in doomed \cap InFlightRows THEN Goes(Idle, "handles") ELSE Idle]]
        /\ UNCHANGED <<subs, files, results, stops, killed>>
  BY AbandonIs DEF FilesInv, LoopInv
<1>2. Grow
  BY <1>1, SameLog
<1>3. \A r \in Rows : hand'["wave"][r] = hand["wave"][r] /\ hand'["sweep"][r] = hand["sweep"][r]
  BY <1>1, Names DEF FilesInv, LoopInv, TInv, TypeOK
<1>4. ASSUME NEW r \in Rows, NEW n \in DOMAIN subs,
             Tracked(n, r, row[r], hand["wave"][r], hand["sweep"][r], subs, killed)
      PROVE  Tracked(n, r, row'[r], hand'["wave"][r], hand'["sweep"][r], subs, killed')
  <2>1. CASE r \notin doomed
    BY <1>1, <1>3, <1>4, <2>1
  <2>2. CASE r \in doomed
    <3>1. row[r] \in MistralRow
      BY KnownParts, Names DEF FilesInv
    <3>2. /\ row'[r].status = "cancelled" /\ row'[r].files = row[r].files
          /\ row'[r].left = row[r].left
      BY <1>1, <2>2, <3>1 DEF WithStatus, MistralRow
    <3> QED
      BY <1>1, <1>3, <1>4, <3>2 DEF Tracked, OnRow, InWave
  <2> QED
    BY <2>1, <2>2
<1> QED
  BY <1>1, <1>2, <1>3, <1>4, FilesStay DEF Live

LEMMA ClockFinds ==
  ASSUME FilesInv, NEW r \in Rows, Consume(r) \/ DeadlinePasses(r) PROVE FInv'
<1>1. Grow /\ UNCHANGED <<hand, subs, files, killed>>
  BY SameLog DEF Consume, DeadlinePasses
<1>2. row \in [Rows -> MistralRow] /\ row[r] \in MistralRow
  BY KnownParts, Names DEF FilesInv, LoopInv, TInv, TypeOK
<1>3. ASSUME NEW q \in Rows, NEW n \in DOMAIN subs,
             Tracked(n, q, row[q], hand["wave"][q], hand["sweep"][q], subs, killed)
      PROVE  Tracked(n, q, row'[q], hand'["wave"][q], hand'["sweep"][q], subs, killed')
  <2>1. CASE q # r
    BY <1>1, <1>2, <1>3, <2>1 DEF Consume, DeadlinePasses
  <2>2. CASE q = r /\ Consume(r)
    <3>1. /\ row[r].status = "completed" /\ row'[r].files = row[r].files
          /\ row'[r].left = row[r].left
      BY <1>2, <2>2 DEF Consume, WithStatus, MistralRow
    <3> QED
      BY <1>1, <1>3, <2>2, <3>1 DEF Tracked, OnRow, InWave, LostClaim, OwnClaim, InFlight
  <2>3. CASE q = r /\ DeadlinePasses(r)
    <3>1. /\ row'[r].status = row[r].status /\ row'[r].files = row[r].files
          /\ row'[r].left = row[r].left /\ row'[r].ext = row[r].ext
          /\ row'[r].attempt = row[r].attempt
      BY <1>2, <2>3 DEF DeadlinePasses, MistralRow
    <3> QED
      BY <1>1, <1>3, <2>3, <3>1 DEF Tracked, OnRow, InWave, LostClaim, OwnClaim
  <2> QED
    BY <2>1, <2>2, <2>3
<1> QED
  BY <1>1, <1>3, FilesStay DEF Live

LEMMA BatchEndsFinds == ASSUME FilesInv, NEW n \in Ids, BatchEnds(n) PROVE FInv'
<1>1. Grow /\ UNCHANGED <<row, hand, killed>> /\ DOMAIN subs' = DOMAIN subs
      /\ files' = files \cup {Out(n)}
  BY BatchGrows DEF BatchEnds, FilesInv
<1>2. Live(files') \subseteq files
  BY <1>1 DEF Live, Out
<1> QED
  BY <1>1, <1>2, FilesStay

\* A killed wave leaves its claim to the sweep, unless the row was abandoned.
LEMMA CrashFinds == ASSUME FilesInv, NEW p \in Processes, Crash(p) PROVE FInv'
<1>1. Grow /\ UNCHANGED <<row, subs, files>> /\ killed' = TRUE
  BY SameLog DEF Crash
<1>2. \A q \in Processes, r \in Rows : hand'[q][r] = IF q = p THEN Idle ELSE hand[q][r]
  BY DEF Crash, FilesInv, LoopInv, TInv, TypeOK
<1>3. ASSUME NEW r \in Rows, NEW n \in DOMAIN subs,
             Tracked(n, r, row[r], hand["wave"][r], hand["sweep"][r], subs, killed)
      PROVE  Tracked(n, r, row'[r], hand'["wave"][r], hand'["sweep"][r], subs, killed')
  <2>1. /\ hand'["wave"][r] = IF p = "wave" THEN Idle ELSE hand["wave"][r]
        /\ hand'["sweep"][r] = IF p = "sweep" THEN Idle ELSE hand["sweep"][r]
    BY <1>2, Names
  <2>2. CASE p = "wave" /\ InWave(n, r, row[r], hand["wave"][r], subs)
    <3>1. hand["sweep"][r].step = "idle"
      <4>1. ~At("wave", r, "idle")
        BY <2>2 DEF InWave, At
      <4> QED
        BY <4>1, WaveTracks
    <3> QED
      BY <1>1, <2>1, <2>2, <3>1, IdleFacts DEF Tracked, InWave, LostClaim
  <2>3. CASE ~(p = "wave" /\ InWave(n, r, row[r], hand["wave"][r], subs))
    BY <1>1, <1>3, <2>1, <2>3, IdleFacts DEF Tracked, LostClaim
  <2> QED
    BY <2>2, <2>3
<1>4. \A r \in Rows : \/ hand'["wave"][r] = hand["wave"][r]
                      \/ hand'["wave"][r].step = "idle"
  BY <1>2, Names, IdleFacts
<1> QED
  BY <1>1, <1>3, <1>4, FilesStay DEF Live

LEMMA FilesStep ==
  ASSUME FilesInv, Serial, "lost" \notin Faults, [Next]_vars PROVE FilesInv'
<1>1. LoopInv'
  BY LoopStep DEF FilesInv
<1>2. KInv'
  BY KnownStep DEF FilesInv
<1>3. ASSUME NEW r \in Rows, WaveRead(r) \/ WaveStep(r) PROVE FInv'
  BY <1>3, WaveReadFinds, ClaimFinds, UploadFinds, CreateBatchFinds, LetGoFinds,
     CarryLeftFinds, HandBackFinds, RecordIdFinds, WriteOffFinds, Names DEF WaveStep
<1>4. ASSUME NEW r \in Rows, SweepStep(r) \/ StrandedRead(r) \/ LeftoverRead(r) PROVE FInv'
  BY <1>4, LookFinds, DiscardFinds, PollFinds, HarvestFinds, CompleteFinds, TailFinds,
     WriteOffFinds, Names DEF SweepStep
<1>5. ASSUME NEW r \in Rows, WebStep(r) \/ Consume(r) \/ DeadlinePasses(r) PROVE FInv'
  BY <1>5, AbandonHandlesFinds, ClockFinds, WriteOffFinds, Names DEF WebStep
<1>6. ASSUME UNCHANGED vars PROVE FInv'
  BY <1>6 DEF vars, FilesInv, FInv
<1>7. FInv'
  BY <1>3, <1>4, <1>5, <1>6, SweepReadFinds, AbandonFinds, BatchEndsFinds, CrashFinds DEF Next
<1> QED
  BY <1>1, <1>2, <1>7 DEF FilesInv

LEMMA FilesStart == Init => FilesInv
<1> SUFFICES ASSUME Init PROVE FilesInv
  OBVIOUS
<1>1. LoopInv /\ KInv
  BY TypesStart, LoopStart, KnownStart DEF LoopInv
<1>2. \A r \in Rows : hand["wave"][r] = Idle
  BY Names DEF Init
<1>3. FInv
  BY <1>2, QuietWave, IdleFacts DEF Init, FInv
<1> QED
  BY <1>1, <1>3 DEF FilesInv

LEMMA FilesInvAlways == ASSUME Serial, "lost" \notin Faults PROVE Spec => []FilesInv
<1>1. FilesInv /\ [Next]_vars => FilesInv'
  BY FilesStep
<1> QED
  BY <1>1, FilesStart, PTL DEF Spec

\* Every page file of a submission can be found again: it is named on its row, or in
\* the hand of a process, or by the prefix the sweep lists for a claim without an id;
\* only those of a row abandoned under a wave that was then killed may be lost
\* (file_prefix, _name_before_delete, _carry_files_left, discard_lost_files).
THEOREM FilesAreFound == Serial /\ "lost" \notin Faults /\ Spec => []FilesAreNamed
<1>1. ASSUME FilesInv PROVE FilesAreNamed
  <2> SUFFICES ASSUME NEW n \in DOMAIN subs, Pages(n) \in files
               PROVE  \/ \E r \in Rows : Pages(n) \in row[r].files \cup row[r].left
                      \/ \E p \in Processes, r \in Rows : Pages(n) \in hand[p][r].files \cup hand[p][r].left
                      \/ FoundByName(n)
                      \/ killed /\ row[subs[n].of[1]].status = "cancelled"
    BY DEF FilesAreNamed
  <2> DEFINE r == subs[n].of[1]
  <2>1. r \in Rows
    <3>1. subs[n] \in Submission
      BY <1>1, Same DEF FilesInv, LoopInv
    <3> QED
      BY <3>1 DEF Submission
  <2>2. Tracked(n, r, row[r], hand["wave"][r], hand["sweep"][r], subs, killed)
    BY <1>1, <2>1 DEF FilesInv, FInv
  <2> HIDE DEF r
  <2>3. LostClaim(n, r, row[r], hand["wave"][r], hand["sweep"][r], subs) => FoundByName(n)
    BY <2>1 DEF LostClaim, OwnClaim, FoundByName
  <2> QED
    BY <2>1, <2>2, <2>3, Names DEF Tracked, OnRow, InWave, r
<1>2. ASSUME Serial, "lost" \notin Faults PROVE Spec => []FilesAreNamed
  BY <1>1, <1>2, FilesInvAlways, PTL
<1> QED
  BY <1>2
=============================================================================
