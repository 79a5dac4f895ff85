------------------------------ MODULE JobRows ------------------------------
(***************************************************************************)
(* One row of the ExternalJob table and the writes its lifecycle makes     *)
(* (scanning/jobs.py, scanning/models.py).  A row is one shard of a scan   *)
(* handed to a provider.  Every writer but the abandon holds a copy of the *)
(* row it read earlier and swaps on the status and the provider id of that *)
(* copy; what it writes is computed from the copy too, so each write below *)
(* takes both: cur, the row in the table, and read, the writer's copy.     *)
(***************************************************************************)
EXTENDS Naturals

CONSTANTS
  Rows,         \* the job rows of one provider and stage
  MaxAttempts,  \* submissions a row gets before it is failed
  MaxPosts      \* bound: provider jobs the behaviours may create

ASSUME JobRowsAssumption ==
  /\ MaxAttempts \in Nat \ {0}
  /\ MaxPosts \in Nat

InFlight == {"submitted", "in_queue", "in_progress"}
Open     == {"pending", "completed"} \cup InFlight
Dead     == {"failed", "cancelled", "expired"}
Terminal == {"consumed"} \cup Dead
Statuses == Open \cup Terminal

NoId  == 0   \* external_id = ""
NoKey == 0   \* result_key = ""; otherwise the attempt the key is scoped to

Ids      == 1..MaxPosts
Attempts == 1..MaxAttempts

\* A deadline is abstracted to whether it is set and whether it has passed.
Row == [status   : Statuses,
        attempt  : Attempts,
        ext      : Ids \cup {NoId},
        key      : Attempts \cup {NoKey},
        deadline : {"none", "running", "passed"}]

NewRow == [status |-> "pending", attempt |-> 1, ext |-> NoId,
           key |-> NoKey, deadline |-> "none"]

-----------------------------------------------------------------------------
(* Mutated forms of the definitions below, one plausible slip each; they are *)
(* used by no action and show what the properties would catch.               *)
MatchesIdOnly(cur, read)         == cur.ext = read.ext
NoBudget                         == {}
DeferredForgetsCeiling(cur)      ==
  [cur EXCEPT !.status = "pending", !.ext = NoId, !.key = NoKey, !.deadline = "none"]
RetriedSameAttempt(cur, read)    ==
  [cur EXCEPT !.status = "pending", !.ext = NoId, !.key = NoKey, !.deadline = "none"]

-----------------------------------------------------------------------------
\* The guard of the compare-and-swap: UPDATE ... WHERE status and external_id
\* are still the ones this writer read.
Matches(cur, read) == cur.status = read.status /\ cur.ext = read.ext

IsOverdue(read) == read.status \in InFlight /\ read.deadline = "passed"

OutOfAttempts(read) == read.attempt >= MaxAttempts

-----------------------------------------------------------------------------
\* The fields each write sets.

\* RunPod's queue ceiling is stamped by an attempt's first claim only; doctor's
\* answer budget by every claim.
CeilingOnce(read) == IF read.deadline = "none" THEN {"running"} ELSE {}
AnswerBudget      == {"running"}

Claimed(cur, read, stamp) ==
  [cur EXCEPT !.status = "submitted", !.key = read.attempt,
              !.deadline = IF stamp = {} THEN @ ELSE "running"]

Deferred(cur) ==
  [cur EXCEPT !.status = "pending", !.ext = NoId, !.key = NoKey]

Retried(cur, read) ==
  [cur EXCEPT !.status = "pending", !.attempt = read.attempt + 1,
              !.ext = NoId, !.key = NoKey, !.deadline = "none"]

WithStatus(cur, status) == [cur EXCEPT !.status = status]

\* A poll that first reports the job running replaces the queue ceiling with
\* a run budget; a later one only refreshes the status.
Progressed(cur, read, status) ==
  IF status = "in_progress" /\ read.status # "in_progress"
  THEN [cur EXCEPT !.status = status, !.deadline = "running"]
  ELSE WithStatus(cur, status)
=============================================================================
