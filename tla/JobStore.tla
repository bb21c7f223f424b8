------------------------------ MODULE JobStore ------------------------------
(***************************************************************************)
(* InMemoryJobStore (services/ingest-sec): one record per job id.  Every   *)
(* operation runs whole under the store's lock, so each is one action on   *)
(* `records`; what happens between two operations is up to the caller.     *)
(* A timestamp or an error text is modelled by whether it is present.      *)
(***************************************************************************)
EXTENDS Naturals

CONSTANT JobIds

VARIABLE records        \* job id -> its JobRecord, or NoRecord

JobState == {"pending", "running", "failed", "finished"}

JobRecord ==
  [state       : JobState,
   checkpoint  : Nat,        \* index of the next unit
   retry_count : Nat,
   last_error  : BOOLEAN,
   started_at  : BOOLEAN,
   finished_at : BOOLEAN]

PendingRecord ==
  [state |-> "pending", checkpoint |-> 0, retry_count |-> 0,
   last_error |-> FALSE, started_at |-> FALSE, finished_at |-> FALSE]

\* No record under this job id yet.
NoRecord ==
  [state |-> "none", checkpoint |-> 0, retry_count |-> 0,
   last_error |-> FALSE, started_at |-> FALSE, finished_at |-> FALSE]

JobStoreInit == records = [j \in JobIds |-> NoRecord]

\* The record create_or_get returns: the stored one, or a new pending one.
Created(j) == IF records[j] = NoRecord THEN PendingRecord ELSE records[j]

CreateOrGet(j) == records' = [records EXCEPT ![j] = Created(j)]

\* Variant: a new run forgets the checkpoint.
MarkRunningAfresh(j) ==
  /\ records[j] # NoRecord
  /\ records' = [records EXCEPT ![j] = [PendingRecord EXCEPT !.state = "running"]]

\* started_at keeps its first value; the checkpoint and retry count survive.
MarkRunning(j) ==
  /\ records[j] # NoRecord
  /\ records' = [records EXCEPT ![j] =
       [@ EXCEPT !.state = "running", !.last_error = FALSE,
                 !.started_at = TRUE, !.finished_at = FALSE]]

\* The checkpoint is overwritten, whatever it was, in whatever state.
MarkProgress(j, checkpoint) ==
  /\ records[j] # NoRecord
  /\ records' = [records EXCEPT ![j] = [@ EXCEPT !.checkpoint = checkpoint]]

\* Variant: a failure steps back to the unit before.
MarkFailedSteppingBack(j) ==
  /\ records[j] # NoRecord
  /\ records' = [records EXCEPT ![j] =
       [@ EXCEPT !.state = "failed", !.last_error = TRUE, !.finished_at = FALSE,
                 !.retry_count = records[j].retry_count + 1,
                 !.checkpoint = records[j].checkpoint - 1]]

MarkFailed(j) ==
  /\ records[j] # NoRecord
  /\ records' = [records EXCEPT ![j] =
       [@ EXCEPT !.state = "failed", !.last_error = TRUE, !.finished_at = FALSE,
                 !.retry_count = records[j].retry_count + 1]]

MarkFinished(j) ==
  /\ records[j] # NoRecord
  /\ records' = [records EXCEPT ![j] =
       [@ EXCEPT !.state = "finished", !.last_error = FALSE,
                 !.finished_at = TRUE]]

JobStoreTypeOK == records \in [JobIds -> JobRecord \cup {NoRecord}]
=============================================================================
