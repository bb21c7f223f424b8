--------------------------- MODULE IngestJobProofs --------------------------
(***************************************************************************)
(* Safety of the ingestion jobs for any number of jobs, runners and units. *)
(* The invariant ties each run's private index to the units its job has    *)
(* committed: an index read from the store is safe to resume from because  *)
(* commitments are never withdrawn, and two runs of one job agree on what  *)
(* a position means because their lists agree.                             *)
(***************************************************************************)
EXTENDS IngestJob, SelectionProofs, TLAPS

\* Where a run goes by the list its instance loaded.
InList == {"loop", "stored", "staged", "committed"}

RunInv(r) ==
  /\ Reached(JobOf[r], run[r].idx)
  /\ run[r].pc \notin {"idle"} => records[JobOf[r]] # NoRecord
  /\ run[r].pc \in InList => /\ run[r].units \in UnitLists[JobOf[r]]
                             /\ run[r].idx <= Len(run[r].units)
  /\ run[r].pc \in {"stored", "staged", "committed"} => MoreUnits(r)
  /\ run[r].pc = "stored" => run[r].todo # <<>> /\ Head(run[r].todo) \in Payloads
  /\ run[r].pc = "committed" => Unit(r) \in checkpoints[JobOf[r]]

IInv ==
  /\ TypeOK
  /\ CheckpointSound
  /\ FinishedComplete
  /\ \A r \in Runners : RunInv(r)

------------------------------------------------------------------------------
(* What the store operations keep. *)

\* Work once reached stays reached: commitments only accumulate.
LEMMA ReachedStays ==
  ASSUME NEW j \in JobIds, NEW n \in Nat, Reached(j, n),
         checkpoints[j] \subseteq checkpoints'[j]
  PROVE  Reached(j, n)'
  BY DEF Reached

\* One more unit of one list is one more position of every list of the job.
LEMMA ReachedNext ==
  ASSUME NEW j \in JobIds, NEW t \in UnitLists[j], NEW n \in Nat, n < Len(t),
         Reached(j, n), t[n + 1] \in checkpoints[j]
  PROVE  Reached(j, n + 1)
<1>1. t \in Seq(Units)
  BY RunnersAssumption
<1>2. SUFFICES ASSUME NEW s \in UnitLists[j], NEW i \in DOMAIN s, i <= n + 1
               PROVE  s[i] \in checkpoints[j]
  BY DEF Reached
<1>3. s \in Seq(Units) /\ i \in Nat
  BY RunnersAssumption
<1>4. CASE i <= n
  BY <1>4 DEF Reached
<1>5. CASE i = n + 1
  <2>1. i \in DOMAIN t
    BY <1>1, <1>3, <1>5
  <2>2. s[i] = t[i]
    BY <2>1, ListsAgree
  <2> QED
    BY <2>2, <1>5
<1> QED
  BY <1>2, <1>3, <1>4, <1>5

\* A list fully reached is a list fully committed.
LEMMA ReachedAll ==
  ASSUME NEW j \in JobIds, NEW t \in UnitLists[j], Reached(j, Len(t))
  PROVE  \A i \in DOMAIN t : t[i] \in checkpoints[j]
<1>1. t \in Seq(Units)
  BY RunnersAssumption
<1> QED
  BY <1>1 DEF Reached

\* A step of r leaves the other runs sound, whatever it commits or creates.
LEMMA OthersKeep ==
  ASSUME TypeOK, NEW r \in Runners, NEW q \in Runners, q # r, RunInv(q),
         NEW next, run' = [run EXCEPT ![r] = next],
         \A j \in JobIds : checkpoints[j] \subseteq checkpoints'[j],
         \A j \in JobIds : records[j] # NoRecord => records'[j] # NoRecord
  PROVE  RunInv(q)'
<1>1. run'[q] = run[q] /\ JobOf[q] \in JobIds /\ run[q].idx \in Nat
  BY RunnersAssumption DEF TypeOK, RunState
<1>2. Reached(JobOf[q], run[q].idx)'
  BY <1>1, ReachedStays DEF RunInv, Reached
<1>3. checkpoints[JobOf[q]] \subseteq checkpoints'[JobOf[q]]
  BY <1>1
<1> QED
  BY <1>1, <1>2, <1>3 DEF RunInv, MoreUnits, Unit

\* The operations of the two stores keep their types, given arguments of theirs.
LEMMA RawOpsTyped ==
  ASSUME RawStoreTypeOK, NEW u \in Units, NEW p \in Payloads, NEW j \in JobIds,
         \/ StoreRawArtifact(u, p, j)
         \/ StageFilingHeaders(RowsOf(u, p))
         \/ PersistCheckpoint(j, u)
  PROVE  RawStoreTypeOK' /\ \A k \in JobIds : checkpoints[k] \subseteq checkpoints'[k]
<1>1. CASE StoreRawArtifact(u, p, j)
  BY <1>1 DEF StoreRawArtifact, RawStoreTypeOK, Artifact
<1>2. CASE StageFilingHeaders(RowsOf(u, p))
  <2>0. HeadersIn[p] \subseteq Accessions
    BY HeadersInAssumption DEF HeadersInAssumption
  <2>1. FreshRows(RowsOf(u, p)) \subseteq Row
    BY <2>0 DEF FreshRows, RowsOf, Row
  <2>2. \A row \in Row : KeyOf(row) \in Units \X Accessions
    BY DEF KeyOf, Row
  <2>3. header_keys' \subseteq Units \X Accessions
    BY <1>2, <2>1, <2>2 DEF StageFilingHeaders, RawStoreTypeOK
  <2>4. headers' \in [Row -> Nat]
    BY <1>2 DEF StageFilingHeaders, RawStoreTypeOK
  <2> QED
    BY <1>2, <2>3, <2>4 DEF StageFilingHeaders, RawStoreTypeOK
<1>3. CASE PersistCheckpoint(j, u)
  BY <1>3 DEF PersistCheckpoint, RawStoreTypeOK
<1> QED
  BY <1>1, <1>2, <1>3

\* The record afterwards, and what the other job ids make of it.
RecordPut(j) ==
  /\ JobStoreTypeOK'
  /\ records'[j] # NoRecord
  /\ \A k \in JobIds : records[k] # NoRecord => records'[k] # NoRecord
  /\ \A k \in JobIds \ {j} : records'[k] = records[k]

LEMMA PutRecord ==
  ASSUME JobStoreTypeOK, NEW j \in JobIds, NEW record \in JobRecord,
         records' = [records EXCEPT ![j] = record]
  PROVE  RecordPut(j) /\ records'[j] = record
<1>1. record # NoRecord
  BY DEF JobRecord, JobState, NoRecord
<1>2. records'[j] = record /\ \A k \in JobIds \ {j} : records'[k] = records[k]
  BY DEF JobStoreTypeOK
<1>3. JobStoreTypeOK'
  BY DEF JobStoreTypeOK
<1> QED
  BY <1>1, <1>2, <1>3 DEF RecordPut

LEMMA RecordFound ==
  ASSUME JobStoreTypeOK, NEW j \in JobIds, records[j] # NoRecord
  PROVE  records[j] \in JobRecord
  BY DEF JobStoreTypeOK

\* Creating, starting and failing a job leave its checkpoint alone and finish
\* nothing.
LEMMA CheckpointKept ==
  ASSUME JobStoreTypeOK, NEW j \in JobIds,
         CreateOrGet(j) \/ MarkRunning(j) \/ MarkFailed(j)
  PROVE  /\ RecordPut(j)
         /\ records'[j].checkpoint = records[j].checkpoint
         /\ records'[j].state = "finished" => records[j].state = "finished"
<1>1. CASE CreateOrGet(j)
  <2>1. Created(j) \in JobRecord
    BY RecordFound DEF Created, PendingRecord, JobRecord, JobState
  <2>2. /\ Created(j).checkpoint = records[j].checkpoint
        /\ Created(j).state = "finished" => records[j].state = "finished"
    BY DEF Created, PendingRecord, NoRecord
  <2> QED
    BY <1>1, <2>1, <2>2, PutRecord DEF CreateOrGet
<1>2. CASE MarkRunning(j)
  <2> DEFINE record == [records[j] EXCEPT !.state = "running", !.last_error = FALSE,
                          !.started_at = TRUE, !.finished_at = FALSE]
  <2>1. records[j] \in JobRecord
    BY <1>2, RecordFound DEF MarkRunning
  <2>2. /\ record \in JobRecord
        /\ record.checkpoint = records[j].checkpoint /\ record.state = "running"
    BY <2>1 DEF JobRecord, JobState
  <2>3. records' = [records EXCEPT ![j] = record]
    BY <1>2 DEF MarkRunning
  <2> QED
    BY <2>2, <2>3, PutRecord
<1>3. CASE MarkFailed(j)
  <2> DEFINE record == [records[j] EXCEPT !.state = "failed", !.last_error = TRUE,
                          !.finished_at = FALSE,
                          !.retry_count = records[j].retry_count + 1]
  <2>1. records[j] \in JobRecord
    BY <1>3, RecordFound DEF MarkFailed
  <2>4. records[j].retry_count + 1 \in Nat
    BY <2>1 DEF JobRecord
  <2>2. /\ record \in JobRecord
        /\ record.checkpoint = records[j].checkpoint /\ record.state = "failed"
    BY <2>1, <2>4 DEF JobRecord, JobState
  <2>3. records' = [records EXCEPT ![j] = record]
    BY <1>3 DEF MarkFailed
  <2> QED
    BY <2>2, <2>3, PutRecord
<1> QED
  BY <1>1, <1>2, <1>3

LEMMA CheckpointMoved ==
  ASSUME JobStoreTypeOK, NEW j \in JobIds, NEW n \in Nat, MarkProgress(j, n)
  PROVE  /\ RecordPut(j)
         /\ records'[j].checkpoint = n
         /\ records'[j].state = records[j].state
<1> DEFINE record == [records[j] EXCEPT !.checkpoint = n]
<1>1. records[j] \in JobRecord
  BY RecordFound DEF MarkProgress
<1>2. record \in JobRecord /\ record.checkpoint = n /\ record.state = records[j].state
  BY <1>1 DEF JobRecord, JobState
<1>3. records' = [records EXCEPT ![j] = record]
  BY DEF MarkProgress
<1> QED
  BY <1>2, <1>3, PutRecord

LEMMA JobFinished ==
  ASSUME JobStoreTypeOK, NEW j \in JobIds, MarkFinished(j)
  PROVE  RecordPut(j) /\ records'[j].checkpoint = records[j].checkpoint
<1> DEFINE record == [records[j] EXCEPT !.state = "finished", !.last_error = FALSE,
                        !.finished_at = TRUE]
<1>1. records[j] \in JobRecord
  BY RecordFound DEF MarkFinished
<1>2. record \in JobRecord /\ record.checkpoint = records[j].checkpoint
  BY <1>1 DEF JobRecord, JobState
<1>3. records' = [records EXCEPT ![j] = record]
  BY DEF MarkFinished
<1> QED
  BY <1>2, <1>3, PutRecord

------------------------------------------------------------------------------
(* The conjuncts of the invariant a step does not disturb. *)

LEMMA CheckpointsStaySound ==
  ASSUME TypeOK, CheckpointSound,
         \A j \in JobIds : checkpoints[j] \subseteq checkpoints'[j],
         \A j \in JobIds : records'[j].checkpoint = records[j].checkpoint
  PROVE  CheckpointSound'
<1> SUFFICES ASSUME NEW j \in JobIds
             PROVE  Reached(j, records[j].checkpoint)'
  BY DEF CheckpointSound
<1>1. Reached(j, records[j].checkpoint)
  BY DEF CheckpointSound
<1> QED
  BY <1>1 DEF Reached

LEMMA FinishedStaysComplete ==
  ASSUME FinishedComplete,
         \A j \in JobIds : checkpoints[j] \subseteq checkpoints'[j],
         \A j \in JobIds :
           records'[j].state = "finished" => records[j].state = "finished"
  PROVE  FinishedComplete'
  BY DEF FinishedComplete

\* A step moves the run of r only: what is left to show of it.
LEMMA StepKeeps ==
  ASSUME IInv, NEW r \in Runners, NEW next \in RunState,
         run' = [run EXCEPT ![r] = next],
         RawStoreTypeOK', JobStoreTypeOK',
         \A j \in JobIds : checkpoints[j] \subseteq checkpoints'[j],
         \A j \in JobIds : records[j] # NoRecord => records'[j] # NoRecord,
         CheckpointSound', FinishedComplete', RunInv(r)'
  PROVE  IInv'
<1>1. TypeOK'
  BY DEF IInv, TypeOK
<1>2. \A q \in Runners : RunInv(q)'
  BY OthersKeep DEF IInv
<1> QED
  BY <1>1, <1>2 DEF IInv

\* A step that leaves the job store alone.
LEMMA StepInRun ==
  ASSUME IInv, NEW r \in Runners, NEW next \in RunState,
         run' = [run EXCEPT ![r] = next],
         UNCHANGED records, RawStoreTypeOK',
         \A j \in JobIds : checkpoints[j] \subseteq checkpoints'[j],
         RunInv(r)'
  PROVE  IInv'
<1>1. JobStoreTypeOK'
  BY DEF IInv, TypeOK, JobStoreTypeOK
<1>2. CheckpointSound'
  BY CheckpointsStaySound DEF IInv
<1>3. FinishedComplete'
  BY FinishedStaysComplete DEF IInv
<1> QED
  BY <1>1, <1>2, <1>3, StepKeeps

\* A step that leaves the raw store and every checkpoint alone, and finishes
\* no job.
LEMMA StepInJobStore ==
  ASSUME IInv, NEW r \in Runners, NEW next \in RunState,
         run' = [run EXCEPT ![r] = next],
         UNCHANGED rawVars, RecordPut(JobOf[r]),
         records'[JobOf[r]].checkpoint = records[JobOf[r]].checkpoint,
         records'[JobOf[r]].state = "finished" => records[JobOf[r]].state = "finished",
         RunInv(r)'
  PROVE  IInv'
<1>1. RawStoreTypeOK' /\ \A j \in JobIds : checkpoints[j] \subseteq checkpoints'[j]
  BY DEF IInv, TypeOK, RawStoreTypeOK, rawVars
<1>2. \A j \in JobIds : records'[j].checkpoint = records[j].checkpoint
  BY DEF RecordPut
<1>5. \A j \in JobIds : records'[j].state = "finished" => records[j].state = "finished"
  BY DEF RecordPut
<1>3. CheckpointSound'
  BY <1>1, <1>2, CheckpointsStaySound DEF IInv
<1>4. FinishedComplete'
  BY <1>1, <1>5, FinishedStaysComplete DEF IInv
<1> QED
  BY <1>1, <1>3, <1>4, StepKeeps DEF RecordPut

\* A place outside the loop needs nothing but a record.
LEMMA OutsideSound ==
  ASSUME TypeOK, NEW r \in Runners, NEW pc \in Places \ InList,
         run' = [run EXCEPT ![r] = Outside(pc)],
         pc # "idle" => records'[JobOf[r]] # NoRecord
  PROVE  Outside(pc) \in RunState /\ RunInv(r)'
<1>1. Outside(pc) \in RunState
  BY DEF Outside, At, RunState
<1>2. run'[r].pc = pc /\ run'[r].idx = 0
  BY DEF TypeOK, Outside, At
<1>3. \A t \in UnitLists[JobOf[r]] : DOMAIN t = 1 .. Len(t)
  BY RunnersAssumption
<1>4. Reached(JobOf[r], run[r].idx)'
  BY <1>2, <1>3 DEF Reached
<1> QED
  BY <1>1, <1>2, <1>4 DEF RunInv, InList

------------------------------------------------------------------------------
(* Every step keeps the invariant. *)

LEMMA InitIInv == Init => IInv
<1> SUFFICES ASSUME Init PROVE IInv
  OBVIOUS
<1> USE DEF Init, JobStoreInit, RawStoreInit
<1>1. JobStoreTypeOK
  BY DEF JobStoreTypeOK
<1>2. RawStoreTypeOK
  BY DEF RawStoreTypeOK
<1>3. Idle \in RunState
  BY DEF Idle, Outside, At, RunState, Places
<1>4. TypeOK
  BY <1>1, <1>2, <1>3 DEF TypeOK
<1>5. \A j \in JobIds : \A t \in UnitLists[j] : DOMAIN t = 1 .. Len(t)
  BY RunnersAssumption
<1>6. \A j \in JobIds : Reached(j, 0)
  BY <1>5 DEF Reached
<1>7. CheckpointSound /\ FinishedComplete
  BY <1>6 DEF CheckpointSound, FinishedComplete, NoRecord
<1>8. \A r \in Runners : RunInv(r)
  BY <1>6, RunnersAssumption DEF RunInv, Idle, Outside, At, InList
<1> QED
  BY <1>4, <1>7, <1>8 DEF IInv

LEMMA StartIInv ==
  ASSUME IInv, NEW r \in Runners, Start(r)
  PROVE  IInv'
<1> DEFINE pc == IF Created(JobOf[r]).state = "finished" THEN "idle" ELSE "starting"
<1>1. JobOf[r] \in JobIds /\ JobStoreTypeOK
  BY RunnersAssumption DEF IInv, TypeOK
<1>2. CreateOrGet(JobOf[r]) /\ UNCHANGED rawVars
  BY DEF Start
<1>3. run' = [run EXCEPT ![r] = Outside(pc)]
  BY DEF Start, Goto, Idle
<1>4. /\ RecordPut(JobOf[r])
      /\ records'[JobOf[r]].checkpoint = records[JobOf[r]].checkpoint
      /\ records'[JobOf[r]].state = "finished" => records[JobOf[r]].state = "finished"
  BY <1>1, <1>2, CheckpointKept
<1>5. pc \in Places \ InList
  BY DEF Places, InList
<1>6. Outside(pc) \in RunState /\ RunInv(r)'
  BY <1>3, <1>4, <1>5, OutsideSound DEF IInv, RecordPut
<1> QED
  BY <1>2, <1>3, <1>4, <1>6, StepInJobStore

\* The index a run starts from is the checkpoint, so its units are reached.
LEMMA BeginRunIInv ==
  ASSUME IInv, NEW r \in Runners, BeginRun(r)
  PROVE  IInv'
<1> DEFINE n == records[JobOf[r]].checkpoint
           next == At("loading", <<>>, n, <<>>)
<1>1. JobOf[r] \in JobIds /\ JobStoreTypeOK /\ records[JobOf[r]] # NoRecord
  BY RunnersAssumption DEF IInv, TypeOK, BeginRun, MarkRunning
<1>2. MarkRunning(JobOf[r]) /\ UNCHANGED rawVars /\ run' = [run EXCEPT ![r] = next]
  BY DEF BeginRun, Goto
<1>3. n \in Nat
  BY <1>1, RecordFound DEF JobRecord
<1>4. next \in RunState
  BY <1>3 DEF At, RunState, Places
<1>5. /\ RecordPut(JobOf[r])
      /\ records'[JobOf[r]].checkpoint = records[JobOf[r]].checkpoint
      /\ records'[JobOf[r]].state = "finished" => records[JobOf[r]].state = "finished"
  BY <1>1, <1>2, CheckpointKept
<1>6. run'[r].pc = "loading" /\ run'[r].idx = n
  BY <1>2 DEF IInv, TypeOK, At
<1>7. Reached(JobOf[r], n)
  BY <1>1 DEF IInv, CheckpointSound
<1>8. Reached(JobOf[r], run[r].idx)'
  BY <1>2, <1>6, <1>7 DEF Reached, rawVars
<1>9. RunInv(r)'
  BY <1>5, <1>6, <1>8 DEF RunInv, RecordPut, InList
<1> QED
  BY <1>2, <1>4, <1>5, <1>9, StepInJobStore

\* The raw store is untouched.
LEMMA RawKept ==
  ASSUME IInv, UNCHANGED rawVars
  PROVE  RawStoreTypeOK' /\ \A j \in JobIds : checkpoints[j] \subseteq checkpoints'[j]
  BY DEF IInv, TypeOK, RawStoreTypeOK, rawVars

LEMMA LoadUnitsIInv ==
  ASSUME IInv, NEW r \in Runners, LoadUnits(r)
  PROVE  IInv'
<1>1. PICK units \in UnitLists[JobOf[r]] :
        run[r].idx <= Len(units) /\ Goto(r, At("loop", units, run[r].idx, <<>>))
  BY DEF LoadUnits
<1> DEFINE next == At("loop", units, run[r].idx, <<>>)
<1>2. run' = [run EXCEPT ![r] = next] /\ UNCHANGED records /\ UNCHANGED rawVars
  BY <1>1 DEF Goto, LoadUnits
<1>3. run[r] \in RunState /\ units \in Seq(Units) /\ run[r].pc = "loading"
  BY RunnersAssumption DEF IInv, TypeOK, LoadUnits, IsAt
<1>4. next \in RunState
  BY <1>3 DEF At, RunState, Places
<1>5. run'[r].pc = "loop" /\ run'[r].idx = run[r].idx /\ run'[r].units = units
  BY <1>2 DEF IInv, TypeOK, At
<1>6. RunInv(r)'
  BY <1>1, <1>2, <1>3, <1>5 DEF IInv, RunInv, InList, Reached, rawVars
<1> QED
  BY <1>2, <1>4, <1>6, RawKept, StepInRun

\* A run that ends, for whatever reason, in the place it may end in.
LEMMA LeavesIInv ==
  ASSUME IInv, NEW r \in Runners, NEW pc \in {"idle", "raised"},
         run[r].pc # "idle",
         run' = [run EXCEPT ![r] = Outside(pc)],
         UNCHANGED records, UNCHANGED rawVars
  PROVE  IInv'
<1>1. records'[JobOf[r]] # NoRecord
  BY DEF IInv, RunInv
<1>2. Outside(pc) \in RunState /\ RunInv(r)'
  BY <1>1, OutsideSound DEF IInv, Places, InList
<1> QED
  BY <1>2, RawKept, StepInRun

LEMMA RecordFailureIInv ==
  ASSUME IInv, NEW r \in Runners, RecordFailure(r)
  PROVE  IInv'
<1>1. JobOf[r] \in JobIds /\ JobStoreTypeOK
  BY RunnersAssumption DEF IInv, TypeOK
<1>2. MarkFailed(JobOf[r]) /\ UNCHANGED rawVars /\ run' = [run EXCEPT ![r] = Outside("idle")]
  BY DEF RecordFailure, Goto, Idle
<1>3. /\ RecordPut(JobOf[r])
      /\ records'[JobOf[r]].checkpoint = records[JobOf[r]].checkpoint
      /\ records'[JobOf[r]].state = "finished" => records[JobOf[r]].state = "finished"
  BY <1>1, <1>2, CheckpointKept
<1>4. Outside("idle") \in RunState /\ RunInv(r)'
  BY <1>2, OutsideSound DEF IInv, Places, InList
<1> QED
  BY <1>2, <1>3, <1>4, StepInJobStore

\* Within the loop the unit in hand is one of the job's units.
LEMMA UnitInList ==
  ASSUME IInv, NEW r \in Runners, run[r].pc \in InList, MoreUnits(r)
  PROVE  /\ run[r] \in RunState
         /\ run[r].units \in UnitLists[JobOf[r]]
         /\ run[r].idx < Len(run[r].units)
         /\ JobOf[r] \in JobIds
         /\ Unit(r) \in Units
         /\ records[JobOf[r]] # NoRecord
<1>1. run[r] \in RunState /\ JobOf[r] \in JobIds
  BY RunnersAssumption DEF IInv, TypeOK
<1>2. run[r].units \in UnitLists[JobOf[r]] /\ records[JobOf[r]] # NoRecord
  BY DEF IInv, RunInv, InList
<1>3. run[r].idx + 1 \in 1 .. Len(run[r].units)
  BY <1>1 DEF MoreUnits, RunState
<1> QED
  BY <1>1, <1>2, <1>3 DEF MoreUnits, RunState, Unit

\* A step of process_unit stays at its unit: what is left to show of it.
LEMMA AtUnit ==
  ASSUME IInv, NEW r \in Runners, run[r].pc \in InList, MoreUnits(r),
         NEW pc \in {"stored", "staged", "committed"},
         NEW todo \in Seq(Payloads \cup {NoName}),
         run' = [run EXCEPT ![r] = At(pc, run[r].units, run[r].idx, todo)],
         UNCHANGED records, RawStoreTypeOK',
         \A j \in JobIds : checkpoints[j] \subseteq checkpoints'[j],
         pc = "stored" => todo # <<>> /\ Head(todo) \in Payloads,
         pc = "committed" => Unit(r) \in checkpoints'[JobOf[r]]
  PROVE  IInv'
<1> DEFINE next == At(pc, run[r].units, run[r].idx, todo)
<1>1. /\ run[r] \in RunState /\ run[r].units \in UnitLists[JobOf[r]]
      /\ run[r].idx < Len(run[r].units) /\ JobOf[r] \in JobIds
      /\ records[JobOf[r]] # NoRecord
  BY UnitInList
<1>2. next \in RunState
  BY <1>1 DEF At, RunState, Places
<1>3. /\ run'[r].pc = pc /\ run'[r].units = run[r].units
      /\ run'[r].idx = run[r].idx /\ run'[r].todo = todo
  BY DEF IInv, TypeOK, At
<1>4. Reached(JobOf[r], run[r].idx)
  BY DEF IInv, RunInv
<1>5. Reached(JobOf[r], run[r].idx)'
  BY <1>1, <1>3, <1>4 DEF Reached
<1>6. run[r].idx <= Len(run[r].units)
  BY <1>1 DEF RunState
<1>7. RunInv(r)'
  BY <1>1, <1>3, <1>5, <1>6 DEF RunInv, InList, MoreUnits, Unit
<1> QED
  BY <1>2, <1>7, StepInRun

LEMMA StoreLatestIInv ==
  ASSUME IInv, NEW r \in Runners, StoreLatest(r)
  PROVE  IInv'
<1>1. run[r].pc \in InList /\ MoreUnits(r)
  BY DEF StoreLatest, IsAt, InList
<1>2. /\ Unit(r) \in Units /\ JobOf[r] \in JobIds
      /\ run[r].units \in UnitLists[JobOf[r]]
  BY <1>1, UnitInList
<1>3. PICK p \in Latest[Unit(r)] :
        /\ StoreRawArtifact(Unit(r), p, JobOf[r])
        /\ Goto(r, At("stored", run[r].units, run[r].idx, <<p>> \o ArchivesOf[p]))
  BY DEF StoreLatest
<1>4. p \in Payloads /\ ArchivesOf[p] \in Seq(Payloads \cup {NoName})
  BY <1>2, RunnersAssumption
<1> DEFINE todo == <<p>> \o ArchivesOf[p]
<1>5. todo \in Seq(Payloads \cup {NoName}) /\ todo # <<>> /\ Head(todo) = p
  BY <1>4
<1>6. RawStoreTypeOK' /\ \A j \in JobIds : checkpoints[j] \subseteq checkpoints'[j]
  BY <1>2, <1>3, <1>4, RawOpsTyped DEF IInv, TypeOK
<1>7. run' = [run EXCEPT ![r] = At("stored", run[r].units, run[r].idx, todo)]
  BY <1>3 DEF Goto
<1> QED
  BY <1>1, <1>4, <1>5, <1>6, <1>7, AtUnit DEF StoreLatest

\* The payload in hand is staged, and the rest of the list remains.
LEMMA StagePayloadIInv ==
  ASSUME IInv, NEW r \in Runners, StagePayload(r)
  PROVE  IInv'
<1>1. run[r].pc \in InList /\ MoreUnits(r)
  BY DEF StagePayload, IsAt, InList, IInv, RunInv
<1>2. Unit(r) \in Units /\ JobOf[r] \in JobIds /\ run[r] \in RunState
  BY <1>1, UnitInList
<1>3. run[r].todo # <<>> /\ Head(run[r].todo) \in Payloads
  BY DEF StagePayload, IsAt, IInv, RunInv
<1> DEFINE todo == Tail(run[r].todo)
<1>4. todo \in Seq(Payloads \cup {NoName})
  BY <1>2, <1>3 DEF RunState
<1>5. RawStoreTypeOK' /\ \A j \in JobIds : checkpoints[j] \subseteq checkpoints'[j]
  BY <1>2, <1>3, RawOpsTyped DEF IInv, TypeOK, StagePayload
<1>6. run' = [run EXCEPT ![r] = At("staged", run[r].units, run[r].idx, todo)]
  BY DEF StagePayload, Goto
<1> QED
  BY <1>1, <1>4, <1>5, <1>6, AtUnit DEF StagePayload

LEMMA ArchiveIInv ==
  ASSUME IInv, NEW r \in Runners, SkipUnnamed(r) \/ StoreArchive(r)
  PROVE  IInv'
<1>1. run[r].pc \in InList /\ MoreUnits(r) /\ run[r].todo # <<>>
  BY DEF SkipUnnamed, StoreArchive, NextArchive, IsAt, InList, IInv, RunInv
<1>2. Unit(r) \in Units /\ JobOf[r] \in JobIds /\ run[r] \in RunState
  BY <1>1, UnitInList
<1>3. run[r].todo \in Seq(Payloads \cup {NoName})
  BY <1>2 DEF RunState
<1>4. CASE SkipUnnamed(r)
  <2> DEFINE todo == Tail(run[r].todo)
  <2>1. todo \in Seq(Payloads \cup {NoName})
    BY <1>1, <1>3
  <2>2. /\ run' = [run EXCEPT ![r] = At("staged", run[r].units, run[r].idx, todo)]
        /\ UNCHANGED records /\ UNCHANGED rawVars
    BY <1>4 DEF SkipUnnamed, Goto
  <2> QED
    BY <1>1, <2>1, <2>2, RawKept, AtUnit
<1>5. CASE StoreArchive(r)
  <2>1. Head(run[r].todo) \in Payloads
    BY <1>1, <1>3, <1>5 DEF StoreArchive
  <2>2. RawStoreTypeOK' /\ \A j \in JobIds : checkpoints[j] \subseteq checkpoints'[j]
    BY <1>2, <1>5, <2>1, RawOpsTyped DEF IInv, TypeOK, StoreArchive
  <2>3. /\ run' = [run EXCEPT ![r] = At("stored", run[r].units, run[r].idx, run[r].todo)]
        /\ UNCHANGED records
    BY <1>5 DEF StoreArchive, Goto
  <2> QED
    BY <1>1, <1>3, <2>1, <2>2, <2>3, AtUnit
<1> QED
  BY <1>4, <1>5

LEMMA CommitUnitIInv ==
  ASSUME IInv, NEW r \in Runners, CommitUnit(r)
  PROVE  IInv'
<1>1. run[r].pc \in InList /\ MoreUnits(r)
  BY DEF CommitUnit, IsAt, InList, IInv, RunInv
<1>2. Unit(r) \in Units /\ JobOf[r] \in JobIds
  BY <1>1, UnitInList
<1>3. RawStoreTypeOK /\ PersistCheckpoint(JobOf[r], Unit(r))
  BY DEF IInv, TypeOK, CommitUnit
<1>4. RawStoreTypeOK' /\ \A j \in JobIds : checkpoints[j] \subseteq checkpoints'[j]
  BY <1>2, <1>3 DEF RawStoreTypeOK, PersistCheckpoint
<1>5. Unit(r) \in checkpoints'[JobOf[r]]
  BY <1>2, <1>3 DEF RawStoreTypeOK, PersistCheckpoint
<1>6. /\ run' = [run EXCEPT ![r] = At("committed", run[r].units, run[r].idx, <<>>)]
      /\ UNCHANGED records
  BY DEF CommitUnit, Goto
<1>7. <<>> \in Seq(Payloads \cup {NoName})
  OBVIOUS
<1> QED
  BY <1>1, <1>4, <1>5, <1>6, <1>7, AtUnit

\* The new checkpoint counts the unit just committed, whatever another run of
\* the job wrote there in the meantime.
LEMMA ProgressIInv ==
  ASSUME IInv, NEW r \in Runners, Progress(r)
  PROVE  IInv'
<1> DEFINE j == JobOf[r]
           n == run[r].idx + 1
           next == At("loop", run[r].units, n, <<>>)
<1>1. run[r].pc = "committed" /\ run[r].pc \in InList /\ MoreUnits(r)
  BY DEF Progress, IsAt, InList, IInv, RunInv
<1>2. /\ run[r] \in RunState /\ run[r].units \in UnitLists[j]
      /\ run[r].idx < Len(run[r].units) /\ j \in JobIds
  BY <1>1, UnitInList
<1>3. run[r].idx \in Nat /\ n \in Nat /\ n <= Len(run[r].units)
  BY <1>2 DEF RunState
<1>4. Reached(j, run[r].idx) /\ Unit(r) \in checkpoints[j]
  BY <1>1 DEF IInv, RunInv
<1>5. Reached(j, n)
  BY <1>2, <1>3, <1>4, ReachedNext DEF Unit
<1>6. /\ MarkProgress(j, n) /\ UNCHANGED rawVars /\ JobStoreTypeOK
      /\ run' = [run EXCEPT ![r] = next]
  BY DEF Progress, Goto, IInv, TypeOK
<1>7. /\ RecordPut(j) /\ records'[j].checkpoint = n
      /\ records'[j].state = records[j].state
  BY <1>2, <1>3, <1>6, CheckpointMoved
<1>8. RawStoreTypeOK' /\ checkpoints' = checkpoints
  BY <1>6, RawKept DEF rawVars
<1>9. CheckpointSound'
  <2> SUFFICES ASSUME NEW k \in JobIds PROVE Reached(k, records[k].checkpoint)'
    BY DEF CheckpointSound
  <2>1. Reached(k, records'[k].checkpoint)
    BY <1>5, <1>7 DEF IInv, CheckpointSound, RecordPut
  <2> QED
    BY <1>8, <2>1 DEF Reached
<1>10. FinishedComplete'
  <2>1. \A k \in JobIds : records'[k].state = "finished" => records[k].state = "finished"
    BY <1>7 DEF RecordPut
  <2> QED
    BY <1>8, <2>1, FinishedStaysComplete DEF IInv
<1>11. next \in RunState
  BY <1>2, <1>3 DEF At, RunState, Places
<1>12. run'[r].pc = "loop" /\ run'[r].units = run[r].units /\ run'[r].idx = n
  BY <1>6 DEF IInv, TypeOK, At
<1>13. Reached(j, run[r].idx)'
  BY <1>5, <1>8, <1>12 DEF Reached
<1>14. RunInv(r)'
  BY <1>2, <1>3, <1>7, <1>12, <1>13 DEF RunInv, InList, RecordPut
<1> QED
  BY <1>6, <1>7, <1>8, <1>9, <1>10, <1>11, <1>14, StepKeeps DEF RecordPut

\* A run finishes its job only at the end of its list.
LEMMA FinishIInv ==
  ASSUME IInv, NEW r \in Runners, Finish(r)
  PROVE  IInv'
<1> DEFINE j == JobOf[r]
<1>1. run[r].pc \in InList /\ ~MoreUnits(r)
  BY DEF Finish, IsAt, InList
<1>2. /\ run[r] \in RunState /\ j \in JobIds
      /\ run[r].units \in UnitLists[j] /\ run[r].idx <= Len(run[r].units)
  BY <1>1, RunnersAssumption DEF IInv, TypeOK, RunInv
<1>3. run[r].idx = Len(run[r].units)
  BY <1>1, <1>2 DEF MoreUnits, RunState
<1>4. Reached(j, Len(run[r].units))
  BY <1>3 DEF IInv, RunInv
<1>5. \A i \in DOMAIN run[r].units : run[r].units[i] \in checkpoints[j]
  BY <1>2, <1>4, ReachedAll
<1>6. /\ MarkFinished(j) /\ UNCHANGED rawVars /\ JobStoreTypeOK
      /\ run' = [run EXCEPT ![r] = Outside("idle")]
  BY DEF Finish, Goto, Idle, IInv, TypeOK
<1>7. RecordPut(j) /\ records'[j].checkpoint = records[j].checkpoint
  BY <1>2, <1>6, JobFinished
<1>8. RawStoreTypeOK' /\ checkpoints' = checkpoints
  BY <1>6, RawKept DEF rawVars
<1>9. CheckpointSound'
  <2>1. \A k \in JobIds : records'[k].checkpoint = records[k].checkpoint
    BY <1>7 DEF RecordPut
  <2> QED
    BY <1>8, <2>1, CheckpointsStaySound DEF IInv
<1>10. FinishedComplete'
  <2> SUFFICES ASSUME NEW k \in JobIds, records'[k].state = "finished"
               PROVE  \E t \in UnitLists[k] : \A i \in DOMAIN t : t[i] \in checkpoints[k]
    BY <1>8 DEF FinishedComplete
  <2>1. CASE k = j
    BY <1>2, <1>5, <2>1
  <2>2. CASE k # j
    BY <1>7, <2>2 DEF IInv, FinishedComplete, RecordPut
  <2> QED
    BY <2>1, <2>2
<1>11. Outside("idle") \in RunState /\ RunInv(r)'
  BY <1>6, OutsideSound DEF IInv, Places, InList
<1> QED
  BY <1>6, <1>7, <1>8, <1>9, <1>10, <1>11, StepKeeps DEF RecordPut

\* Nothing moved.
LEMMA StutterIInv ==
  ASSUME IInv, UNCHANGED vars
  PROVE  IInv'
<1>1. TypeOK'
  BY DEF vars, rawVars, IInv, TypeOK, JobStoreTypeOK, RawStoreTypeOK
<1>2. CheckpointSound' /\ FinishedComplete'
  BY DEF vars, rawVars, IInv, CheckpointSound, FinishedComplete, Reached
<1>3. \A r \in Runners : RunInv(r)'
  BY DEF vars, rawVars, IInv, RunInv, Reached, MoreUnits, Unit
<1> QED
  BY <1>1, <1>2, <1>3 DEF IInv

LEMMA NextIInv == IInv /\ [Next]_vars => IInv'
<1> SUFFICES ASSUME IInv, [Next]_vars PROVE IInv'
  OBVIOUS
<1>1. ASSUME NEW r \in Runners, Start(r) PROVE IInv'
  BY <1>1, StartIInv
<1>2. ASSUME NEW r \in Runners, BeginRun(r) PROVE IInv'
  BY <1>2, BeginRunIInv
<1>3. ASSUME NEW r \in Runners, LoadUnits(r) PROVE IInv'
  BY <1>3, LoadUnitsIInv
<1>4. ASSUME NEW r \in Runners, RejectCheckpoint(r) PROVE IInv'
  <2>1. run[r].pc # "idle" /\ run' = [run EXCEPT ![r] = Outside("idle")]
    BY <1>4 DEF RejectCheckpoint, IsAt, Goto, Idle
  <2> QED
    BY <1>4, <2>1, LeavesIInv DEF RejectCheckpoint
<1>5. ASSUME NEW r \in Runners, ProcessUnit(r) PROVE IInv'
  BY <1>5, StoreLatestIInv, StagePayloadIInv, ArchiveIInv, CommitUnitIInv
     DEF ProcessUnit
<1>6. ASSUME NEW r \in Runners, Progress(r) PROVE IInv'
  BY <1>6, ProgressIInv
<1>7. ASSUME NEW r \in Runners, Finish(r) PROVE IInv'
  BY <1>7, FinishIInv
<1>8. ASSUME NEW r \in Runners, RecordFailure(r) PROVE IInv'
  BY <1>8, RecordFailureIInv
<1>9. ASSUME NEW r \in Runners, ProcessRaises(r) PROVE IInv'
  <2>1. run[r].pc # "idle" /\ run' = [run EXCEPT ![r] = Outside("raised")]
    BY <1>9 DEF ProcessRaises, CanRaise, NextArchive, IsAt, Goto
  <2> QED
    BY <1>9, <2>1, LeavesIInv DEF ProcessRaises
<1>10. ASSUME NEW r \in Runners, Interrupt(r) PROVE IInv'
  <2>1. run[r].pc # "idle" /\ run' = [run EXCEPT ![r] = Outside("idle")]
    BY <1>10 DEF Interrupt, IsAt, Goto, Idle
  <2> QED
    BY <1>10, <2>1, LeavesIInv DEF Interrupt
<1>11. CASE UNCHANGED vars
  BY <1>11, StutterIInv
<1> QED
  BY <1>1, <1>2, <1>3, <1>4, <1>5, <1>6, <1>7, <1>8, <1>9, <1>10, <1>11
     DEF Next, Step

\* The strengthening holds in every reachable state of run().
LEMMA IInvHolds == Spec => []IInv
  BY InitIInv, NextIInv, PTL DEF Spec

------------------------------------------------------------------------------
(* The theorems. *)

\* The stores and the runs keep their types.
THEOREM TypeCorrect == Spec => []TypeOK
<1>1. IInv => TypeOK
  BY DEF IInv
<1> QED
  BY <1>1, IInvHolds, PTL

\* The stored checkpoint never runs ahead of the units committed, for any number
\* of runs of a job that overlap, fail or are interrupted anywhere.
THEOREM CheckpointsAreSound == Spec => []CheckpointSound
<1>1. IInv => CheckpointSound
  BY DEF IInv
<1> QED
  BY <1>1, IInvHolds, PTL

\* A job recorded as finished has committed every unit of one of its lists, even
\* when another run reopens it.
THEOREM FinishedJobsAreComplete == Spec => []FinishedComplete
<1>1. IInv => FinishedComplete
  BY DEF IInv
<1> QED
  BY <1>1, IInvHolds, PTL

------------------------------------------------------------------------------
(***************************************************************************)
(* What the jobs leave behind.                                             *)
(*                                                                         *)
(* Two stores are written in turn and no lock spans them, so the staging   *)
(* invariant says what of a unit is still owed while it is being           *)
(* processed: every payload of the answer in hand is in the store, with    *)
(* its rows, or is among those the run has yet to stage.                   *)
(*                                                                         *)
(* A job that one instance runs is a resumable job: nobody else moves its  *)
(* record, so its run is at the checkpoint and each of its steps is a step *)
(* of ResumableJob or leaves state and checkpoint alone.                   *)
(***************************************************************************)

\* The named payloads of an answer: itself and its archives.
Named(p) == ({p} \cup {ArchivesOf[p][i] : i \in DOMAIN ArchivesOf[p]}) \ {NoName}

\* A payload is stored and its rows are staged for a unit.
In(u, q) == Stored(q) /\ \A a \in HeadersIn[q] : <<u, a>> \in header_keys

\* A row is staged only under a key the store knows.
RowsKeyed == \A row \in Row : headers[row] > 0 => KeyOf(row) \in header_keys

\* What is not in yet is still on the run's list.
Owing(u, todo) ==
  \E p \in Latest[u] : \A q \in Named(p) :
    In(u, q) \/ \E i \in DOMAIN todo : todo[i] = q

UnitInv(r) ==
  /\ run[r].pc \in {"stored", "staged"} => Owing(Unit(r), run[r].todo)
  /\ run[r].pc = "stored" => Stored(Head(run[r].todo))

StagingInv ==
  /\ RowsKeyed
  /\ StagedRowsSound
  /\ CommittedUnitsStaged
  /\ \A r \in Runners : UnitInv(r)

------------------------------------------------------------------------------
(* What the raw store keeps. *)

RawGrows == artifacts \subseteq artifacts' /\ header_keys \subseteq header_keys'

LEMMA StoringGrows ==
  ASSUME NEW u, NEW p, NEW j, StoreRawArtifact(u, p, j)
  PROVE  RawGrows /\ Stored(p)' /\ UNCHANGED <<header_keys, headers, checkpoints>>
<1> DEFINE artifact == [checksum |-> p, subject_key |-> u, job_id |-> j]
<1>1. artifacts' = IF Stored(p) THEN artifacts ELSE artifacts \cup {artifact}
  BY DEF StoreRawArtifact
<1>2. ASSUME Stored(p) PROVE Stored(p)'
  BY <1>1, <1>2 DEF Stored
<1>3. ASSUME ~Stored(p) PROVE Stored(p)'
  <2>1. artifact \in artifacts' /\ artifact.checksum = p
    BY <1>1, <1>3
  <2> QED
    BY <2>1 DEF Stored
<1> QED
  BY <1>1, <1>2, <1>3 DEF StoreRawArtifact, RawGrows

LEMMA StagingGrows ==
  ASSUME NEW rows, StageFilingHeaders(rows)
  PROVE  RawGrows /\ UNCHANGED <<artifacts, checkpoints>>
  BY DEF StageFilingHeaders, RawGrows

LEMMA CommittingGrows ==
  ASSUME NEW j, NEW u, PersistCheckpoint(j, u)
  PROVE  RawGrows /\ UNCHANGED <<artifacts, header_keys, headers>>
  BY DEF PersistCheckpoint, RawGrows

\* What is in stays in, and what was owed at most stays owed.
LEMMA OwingStays ==
  ASSUME RawGrows, NEW u, NEW todo, Owing(u, todo)
  PROVE  Owing(u, todo)'
  BY DEF RawGrows, Owing, In, Stored

\* The rows staged stay sound while none is added.
LEMMA RowsStay ==
  ASSUME RowsKeyed, StagedRowsSound, RawGrows, UNCHANGED headers
  PROVE  RowsKeyed' /\ StagedRowsSound'
<1>1. RowsKeyed'
  BY DEF RowsKeyed, RawGrows
<1>2. \A p : Stored(p) => Stored(p)'
  BY DEF RawGrows, Stored
<1>3. StagedRowsSound'
  BY <1>2 DEF StagedRowsSound
<1> QED
  BY <1>1, <1>3

\* Commitments stay staged while none is added.
LEMMA CommittedStays ==
  ASSUME CommittedUnitsStaged, RawGrows, UNCHANGED checkpoints
  PROVE  CommittedUnitsStaged'
<1>1. \A p : Stored(p) => Stored(p)'
  BY DEF RawGrows, Stored
<1> QED
  BY <1>1 DEF CommittedUnitsStaged, RawGrows

\* Staging the rows of a stored payload adds each row whose key is new, once, and
\* leaves the payload in for the unit.
LEMMA RowsAdded ==
  ASSUME RawStoreTypeOK, RowsKeyed, StagedRowsSound,
         NEW u \in Units, NEW p \in Payloads, Stored(p),
         StageFilingHeaders(RowsOf(u, p))
  PROVE  RowsKeyed' /\ StagedRowsSound' /\ In(u, p)'
<1> DEFINE fresh == FreshRows(RowsOf(u, p))
<1>0. HeadersIn[p] \subseteq Accessions
  BY HeadersInAssumption DEF HeadersInAssumption
<1>1. /\ header_keys' = header_keys \cup {KeyOf(row) : row \in fresh}
      /\ artifacts' = artifacts
      /\ headers' = [row \in Row |-> headers[row] + IF row \in fresh THEN 1 ELSE 0]
  BY DEF StageFilingHeaders
<1>2. \A row \in fresh : /\ row \in Row /\ row.checksum = p /\ row.cik = u
                         /\ KeyOf(row) \notin header_keys
  BY <1>0 DEF FreshRows, RowsOf, Row
<1>3. \A row \in fresh : headers[row] = 0
  BY <1>2 DEF RowsKeyed, RawStoreTypeOK
<1>4. \A row \in Row : headers'[row] = IF row \in fresh THEN 1 ELSE headers[row]
  BY <1>1, <1>3 DEF RawStoreTypeOK
<1>5. RowsKeyed'
  BY <1>1, <1>4 DEF RowsKeyed
<1>6. \A q : Stored(q)' <=> Stored(q)
  BY <1>1 DEF Stored
<1>7. ASSUME NEW row \in Row, headers'[row] > 0
      PROVE  headers'[row] = 1 /\ Stored(row.checksum)'
  BY <1>2, <1>4, <1>6, <1>7 DEF StagedRowsSound
<1>8. ASSUME NEW row \in Row, NEW other \in Row, headers'[row] > 0,
             headers'[other] > 0, KeyOf(other) = KeyOf(row)
      PROVE  other = row
  <2>1. CASE row \in fresh /\ other \in fresh
    <3>1. \A kin \in fresh :
            kin = [cik |-> u, accession_number |-> kin.accession_number, checksum |-> p]
      BY DEF FreshRows, RowsOf
    <3>2. other.accession_number = row.accession_number
      BY <1>8 DEF KeyOf
    <3> QED
      BY <2>1, <3>1, <3>2
  <2>2. CASE row \notin fresh /\ other \notin fresh
    BY <1>4, <1>8, <2>2 DEF StagedRowsSound
  <2>3. CASE row \in fresh /\ other \notin fresh
    BY <1>2, <1>4, <1>8, <2>3 DEF RowsKeyed
  <2>4. CASE row \notin fresh /\ other \in fresh
    BY <1>2, <1>4, <1>8, <2>4 DEF RowsKeyed
  <2> QED
    BY <2>1, <2>2, <2>3, <2>4
<1>9. StagedRowsSound'
  BY <1>7, <1>8 DEF StagedRowsSound
<1>10. \A a \in HeadersIn[p] : <<u, a>> \in header_keys'
  <2> SUFFICES ASSUME NEW a \in HeadersIn[p], <<u, a>> \notin header_keys
               PROVE  <<u, a>> \in header_keys'
    BY <1>1
  <2> DEFINE row == [cik |-> u, accession_number |-> a, checksum |-> p]
  <2>1. row \in fresh /\ KeyOf(row) = <<u, a>>
    BY DEF FreshRows, RowsOf, KeyOf
  <2> QED
    BY <1>1, <2>1
<1> QED
  BY <1>5, <1>6, <1>9, <1>10 DEF In

------------------------------------------------------------------------------
(* What a step leaves to show. *)

\* A step of r leaves what the other runs owe as it was, or less.
LEMMA OthersOwe ==
  ASSUME TypeOK, NEW r \in Runners, NEW q \in Runners, q # r, UnitInv(q),
         NEW next, run' = [run EXCEPT ![r] = next], RawGrows
  PROVE  UnitInv(q)'
<1>1. run'[q] = run[q]
  BY DEF TypeOK
<1>2. \A p : Stored(p) => Stored(p)'
  BY DEF RawGrows, Stored
<1>3. Owing(Unit(q), run[q].todo) => Owing(Unit(q), run[q].todo)'
  BY <1>1, <1>2 DEF Owing, In, RawGrows, Unit
<1> QED
  BY <1>1, <1>2, <1>3 DEF UnitInv

LEMMA StepOwes ==
  ASSUME TypeOK, StagingInv, NEW r \in Runners, NEW next,
         run' = [run EXCEPT ![r] = next], RawGrows,
         RowsKeyed', StagedRowsSound', CommittedUnitsStaged', UnitInv(r)'
  PROVE  StagingInv'
<1>1. \A q \in Runners : UnitInv(q)'
  BY OthersOwe DEF StagingInv
<1> QED
  BY <1>1 DEF StagingInv

\* A step outside process_unit, which touches the raw store in no way.
LEMMA OutsideOwes ==
  ASSUME TypeOK, StagingInv, NEW r \in Runners, UNCHANGED rawVars,
         NEW next, run' = [run EXCEPT ![r] = next],
         next.pc \notin {"stored", "staged"}
  PROVE  StagingInv'
<1>1. RawGrows /\ UNCHANGED <<headers, checkpoints>>
  BY DEF rawVars, RawGrows
<1>2. UnitInv(r)'
  BY DEF TypeOK, UnitInv
<1> QED
  BY <1>1, <1>2, RowsStay, CommittedStays, StepOwes DEF StagingInv

------------------------------------------------------------------------------
(* Every step keeps the staging invariant. *)

LEMMA InitStaging == Init => StagingInv
<1> SUFFICES ASSUME Init PROVE StagingInv
  OBVIOUS
<1>1. \A row \in Row : headers[row] = 0
  BY DEF Init, RawStoreInit
<1>2. RowsKeyed /\ StagedRowsSound
  BY <1>1 DEF RowsKeyed, StagedRowsSound
<1>3. CommittedUnitsStaged
  BY DEF Init, RawStoreInit, CommittedUnitsStaged
<1>4. \A r \in Runners : UnitInv(r)
  BY DEF Init, UnitInv, Idle, Outside, At
<1> QED
  BY <1>2, <1>3, <1>4 DEF StagingInv

\* The answer just fetched is owed whole, and its first payload is stored.
LEMMA StoreLatestStaging ==
  ASSUME IInv, StagingInv, NEW r \in Runners, StoreLatest(r)
  PROVE  StagingInv'
<1>1. /\ Unit(r) \in Units /\ JobOf[r] \in JobIds /\ TypeOK
  BY UnitInList DEF StoreLatest, IsAt, InList, IInv
<1>2. PICK p \in Latest[Unit(r)] :
        /\ StoreRawArtifact(Unit(r), p, JobOf[r])
        /\ Goto(r, At("stored", run[r].units, run[r].idx, <<p>> \o ArchivesOf[p]))
  BY DEF StoreLatest
<1> DEFINE todo == <<p>> \o ArchivesOf[p]
           next == At("stored", run[r].units, run[r].idx, todo)
<1>3. p \in Payloads /\ ArchivesOf[p] \in Seq(Payloads \cup {NoName})
  BY <1>1, RunnersAssumption
<1>4. RawGrows /\ Stored(p)' /\ UNCHANGED <<header_keys, headers, checkpoints>>
  BY <1>2, StoringGrows
<1>5. Head(todo) = p
  BY <1>3
<1>6. \A q \in Named(p) : \E i \in DOMAIN todo : todo[i] = q
  <2> SUFFICES ASSUME NEW q \in Named(p) PROVE \E i \in DOMAIN todo : todo[i] = q
    OBVIOUS
  <2>1. CASE q = p
    <3>1. 1 \in DOMAIN todo /\ todo[1] = p
      BY <1>3
    <3> QED
      BY <2>1, <3>1
  <2>2. CASE q # p
    <3>1. PICK i \in DOMAIN ArchivesOf[p] : ArchivesOf[p][i] = q
      BY <2>2 DEF Named
    <3>2. i + 1 \in DOMAIN todo /\ todo[i + 1] = q
      BY <1>3, <3>1
    <3> QED
      BY <3>2
  <2> QED
    BY <2>1, <2>2
<1>7. run' = [run EXCEPT ![r] = next] /\ run'[r] = next
  BY <1>1, <1>2 DEF Goto, TypeOK
<1>8. Unit(r)' = Unit(r) /\ run'[r].todo = todo
  BY <1>7 DEF Unit, At
<1>9. Owing(Unit(r), run[r].todo)'
  BY <1>2, <1>6, <1>8 DEF Owing
<1>10. UnitInv(r)'
  BY <1>4, <1>5, <1>8, <1>9 DEF UnitInv
<1> QED
  BY <1>1, <1>4, <1>7, <1>10, RowsStay, CommittedStays, StepOwes DEF StagingInv

\* The payload in hand is in, so the rest of the list is all that is owed.
LEMMA StagePayloadStaging ==
  ASSUME IInv, StagingInv, NEW r \in Runners, StagePayload(r)
  PROVE  StagingInv'
<1>1. run[r].pc = "stored" /\ run[r].pc \in InList /\ MoreUnits(r) /\ TypeOK
  BY DEF StagePayload, IsAt, InList, IInv, RunInv
<1>2. PICK u \in Units, todo \in Seq(Payloads \cup {NoName}) :
        u = Unit(r) /\ todo = run[r].todo
  BY <1>1, UnitInList DEF RunState
<1> DEFINE p    == Head(todo)
           rest == Tail(todo)
           next == At("staged", run[r].units, run[r].idx, rest)
<1>3. todo # <<>> /\ p \in Payloads
  BY <1>1, <1>2 DEF IInv, RunInv
<1>4. Stored(p) /\ Owing(u, todo)
  BY <1>1, <1>2 DEF StagingInv, UnitInv
<1>5. StageFilingHeaders(RowsOf(u, p)) /\ run' = [run EXCEPT ![r] = next]
  BY <1>2 DEF StagePayload, Goto
<1>6. RawGrows /\ UNCHANGED <<artifacts, checkpoints>>
  BY <1>5, StagingGrows
<1>7. Unit(r)' = u /\ run'[r].todo = rest /\ run'[r].pc = "staged"
  BY <1>1, <1>2, <1>5 DEF TypeOK, Unit, At
<1>8. RowsKeyed' /\ StagedRowsSound' /\ In(u, p)'
  BY <1>1, <1>2, <1>3, <1>4, <1>5, RowsAdded DEF TypeOK, StagingInv
<1>9. \A i \in DOMAIN todo : todo[i] = p \/ \E k \in DOMAIN rest : rest[k] = todo[i]
  <2> SUFFICES ASSUME NEW i \in DOMAIN todo, i # 1
               PROVE  \E k \in DOMAIN rest : rest[k] = todo[i]
    BY <1>3
  <2>1. i - 1 \in DOMAIN rest /\ rest[i - 1] = todo[i]
    BY <1>3
  <2> QED
    BY <2>1
<1>10. Owing(Unit(r), run[r].todo)'
  <2>1. PICK a \in Latest[u] : \A q \in Named(a) :
          In(u, q) \/ \E i \in DOMAIN todo : todo[i] = q
    BY <1>4 DEF Owing
  <2>2. \A q : In(u, q) => In(u, q)'
    BY <1>6 DEF In, Stored, RawGrows
  <2>3. \A q \in Named(a) : In(u, q)' \/ \E k \in DOMAIN rest : rest[k] = q
    BY <1>8, <1>9, <2>1, <2>2
  <2> QED
    BY <1>7, <2>3 DEF Owing
<1>11. UnitInv(r)'
  BY <1>7, <1>10 DEF UnitInv
<1> QED
  BY <1>1, <1>5, <1>6, <1>8, <1>11, CommittedStays, StepOwes DEF StagingInv

\* A blank archive name owes nothing.
LEMMA SkipUnnamedStaging ==
  ASSUME IInv, StagingInv, NEW r \in Runners, SkipUnnamed(r)
  PROVE  StagingInv'
<1>1. run[r].pc = "staged" /\ run[r].pc \in InList /\ MoreUnits(r) /\ TypeOK
  BY DEF SkipUnnamed, NextArchive, IsAt, InList, IInv, RunInv
<1>2. PICK u \in Units, todo \in Seq(Payloads \cup {NoName}) :
        u = Unit(r) /\ todo = run[r].todo
  BY <1>1, UnitInList DEF RunState
<1> DEFINE rest == Tail(todo)
           next == At("staged", run[r].units, run[r].idx, rest)
<1>3. /\ todo # <<>> /\ Head(todo) = NoName /\ Owing(u, todo)
      /\ UNCHANGED rawVars /\ run' = [run EXCEPT ![r] = next]
  BY <1>1, <1>2 DEF SkipUnnamed, NextArchive, Goto, StagingInv, UnitInv
<1>4. RawGrows /\ UNCHANGED <<headers, checkpoints>>
  BY <1>3 DEF rawVars, RawGrows
<1>5. Unit(r)' = u /\ run'[r].todo = rest /\ run'[r].pc = "staged"
  BY <1>1, <1>2, <1>3 DEF TypeOK, Unit, At
<1>6. \A i \in DOMAIN todo : todo[i] = NoName \/ \E k \in DOMAIN rest : rest[k] = todo[i]
  <2> SUFFICES ASSUME NEW i \in DOMAIN todo, i # 1
               PROVE  \E k \in DOMAIN rest : rest[k] = todo[i]
    BY <1>3
  <2>1. i - 1 \in DOMAIN rest /\ rest[i - 1] = todo[i]
    BY <1>3
  <2> QED
    BY <2>1
<1>7. Owing(Unit(r), run[r].todo)'
  <2>1. PICK a \in Latest[u] : \A q \in Named(a) :
          In(u, q) \/ \E i \in DOMAIN todo : todo[i] = q
    BY <1>3 DEF Owing
  <2>2. \A q : In(u, q) => In(u, q)'
    BY <1>4 DEF In, Stored, RawGrows
  <2>3. NoName \notin Named(a)
    BY DEF Named
  <2>4. \A q \in Named(a) : In(u, q)' \/ \E k \in DOMAIN rest : rest[k] = q
    BY <1>6, <2>1, <2>2, <2>3
  <2> QED
    BY <1>5, <2>4 DEF Owing
<1>8. UnitInv(r)'
  BY <1>5, <1>7 DEF UnitInv
<1> QED
  BY <1>1, <1>3, <1>4, <1>8, RowsStay, CommittedStays, StepOwes DEF StagingInv

LEMMA StoreArchiveStaging ==
  ASSUME IInv, StagingInv, NEW r \in Runners, StoreArchive(r)
  PROVE  StagingInv'
<1>1. run[r].pc = "staged" /\ run[r].pc \in InList /\ MoreUnits(r) /\ TypeOK
  BY DEF StoreArchive, NextArchive, IsAt, InList, IInv, RunInv
<1>2. PICK u \in Units, todo \in Seq(Payloads \cup {NoName}) :
        u = Unit(r) /\ todo = run[r].todo
  BY <1>1, UnitInList DEF RunState
<1> DEFINE next == At("stored", run[r].units, run[r].idx, todo)
<1>3. /\ StoreRawArtifact(u, Head(todo), JobOf[r]) /\ Owing(u, todo)
      /\ run' = [run EXCEPT ![r] = next]
  BY <1>1, <1>2 DEF StoreArchive, Goto, StagingInv, UnitInv
<1>4. RawGrows /\ Stored(Head(todo))' /\ UNCHANGED <<header_keys, headers, checkpoints>>
  BY <1>3, StoringGrows
<1>5. Unit(r)' = u /\ run'[r].todo = todo /\ run'[r].pc = "stored"
  BY <1>1, <1>2, <1>3 DEF TypeOK, Unit, At
<1>6. Owing(u, todo)'
  BY <1>3, <1>4, OwingStays
<1>7. UnitInv(r)'
  BY <1>4, <1>5, <1>6 DEF UnitInv
<1> QED
  BY <1>1, <1>3, <1>4, <1>7, RowsStay, CommittedStays, StepOwes DEF StagingInv

\* Nothing is owed when the list is empty: the unit is in, whole.
LEMMA CommitUnitStaging ==
  ASSUME IInv, StagingInv, NEW r \in Runners, CommitUnit(r)
  PROVE  StagingInv'
<1>1. run[r].pc = "staged" /\ run[r].pc \in InList /\ MoreUnits(r) /\ TypeOK
  BY DEF CommitUnit, IsAt, InList, IInv, RunInv
<1>2. PICK u \in Units, j \in JobIds : u = Unit(r) /\ j = JobOf[r]
  BY <1>1, UnitInList
<1> DEFINE next == At("committed", run[r].units, run[r].idx, <<>>)
<1>3. /\ PersistCheckpoint(j, u) /\ run' = [run EXCEPT ![r] = next]
      /\ Owing(u, <<>>)
  BY <1>1, <1>2 DEF CommitUnit, Goto, StagingInv, UnitInv
<1>4. RawGrows /\ UNCHANGED <<artifacts, header_keys, headers>>
  BY <1>3, CommittingGrows
<1>5. PICK p \in Latest[u] : \A q \in Named(p) : In(u, q)
  BY <1>3 DEF Owing
<1>6. CommittedUnitsStaged'
  <2>1. \A k \in JobIds : checkpoints'[k] \subseteq checkpoints[k] \cup {u}
    BY <1>1, <1>3 DEF PersistCheckpoint, TypeOK, RawStoreTypeOK
  <2>2. \A q : Stored(q)' <=> Stored(q)
    BY <1>4 DEF Stored
  <2>3. ASSUME NEW q \in {p} \cup {ArchivesOf[p][i] : i \in DOMAIN ArchivesOf[p]},
               q # NoName
        PROVE  Stored(q) /\ \A a \in HeadersIn[q] : <<u, a>> \in header_keys
    BY <1>5, <2>3 DEF Named, In
  <2> QED
    BY <1>4, <2>1, <2>2, <2>3 DEF StagingInv, CommittedUnitsStaged
<1>7. UnitInv(r)'
  BY <1>1, <1>3 DEF TypeOK, UnitInv, At
<1> QED
  BY <1>1, <1>3, <1>4, <1>6, <1>7, RowsStay, StepOwes DEF StagingInv

LEMMA StutterStaging ==
  ASSUME StagingInv, UNCHANGED vars
  PROVE  StagingInv'
<1>1. RawGrows /\ UNCHANGED <<headers, checkpoints>> /\ UNCHANGED run
  BY DEF vars, rawVars, RawGrows
<1>2. \A r \in Runners : UnitInv(r)'
  <2> SUFFICES ASSUME NEW r \in Runners, UnitInv(r) PROVE UnitInv(r)'
    BY DEF StagingInv
  <2>1. Owing(Unit(r), run[r].todo) => Owing(Unit(r), run[r].todo)'
    BY <1>1 DEF Owing, In, Stored, RawGrows, Unit
  <2> QED
    BY <1>1, <2>1 DEF UnitInv, Stored, RawGrows
<1> QED
  BY <1>1, <1>2, RowsStay, CommittedStays DEF StagingInv

LEMMA NextStaging == IInv /\ StagingInv /\ [Next]_vars => StagingInv'
<1> SUFFICES ASSUME IInv, StagingInv, [Next]_vars PROVE StagingInv'
  OBVIOUS
<1>0. TypeOK
  BY DEF IInv
<1>1. ASSUME NEW r \in Runners, NEW next, Goto(r, next), UNCHANGED rawVars,
             next.pc \notin {"stored", "staged"}
      PROVE  StagingInv'
  BY <1>0, <1>1, OutsideOwes DEF Goto
<1>2. ASSUME NEW r \in Runners, ProcessUnit(r)
      PROVE  StagingInv'
  BY <1>2, StoreLatestStaging, StagePayloadStaging, SkipUnnamedStaging,
     StoreArchiveStaging, CommitUnitStaging DEF ProcessUnit
<1>3. ASSUME NEW r \in Runners,
             \/ Start(r) \/ BeginRun(r) \/ LoadUnits(r) \/ RejectCheckpoint(r)
             \/ Progress(r) \/ Finish(r) \/ RecordFailure(r) \/ ProcessRaises(r)
             \/ Interrupt(r)
      PROVE  StagingInv'
  <2>1. UNCHANGED rawVars
    BY <1>3 DEF Start, BeginRun, LoadUnits, RejectCheckpoint, Progress, Finish,
         RecordFailure, ProcessRaises, Interrupt
  <2>2. \E next : Goto(r, next) /\ next.pc \notin {"stored", "staged"}
    <3>1. \A pc, units, idx, todo :
            At(pc, units, idx, todo).pc = pc /\ Outside(pc).pc = pc /\ Idle.pc = "idle"
      BY DEF At, Outside, Idle
    <3>2. CASE Start(r)
      <4>1. Goto(r, Idle) \/ Goto(r, Outside("starting"))
        BY <3>2 DEF Start
      <4> QED
        BY <3>1, <4>1
    <3>3. CASE LoadUnits(r)
      <4>1. PICK units : Goto(r, At("loop", units, run[r].idx, <<>>))
        BY <3>3 DEF LoadUnits
      <4> QED
        BY <3>1, <4>1
    <3>4. CASE BeginRun(r)
      <4>1. Goto(r, At("loading", <<>>, records[JobOf[r]].checkpoint, <<>>))
        BY <3>4 DEF BeginRun
      <4> QED
        BY <3>1, <4>1
    <3>5. CASE Progress(r)
      <4>1. Goto(r, At("loop", run[r].units, run[r].idx + 1, <<>>))
        BY <3>5 DEF Progress
      <4> QED
        BY <3>1, <4>1
    <3>6. CASE \/ RejectCheckpoint(r) \/ Finish(r) \/ RecordFailure(r)
               \/ ProcessRaises(r) \/ Interrupt(r)
      <4>1. Goto(r, Idle) \/ Goto(r, Outside("raised"))
        BY <3>6 DEF RejectCheckpoint, Finish, RecordFailure, ProcessRaises, Interrupt
      <4> QED
        BY <3>1, <4>1
    <3> QED
      BY <1>3, <3>2, <3>3, <3>4, <3>5, <3>6
  <2> QED
    BY <1>1, <2>1, <2>2
<1>4. CASE UNCHANGED vars
  BY <1>4, StutterStaging
<1> QED
  BY <1>2, <1>3, <1>4 DEF Next, Step

LEMMA StagingHolds == Spec => []StagingInv
  BY InitStaging, NextStaging, IInvHolds, PTL DEF Spec

------------------------------------------------------------------------------
(* Jobs that one instance runs. *)

\* Where the job of a run stands, if nobody else runs it.
ResumeInv(r) ==
  Exclusive(JobOf[r]) =>
    /\ run[r].pc \notin {"idle", "starting", "raised"} =>
         run[r].idx = records[JobOf[r]].checkpoint
    /\ run[r].pc \notin {"idle", "starting"} => records[JobOf[r]].state = "running"
    /\ run[r].pc = "starting" =>
         records[JobOf[r]].state \in {"pending", "running", "failed"}

AllResume == \A r \in Runners : ResumeInv(r)

\* Another instance's step neither moves the run nor the record of its job.
LEMMA OthersResume ==
  ASSUME TypeOK, AllResume, NEW r \in Runners,
         NEW next, run' = [run EXCEPT ![r] = next],
         \A k \in JobIds \ {JobOf[r]} : records'[k] = records[k],
         ResumeInv(r)'
  PROVE  AllResume'
<1> SUFFICES ASSUME NEW q \in Runners, q # r, Exclusive(JobOf[q]) PROVE ResumeInv(q)'
  BY DEF AllResume, ResumeInv
<1>1. JobOf[q] \in JobIds \ {JobOf[r]}
  BY RunnersAssumption DEF Exclusive
<1>2. run'[q] = run[q] /\ records'[JobOf[q]] = records[JobOf[q]]
  BY <1>1 DEF TypeOK
<1> QED
  BY <1>2 DEF AllResume, ResumeInv

\* What a step does to the abstract job: nothing, or one of the moves it promises.
JobStep(r) ==
  \/ records' = records
  \/ LET j == JobOf[r] IN
       /\ \A k \in JobIds \ {j} : records'[k] = records[k]
       /\ Exclusive(j) => \/ Promise!Submit(j) \/ Promise!Run(j)
                          \/ Promise!Advance(j)
                          \/ Promise!Fail(j) \/ Promise!Complete(j)

LEMMA MovesJob ==
  ASSUME NEW j \in JobIds, Exclusive(j), RecordPut(j),
         NEW from, NEW to, records[j].state \in from, records'[j].state = to,
         records'[j].checkpoint = records[j].checkpoint
  PROVE  Promise!Move(j, from, to)
<1>1. j \in ExclusiveJobs /\ \A k \in ExclusiveJobs : k # j => records'[k] = records[k]
  BY DEF ExclusiveJobs, RecordPut
<1> QED
  BY <1>1 DEF Promise!Move

LEMMA AdvancesJob ==
  ASSUME NEW j \in JobIds, Exclusive(j), RecordPut(j),
         records[j].state = "running", records'[j].state = "running",
         records'[j].checkpoint = records[j].checkpoint + 1
  PROVE  Promise!Advance(j)
<1>1. j \in ExclusiveJobs /\ \A k \in ExclusiveJobs : k # j => records'[k] = records[k]
  BY DEF ExclusiveJobs, RecordPut
<1> QED
  BY <1>1 DEF Promise!Advance

LEMMA InitResumes == Init => AllResume /\ Promise!JobInit
<1> SUFFICES ASSUME Init PROVE AllResume /\ Promise!JobInit
  OBVIOUS
<1>1. AllResume
  BY DEF Init, AllResume, ResumeInv, Idle, Outside, At
<1>2. \A j \in ExclusiveJobs : records[j].state = "none" /\ records[j].checkpoint = 0
  BY DEF Init, JobStoreInit, ExclusiveJobs, NoRecord
<1>3. Promise!JobInit
  BY <1>2 DEF Promise!JobInit
<1> QED
  BY <1>1, <1>3

\* create_or_get submits the job, or finds it as it was left.
LEMMA StartResumes ==
  ASSUME IInv, AllResume, NEW r \in Runners, Start(r)
  PROVE  AllResume' /\ JobStep(r)
<1> DEFINE j == JobOf[r]
           pc == IF Created(j).state = "finished" THEN "idle" ELSE "starting"
<1>1. j \in JobIds /\ TypeOK /\ JobStoreTypeOK
  BY RunnersAssumption DEF IInv, TypeOK
<1>2. /\ CreateOrGet(j) /\ run' = [run EXCEPT ![r] = Outside(pc)]
      /\ records' = [records EXCEPT ![j] = Created(j)]
  BY DEF Start, Goto, Idle, CreateOrGet
<1>3. RecordPut(j) /\ records'[j].checkpoint = records[j].checkpoint
  BY <1>1, <1>2, CheckpointKept
<1>4. records'[j] = Created(j) /\ Created(j) \in JobRecord
  BY <1>1, <1>2, RecordFound DEF JobStoreTypeOK, Created, PendingRecord, JobRecord, JobState
<1>5. run'[r].pc = pc
  BY <1>1, <1>2 DEF TypeOK, Outside, At
<1>6. ResumeInv(r)'
  BY <1>4, <1>5 DEF ResumeInv, JobRecord, JobState
<1>7. AllResume'
  BY <1>1, <1>2, <1>3, <1>6, OthersResume DEF RecordPut
<1>8. CASE records[j] = NoRecord
  <2>1. records[j].state = "none" /\ records'[j].state = "pending"
    BY <1>4, <1>8 DEF NoRecord, Created, PendingRecord
  <2>2. Exclusive(j) => Promise!Submit(j)
    BY <1>1, <1>3, <2>1, MovesJob DEF Promise!Submit
  <2> QED
    BY <1>3, <1>7, <2>2 DEF JobStep, RecordPut
<1>9. CASE records[j] # NoRecord
  <2>1. records' = records
    BY <1>1, <1>2, <1>9 DEF Created, JobStoreTypeOK
  <2> QED
    BY <1>7, <2>1 DEF JobStep
<1> QED
  BY <1>8, <1>9

\* mark_running takes up the checkpoint of a job that has not finished.
LEMMA BeginRunResumes ==
  ASSUME IInv, AllResume, NEW r \in Runners, BeginRun(r)
  PROVE  AllResume' /\ JobStep(r)
<1> DEFINE j == JobOf[r]
           next == At("loading", <<>>, records[j].checkpoint, <<>>)
<1>1. j \in JobIds /\ TypeOK /\ JobStoreTypeOK
  BY RunnersAssumption DEF IInv, TypeOK
<1>2. MarkRunning(j) /\ run' = [run EXCEPT ![r] = next] /\ run[r].pc = "starting"
  BY DEF BeginRun, Goto, IsAt
<1>3. RecordPut(j) /\ records'[j].checkpoint = records[j].checkpoint
  BY <1>1, <1>2, CheckpointKept
<1>4. records'[j].state = "running"
  <2>1. records[j] \in JobRecord
    BY <1>1, <1>2, RecordFound DEF MarkRunning
  <2> QED
    BY <1>1, <1>2, <2>1 DEF MarkRunning, JobRecord, JobStoreTypeOK
<1>5. run'[r].pc = "loading" /\ run'[r].idx = records[j].checkpoint
  BY <1>1, <1>2 DEF TypeOK, At
<1>6. ResumeInv(r)'
  BY <1>3, <1>4, <1>5 DEF ResumeInv
<1>7. AllResume'
  BY <1>1, <1>2, <1>3, <1>6, OthersResume DEF RecordPut
<1>8. Exclusive(j) => Promise!Run(j)
  BY <1>1, <1>2, <1>3, <1>4, MovesJob DEF AllResume, ResumeInv, Promise!Run
<1> QED
  BY <1>3, <1>7, <1>8 DEF JobStep, RecordPut

\* mark_progress writes the index after the one it began the unit at: one more
\* than the checkpoint, when no other run has written there.
LEMMA ProgressResumes ==
  ASSUME IInv, AllResume, NEW r \in Runners, Progress(r)
  PROVE  AllResume' /\ JobStep(r)
<1> DEFINE j == JobOf[r]
           n == run[r].idx + 1
           next == At("loop", run[r].units, n, <<>>)
<1>1. j \in JobIds /\ TypeOK /\ JobStoreTypeOK /\ run[r].idx \in Nat
  BY RunnersAssumption DEF IInv, TypeOK, RunState
<1>2. MarkProgress(j, n) /\ run' = [run EXCEPT ![r] = next] /\ run[r].pc = "committed"
  BY DEF Progress, Goto, IsAt
<1>3. /\ RecordPut(j) /\ records'[j].checkpoint = n
      /\ records'[j].state = records[j].state
  BY <1>1, <1>2, CheckpointMoved
<1>4. run'[r].pc = "loop" /\ run'[r].idx = n
  BY <1>1, <1>2 DEF TypeOK, At
<1>5. Exclusive(j) => run[r].idx = records[j].checkpoint /\ records[j].state = "running"
  BY <1>2 DEF AllResume, ResumeInv
<1>6. ResumeInv(r)'
  BY <1>3, <1>4, <1>5 DEF ResumeInv
<1>7. AllResume'
  BY <1>1, <1>2, <1>3, <1>6, OthersResume DEF RecordPut
<1>8. Exclusive(j) => Promise!Advance(j)
  BY <1>1, <1>3, <1>5, AdvancesJob
<1> QED
  BY <1>3, <1>7, <1>8 DEF JobStep, RecordPut

\* A run that ends by recording how it ended.
LEMMA EndResumes ==
  ASSUME IInv, AllResume, NEW r \in Runners, Finish(r) \/ RecordFailure(r)
  PROVE  AllResume' /\ JobStep(r)
<1> DEFINE j == JobOf[r]
<1>1. j \in JobIds /\ TypeOK /\ JobStoreTypeOK
  BY RunnersAssumption DEF IInv, TypeOK
<1>2. /\ run' = [run EXCEPT ![r] = Outside("idle")]
      /\ run[r].pc \notin {"idle", "starting"}
      /\ MarkFinished(j) \/ MarkFailed(j)
  BY DEF Finish, RecordFailure, Goto, IsAt, Idle
<1>3. RecordPut(j) /\ records'[j].checkpoint = records[j].checkpoint
  BY <1>1, <1>2, JobFinished, CheckpointKept
<1>4. /\ MarkFinished(j) => records'[j].state = "finished"
      /\ MarkFailed(j) => records'[j].state = "failed"
  <2>1. records[j] \in JobRecord
    BY <1>1, <1>2, RecordFound DEF MarkFinished, MarkFailed
  <2>2. j \in DOMAIN records /\ records \in [JobIds -> JobRecord \cup {NoRecord}]
    BY <1>1 DEF JobStoreTypeOK
  <2>3. MarkFinished(j) => records'[j].state = "finished"
    BY <2>1, <2>2 DEF MarkFinished, JobRecord
  <2>4. MarkFailed(j) => records'[j].state = "failed"
    BY <2>1, <2>2 DEF MarkFailed, JobRecord
  <2> QED
    BY <2>3, <2>4
<1>5. ResumeInv(r)'
  BY <1>1, <1>2 DEF TypeOK, ResumeInv, Outside, At
<1>6. AllResume'
  BY <1>1, <1>2, <1>3, <1>5, OthersResume DEF RecordPut
<1>7. Exclusive(j) => records[j].state = "running"
  BY <1>2 DEF AllResume, ResumeInv
<1>8. Exclusive(j) /\ MarkFinished(j) => Promise!Complete(j)
  BY <1>1, <1>3, <1>4, <1>7, MovesJob DEF Promise!Complete
<1>9. Exclusive(j) /\ MarkFailed(j) => Promise!Fail(j)
  BY <1>1, <1>3, <1>4, <1>7, MovesJob DEF Promise!Fail
<1> QED
  BY <1>2, <1>3, <1>6, <1>8, <1>9 DEF JobStep, RecordPut

\* A step that touches no record keeps its index, or leaves the loop.
LEMMA QuietResumes ==
  ASSUME IInv, AllResume, NEW r \in Runners, UNCHANGED records,
         NEW next, run' = [run EXCEPT ![r] = next], run[r].pc # "idle",
         \/ next.pc = "idle"
         \/ next.pc = "raised" /\ run[r].pc # "starting"
         \/ /\ run[r].pc \notin {"idle", "starting", "raised"}
            /\ next.pc \in InList /\ next.idx = run[r].idx
  PROVE  AllResume' /\ JobStep(r)
<1>1. TypeOK /\ run'[r] = next
  BY DEF IInv, TypeOK
<1>2. ResumeInv(r)'
  BY <1>1 DEF AllResume, ResumeInv, InList
<1>3. AllResume'
  BY <1>1, <1>2, OthersResume
<1> QED
  BY <1>3 DEF JobStep

LEMMA NextResumes ==
  IInv /\ AllResume /\ [Next]_vars =>
    AllResume' /\ (records' = records \/ \E r \in Runners : JobStep(r))
<1> SUFFICES ASSUME IInv, AllResume, [Next]_vars
             PROVE  AllResume' /\ (records' = records \/ \E r \in Runners : JobStep(r))
  OBVIOUS
<1>1. \A pc, units, idx, todo : LET at == At(pc, units, idx, todo) IN
        at.pc = pc /\ at.idx = idx /\ Outside(pc).pc = pc /\ Idle.pc = "idle"
  BY DEF At, Outside, Idle
<1>2. ASSUME NEW r \in Runners, ProcessUnit(r)
      PROVE  AllResume' /\ JobStep(r)
  <2>1. UNCHANGED records /\ run[r].pc \in {"loop", "stored", "staged"}
    BY <1>2 DEF ProcessUnit, StoreLatest, StagePayload, SkipUnnamed, StoreArchive,
         CommitUnit, NextArchive, IsAt
  <2>2. PICK pc, todo : /\ pc \in {"stored", "staged", "committed"}
                        /\ Goto(r, At(pc, run[r].units, run[r].idx, todo))
    <3>1. CASE StoreLatest(r)
      BY <3>1 DEF StoreLatest
    <3>2. CASE StagePayload(r)
      BY <3>2 DEF StagePayload
    <3>3. CASE SkipUnnamed(r)
      BY <3>3 DEF SkipUnnamed
    <3>4. CASE StoreArchive(r)
      BY <3>4 DEF StoreArchive
    <3>5. CASE CommitUnit(r)
      BY <3>5 DEF CommitUnit
    <3> QED
      BY <1>2, <3>1, <3>2, <3>3, <3>4, <3>5 DEF ProcessUnit
  <2> DEFINE next == At(pc, run[r].units, run[r].idx, todo)
  <2>3. next.pc \in InList /\ next.idx = run[r].idx /\ run' = [run EXCEPT ![r] = next]
    BY <1>1, <2>2 DEF Goto, InList
  <2> QED
    BY <2>1, <2>3, QuietResumes
<1>3. ASSUME NEW r \in Runners, LoadUnits(r)
      PROVE  AllResume' /\ JobStep(r)
  <2>1. PICK units : Goto(r, At("loop", units, run[r].idx, <<>>))
    BY <1>3 DEF LoadUnits
  <2>2. run[r].pc = "loading" /\ UNCHANGED records
    BY <1>3 DEF LoadUnits, IsAt
  <2> DEFINE next == At("loop", units, run[r].idx, <<>>)
  <2>3. next.pc \in InList /\ next.idx = run[r].idx /\ run' = [run EXCEPT ![r] = next]
    BY <1>1, <2>1 DEF Goto, InList
  <2> QED
    BY <2>2, <2>3, QuietResumes
<1>4. ASSUME NEW r \in Runners, RejectCheckpoint(r) \/ Interrupt(r)
      PROVE  AllResume' /\ JobStep(r)
  <2>1. Goto(r, Idle) /\ run[r].pc # "idle" /\ UNCHANGED records
    BY <1>4 DEF RejectCheckpoint, Interrupt, IsAt
  <2> QED
    BY <1>1, <2>1, QuietResumes DEF Goto
<1>5. ASSUME NEW r \in Runners, ProcessRaises(r)
      PROVE  AllResume' /\ JobStep(r)
  <2>1. /\ Goto(r, Outside("raised")) /\ run[r].pc \notin {"idle", "starting"}
        /\ UNCHANGED records
    BY <1>5 DEF ProcessRaises, CanRaise, NextArchive, IsAt
  <2> QED
    BY <1>1, <2>1, QuietResumes DEF Goto
<1>6. CASE UNCHANGED vars
  BY <1>6 DEF vars, AllResume, ResumeInv
<1> QED
  BY <1>2, <1>3, <1>4, <1>5, <1>6, StartResumes, BeginRunResumes, ProgressResumes,
     EndResumes DEF Next, Step

\* Each step is one of the abstract job's, or moves no job that is exclusive.
LEMMA StepImplements ==
  ASSUME records' = records \/ \E r \in Runners : JobStep(r)
  PROVE  [Promise!JobNext]_(Promise!jobVars)
<1>1. ASSUME \A k \in ExclusiveJobs : records'[k] = records[k]
      PROVE  UNCHANGED Promise!jobVars
  BY <1>1 DEF Promise!jobVars
<1>2. CASE records' = records
  BY <1>1, <1>2
<1>3. ASSUME NEW r \in Runners, JobStep(r), records' # records
      PROVE  [Promise!JobNext]_(Promise!jobVars)
  <2> DEFINE j == JobOf[r]
  <2>1. j \in JobIds
    BY RunnersAssumption
  <2>2. CASE Exclusive(j)
    <3>1. j \in ExclusiveJobs
      BY <2>1, <2>2 DEF ExclusiveJobs
    <3> QED
      BY <1>3, <2>2, <3>1 DEF JobStep, Promise!JobNext
  <2>3. CASE ~Exclusive(j)
    <3>1. \A k \in ExclusiveJobs : records'[k] = records[k]
      BY <1>3, <2>3 DEF JobStep, ExclusiveJobs
    <3> QED
      BY <1>1, <3>1
  <2> QED
    BY <2>2, <2>3
<1> QED
  BY <1>2, <1>3

LEMMA ResumeHolds == Spec => []AllResume
  BY InitResumes, NextResumes, IInvHolds, PTL DEF Spec

------------------------------------------------------------------------------
(* Jobs that divide the units. *)

\* Every unit is on each list of one job and on no list of another.
Divided ==
  \A u \in Units : \E j \in JobIds : \A k \in JobIds : \A t \in UnitLists[k] :
    (\E i \in DOMAIN t : t[i] = u) <=> k = j

\* A job commits units of its own lists.
OwnUnits ==
  \A j \in JobIds : \A u \in checkpoints[j] :
    \E t \in UnitLists[j] : \E i \in DOMAIN t : t[i] = u

LEMMA NextOwnUnits == IInv /\ OwnUnits /\ [Next]_vars => OwnUnits'
<1> SUFFICES ASSUME IInv, OwnUnits, [Next]_vars PROVE OwnUnits'
  OBVIOUS
<1>1. ASSUME NEW r \in Runners, CommitUnit(r) PROVE OwnUnits'
  <2>1. run[r].pc \in InList /\ MoreUnits(r)
    BY <1>1 DEF CommitUnit, IsAt, InList, IInv, RunInv
  <2>2. /\ run[r].units \in UnitLists[JobOf[r]] /\ JobOf[r] \in JobIds
        /\ run[r] \in RunState /\ run[r].idx < Len(run[r].units)
    BY <2>1, UnitInList
  <2>3. run[r].idx + 1 \in DOMAIN run[r].units
    BY <2>2 DEF RunState
  <2>4. /\ checkpoints' = [checkpoints EXCEPT ![JobOf[r]] = @ \cup {Unit(r)}]
        /\ checkpoints \in [JobIds -> SUBSET Units]
    BY <1>1 DEF CommitUnit, PersistCheckpoint, IInv, TypeOK, RawStoreTypeOK
  <2> QED
    BY <2>2, <2>3, <2>4 DEF OwnUnits, Unit
<1>2. ASSUME UNCHANGED checkpoints PROVE OwnUnits'
  BY <1>2 DEF OwnUnits
<1>3. ASSUME NEW r \in Runners, ~CommitUnit(r),
             Start(r) \/ Step(r) \/ ProcessRaises(r) \/ Interrupt(r)
      PROVE  UNCHANGED checkpoints
  BY <1>3 DEF Start, Step, BeginRun, LoadUnits, RejectCheckpoint, ProcessUnit, Progress,
       Finish, RecordFailure, ProcessRaises, Interrupt, StoreLatest, StagePayload,
       SkipUnnamed, StoreArchive, StoreRawArtifact, StageFilingHeaders, rawVars
<1>4. CASE UNCHANGED vars
  BY <1>2, <1>4 DEF vars, rawVars
<1> QED
  BY <1>1, <1>2, <1>3, <1>4 DEF Next

LEMMA OwnUnitsHolds == Spec => []OwnUnits
<1>1. Init => OwnUnits
  BY DEF Init, RawStoreInit, OwnUnits
<1> QED
  BY <1>1, NextOwnUnits, IInvHolds, PTL DEF Spec

LEMMA DividedCovers ==
  ASSUME Divided, FinishedComplete, OwnUnits
  PROVE  PartitionsCover
<1> SUFFICES ASSUME \A j \in JobIds : records[j].state = "finished", NEW u \in Units
             PROVE  \E j \in JobIds :
                      u \in checkpoints[j] /\ \A k \in JobIds \ {j} : u \notin checkpoints[k]
  BY DEF PartitionsCover
<1>1. PICK j \in JobIds : \A k \in JobIds : \A t \in UnitLists[k] :
        (\E i \in DOMAIN t : t[i] = u) <=> k = j
  BY DEF Divided
<1>2. PICK t \in UnitLists[j] : \A i \in DOMAIN t : t[i] \in checkpoints[j]
  BY DEF FinishedComplete
<1>3. u \in checkpoints[j]
  BY <1>1, <1>2
<1>4. \A k \in JobIds \ {j} : u \notin checkpoints[k]
  BY <1>1 DEF OwnUnits
<1> QED
  BY <1>3, <1>4

\* The jobs of a bulk backfill: each has its own index below the number of
\* partitions, every index has a job, and every unit is among the issuers.
Partitioned(issuers, Bucket, count, indexOf) ==
  /\ issuers \in Seq(Units) /\ Bucket \in [Units -> Nat] /\ count \in Nat \ {0}
  /\ \A u \in Units : \E i \in DOMAIN issuers : issuers[i] = u
  /\ \A n \in 0 .. count - 1 : \E j \in JobIds : \A k \in JobIds : indexOf[k] = n <=> k = j
  /\ UnitLists = [j \in JobIds |-> {Partition(issuers, Bucket, count, indexOf[j])}]

Dealt(Bucket, count, index, u) == Bucket[u] % count = index

\* A partition has the issuers whose bucket is its index, and no others.
LEMMA InPartition ==
  ASSUME NEW issuers \in Seq(Units), NEW Bucket, NEW count, NEW index, NEW u
  PROVE  (\E k \in DOMAIN Partition(issuers, Bucket, count, index) :
            Partition(issuers, Bucket, count, index)[k] = u)
           <=> \E i \in DOMAIN issuers : issuers[i] = u /\ Dealt(Bucket, count, index, u)
<1> DEFINE S == {i \in DOMAIN issuers : Bucket[issuers[i]] % count = index}
<1>1. Len(issuers) \in Nat /\ S \in SUBSET (1 .. Len(issuers))
  OBVIOUS
<1>2. Partition(issuers, Bucket, count, index) = AtPositions(issuers, S)
  BY DEF Partition
<1>3. /\ \A i \in S : Bucket[issuers[i]] % count = index /\ i \in DOMAIN issuers
      /\ \A i \in DOMAIN issuers : Bucket[issuers[i]] % count = index => i \in S
  OBVIOUS
<1> HIDE DEF S
<1>4. /\ DOMAIN AtPositions(issuers, S) = 1 .. Cardinality(S)
      /\ \A k \in 1 .. Cardinality(S) :
           Nth(S, k) \in S /\ AtPositions(issuers, S)[k] = issuers[Nth(S, k)]
      /\ \A i \in S : \E k \in 1 .. Cardinality(S) : Nth(S, k) = i
  BY <1>1, Positions
<1> QED
  BY <1>2, <1>3, <1>4 DEF Dealt

LEMMA PartitionsDivide ==
  ASSUME NEW issuers, NEW Bucket, NEW count, NEW indexOf,
         Partitioned(issuers, Bucket, count, indexOf)
  PROVE  Divided
<1> SUFFICES ASSUME NEW u \in Units
             PROVE  \E j \in JobIds : \A k \in JobIds : \A t \in UnitLists[k] :
                      (\E i \in DOMAIN t : t[i] = u) <=> k = j
  BY DEF Divided
<1>1. Bucket[u] \in Nat /\ count \in Nat \ {0}
  BY DEF Partitioned
<1>2. Bucket[u] % count \in 0 .. count - 1
  BY <1>1
<1>3. PICK j \in JobIds : \A k \in JobIds : indexOf[k] = Bucket[u] % count <=> k = j
  BY <1>2 DEF Partitioned
<1>4. ASSUME NEW k \in JobIds, NEW t \in UnitLists[k]
      PROVE  (\E i \in DOMAIN t : t[i] = u) <=> k = j
  <2>1. issuers \in Seq(Units) /\ t = Partition(issuers, Bucket, count, indexOf[k])
    BY <1>4 DEF Partitioned
  <2>2. \E i \in DOMAIN issuers : issuers[i] = u
    BY DEF Partitioned
  <2>3. (\E i \in DOMAIN t : t[i] = u) <=> Dealt(Bucket, count, indexOf[k], u)
    BY <2>1, <2>2, InPartition
  <2>4. Dealt(Bucket, count, indexOf[k], u) <=> indexOf[k] = Bucket[u] % count
    BY DEF Dealt
  <2> QED
    BY <1>3, <2>3, <2>4
<1> QED
  BY <1>4

------------------------------------------------------------------------------
(* The theorems. *)

\* A committed unit is in the store whole, and no filing is staged twice or
\* without its artifact, for any runs that overlap, share payloads, fail or are
\* interrupted between any two store calls.
THEOREM StagingIsSound == Spec => []StagingSound
<1>1. StagingInv => StagingSound
  BY DEF StagingInv, StagingSound
<1> QED
  BY <1>1, StagingHolds, PTL

\* The run of a job that nobody else runs is always at the stored checkpoint; and
\* when the jobs are the partitions of a bulk backfill, whatever its issuers and
\* their hashes, the finished jobs have committed each unit once between them.
THEOREM PartitionsAreSound ==
  ASSUME NEW issuers, NEW Bucket, NEW count, NEW indexOf,
         Partitioned(issuers, Bucket, count, indexOf)
  PROVE  Spec => []PartitionsSound
<1>0. Divided
  BY PartitionsDivide
<1>1. AllResume => ExclusiveRunAtCheckpoint
  BY DEF AllResume, ResumeInv, ExclusiveRunAtCheckpoint
<1>2. IInv /\ OwnUnits => PartitionsCover
  BY <1>0, DividedCovers DEF IInv
<1>3. AllResume /\ IInv /\ OwnUnits => PartitionsSound
  BY <1>1, <1>2 DEF PartitionsSound
<1> QED
  BY <1>3, ResumeHolds, IInvHolds, OwnUnitsHolds, PTL

\* Whatever else runs beside it, a job that one instance runs implements
\* ResumableJob: its checkpoint moves one unit at a time while it runs, failures
\* and interrupts take none of it back, and it stays finished.
THEOREM ExclusiveJobsAreResumable == Spec => ExclusiveJobsResume
<1>1. Init => Promise!JobInit
  BY InitResumes
<1>2. IInv /\ AllResume /\ [Next]_vars => [Promise!JobNext]_(Promise!jobVars)
  BY NextResumes, StepImplements
<1> QED
  BY <1>1, <1>2, IInvHolds, ResumeHolds, PTL
     DEF Spec, ExclusiveJobsResume, Promise!JobSpec
=============================================================================
