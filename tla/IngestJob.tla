----------------------------- MODULE IngestJob ------------------------------
(***************************************************************************)
(* BaseIngestionJob.run over the job store, with the process_unit of the   *)
(* backfill jobs over the raw store.  A runner is a thread calling run()   *)
(* on a job instance, as often as it likes; instances may share a job id.  *)
(* Each store call is atomic (it holds that store's lock) and nothing      *)
(* holds a lock across two calls, so runners interleave between them.      *)
(*                                                                         *)
(* A unit is an issuer or a frame.  Processing it stores and stages the    *)
(* latest payload and then each archive that payload lists (only the bulk  *)
(* job lists any), and commits the unit.  Fetches and parses may raise; a  *)
(* BaseException (an interrupt) may end a run anywhere, past every handler.*)
(***************************************************************************)
EXTENDS RawStore, Sequences, Selections

CONSTANTS Runners,
          JobOf,          \* runner -> its job id
          UnitLists,      \* job id -> the lists an instance may be built with
          Latest,         \* unit -> the payloads SEC may answer with
          ArchivesOf,     \* payload -> its archives: a payload each, or NoName
          NoName,         \* an archive entry whose name is blank
          MaxRetryCount   \* bound: no unit fails once the job has failed so often

VARIABLE run              \* runner -> where its run() stands

ASSUME RunnersAssumption ==
  /\ JobOf \in [Runners -> JobIds]
  /\ UnitLists \in [JobIds -> SUBSET Seq(Units)]
  /\ Latest \in [Units -> SUBSET Payloads]
  /\ ArchivesOf \in [Payloads -> Seq(Payloads \cup {NoName})]
  /\ NoName \notin Payloads
  /\ MaxRetryCount \in Nat

\* Instances of one job may be built with more or fewer units, but a position
\* in the list always means the same unit: the checkpoint is a position.
ASSUME ListsAgree ==
  \A j \in JobIds : \A s, t \in UnitLists[j] :
    \A i \in DOMAIN s \cap DOMAIN t : s[i] = t[i]

vars == <<records, rawVars, run>>

Places == {"idle", "starting", "loading", "loop", "stored", "staged",
           "committed", "raised"}

RunState == [pc : Places, units : Seq(Units), idx : Nat,
             todo : Seq(Payloads \cup {NoName})]

\* Between store calls a run knows its units, its index (the units before it
\* are done) and the payloads still to stage, the one in hand first.
At(pc, units, idx, todo) == [pc |-> pc, units |-> units, idx |-> idx, todo |-> todo]

\* A place outside the loop, where it holds nothing.
Outside(pc) == At(pc, <<>>, 0, <<>>)
Idle == Outside("idle")

Unit(r)   == run[r].units[run[r].idx + 1]
IsAt(r, pc) == run[r].pc = pc
Goto(r, next) == run' = [run EXCEPT ![r] = next]

Init == JobStoreInit /\ RawStoreInit /\ run = [r \in Runners |-> Idle]

\* Variant: the buckets are taken modulo one too many.
PartitionOfTooMany(issuers, Bucket, count, index) ==
  AtPositions(issuers, {i \in DOMAIN issuers : Bucket[issuers[i]] % (count + 1) = index})

\* load_units of the bulk job: the issuers whose hash bucket is this partition.
Partition(issuers, Bucket, count, index) ==
  AtPositions(issuers, {i \in DOMAIN issuers : Bucket[issuers[i]] % count = index})

------------------------------------------------------------------------------
(* BaseIngestionJob.run *)

\* create_or_get, and the early return on the record it gave.
Start(r) ==
  /\ IsAt(r, "idle")
  /\ CreateOrGet(JobOf[r])
  /\ Goto(r, IF Created(JobOf[r]).state = "finished" THEN Idle
             ELSE Outside("starting"))
  /\ UNCHANGED rawVars

\* Variant: a run always starts over from the first unit.
BeginRunFromZero(r) ==
  /\ IsAt(r, "starting")
  /\ MarkRunning(JobOf[r])
  /\ Goto(r, At("loading", <<>>, 0, <<>>))
  /\ UNCHANGED rawVars

\* mark_running, under a second acquisition of the lock: the record may have
\* changed since create_or_get, and run() goes by the checkpoint found now.
BeginRun(r) ==
  /\ IsAt(r, "starting")
  /\ MarkRunning(JobOf[r])
  /\ Goto(r, At("loading", <<>>, records[JobOf[r]].checkpoint, <<>>))
  /\ UNCHANGED rawVars

\* Variant: the checkpoint is read as the last unit done, not the next one.
LoadUnitsPastCheckpoint(r) ==
  /\ IsAt(r, "loading")
  /\ \E units \in UnitLists[JobOf[r]] :
       /\ run[r].idx < Len(units)
       /\ Goto(r, At("loop", units, run[r].idx + 1, <<>>))
  /\ UNCHANGED <<records, rawVars>>

LoadUnits(r) ==
  /\ IsAt(r, "loading")
  /\ \E units \in UnitLists[JobOf[r]] :
       /\ run[r].idx <= Len(units)
       /\ Goto(r, At("loop", units, run[r].idx, <<>>))
  /\ UNCHANGED <<records, rawVars>>

\* "checkpoint cannot exceed unit count": raised outside the try block, so the
\* record is left running.
RejectCheckpoint(r) ==
  /\ IsAt(r, "loading")
  /\ \E units \in UnitLists[JobOf[r]] : run[r].idx > Len(units)
  /\ Goto(r, Idle)
  /\ UNCHANGED <<records, rawVars>>

\* Variant: the loop stops one unit short.
MoreUnitsButLast(r) == run[r].idx + 1 < Len(run[r].units)

MoreUnits(r) == run[r].idx < Len(run[r].units)

\* Variant: the loop does not move on after a unit.
ProgressInPlace(r) ==
  /\ IsAt(r, "committed")
  /\ MarkProgress(JobOf[r], run[r].idx + 1)
  /\ Goto(r, At("loop", run[r].units, run[r].idx, <<>>))
  /\ UNCHANGED rawVars

Progress(r) ==
  /\ IsAt(r, "committed")
  /\ MarkProgress(JobOf[r], run[r].idx + 1)
  /\ Goto(r, At("loop", run[r].units, run[r].idx + 1, <<>>))
  /\ UNCHANGED rawVars

Finish(r) ==
  /\ IsAt(r, "loop") /\ ~MoreUnits(r)
  /\ MarkFinished(JobOf[r])
  /\ Goto(r, Idle)
  /\ UNCHANGED rawVars

\* process_unit raised: the failure is recorded, then the exception surfaces.
RecordFailure(r) ==
  /\ IsAt(r, "raised")
  /\ MarkFailed(JobOf[r])
  /\ Goto(r, Idle)
  /\ UNCHANGED rawVars

------------------------------------------------------------------------------
(* process_unit of the backfill jobs *)

\* Fetch the unit's latest payload and store it as a raw artifact.
StoreLatest(r) ==
  /\ IsAt(r, "loop") /\ MoreUnits(r)
  /\ \E p \in Latest[Unit(r)] :
       /\ StoreRawArtifact(Unit(r), p, JobOf[r])
       /\ Goto(r, At("stored", run[r].units, run[r].idx, <<p>> \o ArchivesOf[p]))
  /\ UNCHANGED records

\* Parse the payload in hand and stage its rows.
StagePayload(r) ==
  /\ IsAt(r, "stored")
  /\ StageFilingHeaders(RowsOf(Unit(r), Head(run[r].todo)))
  /\ Goto(r, At("staged", run[r].units, run[r].idx, Tail(run[r].todo)))
  /\ UNCHANGED records

NextArchive(r) == IsAt(r, "staged") /\ run[r].todo # <<>>

SkipUnnamed(r) ==
  /\ NextArchive(r) /\ Head(run[r].todo) = NoName
  /\ Goto(r, At("staged", run[r].units, run[r].idx, Tail(run[r].todo)))
  /\ UNCHANGED <<records, rawVars>>

\* Fetch the next archive and store it.
StoreArchive(r) ==
  /\ NextArchive(r) /\ Head(run[r].todo) # NoName
  /\ StoreRawArtifact(Unit(r), Head(run[r].todo), JobOf[r])
  /\ Goto(r, At("stored", run[r].units, run[r].idx, run[r].todo))
  /\ UNCHANGED records

\* Variant: the unit is committed before its archives are in.
CommitUnitEarly(r) ==
  /\ IsAt(r, "staged")
  /\ PersistCheckpoint(JobOf[r], Unit(r))
  /\ Goto(r, At("committed", run[r].units, run[r].idx, <<>>))
  /\ UNCHANGED records

CommitUnit(r) ==
  /\ IsAt(r, "staged") /\ run[r].todo = <<>>
  /\ PersistCheckpoint(JobOf[r], Unit(r))
  /\ Goto(r, At("committed", run[r].units, run[r].idx, <<>>))
  /\ UNCHANGED records

\* A fetch of a payload, or the parse of the one in hand, raises.
CanRaise(r) ==
  \/ IsAt(r, "loop") /\ MoreUnits(r)
  \/ IsAt(r, "stored")
  \/ NextArchive(r) /\ Head(run[r].todo) # NoName

ProcessRaises(r) ==
  /\ CanRaise(r)
  /\ records[JobOf[r]].retry_count < MaxRetryCount
  /\ Goto(r, Outside("raised"))
  /\ UNCHANGED <<records, rawVars>>

\* A BaseException ends the run: `except Exception` does not see it.
Interrupt(r) ==
  /\ ~IsAt(r, "idle")
  /\ Goto(r, Idle)
  /\ UNCHANGED <<records, rawVars>>

------------------------------------------------------------------------------
ProcessUnit(r) == \/ StoreLatest(r)
                  \/ StagePayload(r)
                  \/ SkipUnnamed(r)
                  \/ StoreArchive(r)
                  \/ CommitUnit(r)

\* What a run does by itself once started.
Step(r) == \/ BeginRun(r)
           \/ LoadUnits(r)
           \/ RejectCheckpoint(r)
           \/ ProcessUnit(r)
           \/ Progress(r)
           \/ Finish(r)
           \/ RecordFailure(r)

Next == \E r \in Runners :
          Start(r) \/ Step(r) \/ ProcessRaises(r) \/ Interrupt(r)

Spec == Init /\ [][Next]_vars

\* A started run keeps going: fetches end (the client's timeout and retry bound
\* see to it) and no lock is held across them.  Nobody has to start a run.
FairSpec == Spec /\ \A r \in Runners : WF_vars(Step(r))

------------------------------------------------------------------------------
(* Properties *)

TypeOK ==
  /\ JobStoreTypeOK
  /\ RawStoreTypeOK
  /\ run \in [Runners -> RunState]

\* Every unit at one of the first n positions of a list of job j is committed.
Reached(j, n) ==
  \A t \in UnitLists[j] : \A i \in DOMAIN t : i <= n => t[i] \in checkpoints[j]

\* The stored checkpoint never runs ahead of the work: every unit at a position
\* below it is committed, whatever runs overlapped, failed or were interrupted.
CheckpointSound == \A j \in JobIds : Reached(j, records[j].checkpoint)

\* A finished job has committed every unit of a list one of its instances was
\* built with.
FinishedComplete ==
  \A j \in JobIds : records[j].state = "finished" =>
    \E t \in UnitLists[j] : \A i \in DOMAIN t : t[i] \in checkpoints[j]

\* A unit is committed whole: for some answer SEC may give, the payload and
\* every named archive of it are stored and all their rows are staged, although
\* earlier attempts may have stopped half way.
CommittedUnitsStaged ==
  \A j \in JobIds : \A u \in checkpoints[j] :
    \E p \in Latest[u] :
      \A q \in {p} \cup {ArchivesOf[p][i] : i \in DOMAIN ArchivesOf[p]} :
        q # NoName =>
          /\ Stored(q)
          /\ \A a \in HeadersIn[q] : <<u, a>> \in header_keys

\* Reprocessing a unit, by a retry or by two runs at once, never stages a filing
\* twice, and every staged row leads back to a stored raw artifact.
StagedRowsSound ==
  \A row \in Row : headers[row] > 0 =>
    /\ headers[row] = 1
    /\ Stored(row.checksum)
    /\ \A other \in Row :
         headers[other] > 0 /\ KeyOf(other) = KeyOf(row) => other = row

\* The two together: what is committed is staged, whole and once.
StagingSound == CommittedUnitsStaged /\ StagedRowsSound

\* A job id that only one instance uses.
Exclusive(j) == \A q, r \in Runners : JobOf[q] = j /\ JobOf[r] = j => q = r

\* A run of such a job is always at its checkpoint: it never processes again a
\* unit the job has counted, nor skips one it has not.
ExclusiveRunAtCheckpoint ==
  \A r \in Runners :
    Exclusive(JobOf[r]) /\ run[r].pc \notin {"idle", "starting", "raised"} =>
      run[r].idx = records[JobOf[r]].checkpoint

\* Jobs that divide the units among them: once every one has finished, each unit
\* has been committed by exactly one.
PartitionsCover ==
  (\A j \in JobIds : records[j].state = "finished") =>
    \A u \in Units : \E j \in JobIds :
      u \in checkpoints[j] /\ \A k \in JobIds \ {j} : u \notin checkpoints[k]

\* Runs that stay at their checkpoint and partitions that do not meet: no instance
\* skips or repeats a unit, its own or another one's.
PartitionsSound == ExclusiveRunAtCheckpoint /\ PartitionsCover

ExclusiveJobs == {j \in JobIds : Exclusive(j)}

Promise == INSTANCE ResumableJob WITH
  Jobs       <- ExclusiveJobs,
  state      <- [j \in ExclusiveJobs |-> records[j].state],
  checkpoint <- [j \in ExclusiveJobs |-> records[j].checkpoint]

\* Jobs that only one instance uses are resumable jobs: progress one unit at a
\* time, kept through failures and interrupts, nothing after the job finished.
ExclusiveJobsResume == Promise!JobSpec

\* Every run ends: in a finished job, a recorded failure, or an exception.
RunsEnd == \A r \in Runners : run[r].pc # "idle" ~> run[r].pc = "idle"

\* base.py's "once finished, reruns are no-op": a finished record never changes.
FinishedIsFinal ==
  [][\A j \in JobIds :
       records[j].state = "finished" => records'[j] = records[j]]_vars
=============================================================================
