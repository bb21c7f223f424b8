---------------------------- MODULE ResumableJob ----------------------------
(***************************************************************************)
(* What an ingestion job promises its operator when one instance of it     *)
(* runs at a time: progress is a counter that moves one unit forward at a  *)
(* time while the job runs, a failed or interrupted run loses none of it,  *)
(* and a finished job never changes again.                                 *)
(***************************************************************************)
EXTENDS Naturals

CONSTANT Jobs

VARIABLES state, checkpoint         \* both indexed by job

jobVars == <<state, checkpoint>>

JobInit == /\ state      = [j \in Jobs |-> "none"]
           /\ checkpoint = [j \in Jobs |-> 0]

Move(j, from, to) == /\ state[j] \in from
                     /\ state' = [state EXCEPT ![j] = to]
                     /\ UNCHANGED checkpoint

Submit(j) == Move(j, {"none"}, "pending")

\* A first run, a retry, or the run that follows an interrupted one.
Run(j) == Move(j, {"pending", "running", "failed"}, "running")

Advance(j) == /\ state[j] = "running"
              /\ checkpoint' = [checkpoint EXCEPT ![j] = @ + 1]
              /\ UNCHANGED state

Fail(j) == Move(j, {"running"}, "failed")

Complete(j) == Move(j, {"running"}, "finished")

JobNext == \E j \in Jobs :
             Submit(j) \/ Run(j) \/ Advance(j) \/ Fail(j) \/ Complete(j)

JobSpec == JobInit /\ [][JobNext]_jobVars
=============================================================================
