----------------------------- MODULE BuildRecords -----------------------------
(***************************************************************************)
(* The image records of docker build (pkg/dind).  All builds export into   *)
(* the one namespace of BuildKit, under a name scoped by their job.  The   *)
(* end of a job deletes its records; a sweep on the disk sweeper's timer   *)
(* deletes what that missed, after it has listed the live jobs and then    *)
(* the records.  A job may start and export between the two listings.      *)
(***************************************************************************)
EXTENDS Integers

CONSTANT RecordJobs   \* jobs that run docker build

VARIABLES
  jobUp,       \* jobs: "new", "up", "down"
  record,      \* a job's records: "none", "fresh" (written during a pass), "young", "old"
  sweepLive,   \* the jobs the pass listed as live
  sweepingRec, \* the pass is between its two listings
  keptLive     \* no live job lost a record so far

recordVars == <<jobUp, record, sweepLive, sweepingRec, keptLive>>

RecordsTypeOK ==
  /\ jobUp \in [RecordJobs -> {"new", "up", "down"}]
  /\ record \in [RecordJobs -> {"none", "fresh", "young", "old"}]
  /\ sweepLive \subseteq RecordJobs /\ sweepingRec \in BOOLEAN
  /\ \A j \in RecordJobs : (record[j] = "fresh" => sweepingRec) /\ (jobUp[j] = "new" => record[j] = "none")

RecordsInit ==
  /\ jobUp = [j \in RecordJobs |-> "new"] /\ record = [j \in RecordJobs |-> "none"]
  /\ sweepLive = {} /\ sweepingRec = FALSE /\ keptLive = TRUE

\* The daemon of a job starts to serve.
StartJob(j) ==
  /\ jobUp[j] = "new" /\ jobUp' = [jobUp EXCEPT ![j] = "up"]
  /\ UNCHANGED <<record, sweepLive, sweepingRec, keptLive>>

\* A build exports its image under scopedBuildRef; the sweep tells a record by
\* that prefix and leaves every other image alone.
Export(j) ==
  /\ jobUp[j] = "up"
  /\ record' = [record EXCEPT ![j] = IF sweepingRec THEN "fresh" ELSE "young"]
  /\ UNCHANGED <<jobUp, sweepLive, sweepingRec, keptLive>>

\* Stop of the job's daemon: its records are deleted, or listing or deleting
\* them fails, or the daemon dies without Stop.
CleanupJobBuildRecords(j) ==
  /\ jobUp[j] = "up" /\ jobUp' = [jobUp EXCEPT ![j] = "down"]
  /\ \E r \in {"none", record[j]} : record' = [record EXCEPT ![j] = r]
  /\ UNCHANGED <<sweepLive, sweepingRec, keptLive>>

\* sweepDeadBuildRecords lists the live jobs first.
sweepDeadBuildRecords ==
  /\ ~sweepingRec /\ sweepingRec' = TRUE
  /\ sweepLive' = {j \in RecordJobs : jobUp[j] = "up"}
  /\ UNCHANGED <<jobUp, record, keptLive>>

\* Records of jobs that are not in the listing, and past the grace.
DeadBuildRecords == {j \in RecordJobs : record[j] = "old" /\ j \notin sweepLive}

PruneDeadBuildRecords ==
  /\ sweepingRec /\ sweepingRec' = FALSE
  /\ record' = [j \in RecordJobs |-> CASE j \in DeadBuildRecords -> "none"
                                     [] record[j] = "fresh" -> "young"
                                     [] OTHER -> record[j]]
  /\ keptLive' = (keptLive /\ \A j \in DeadBuildRecords : jobUp[j] # "up")
  /\ UNCHANGED <<jobUp, sweepLive>>

\* DeadBuildRecordGrace passes.  A pass of the sweep is shorter than that, so
\* what is written during one is not old before it ends.
BuildGrace(j) ==
  /\ record[j] = "young" /\ record' = [record EXCEPT ![j] = "old"]
  /\ UNCHANGED <<jobUp, sweepLive, sweepingRec, keptLive>>

RecordSweep == sweepDeadBuildRecords \/ PruneDeadBuildRecords

RecordsNext ==
  \/ \E j \in RecordJobs : StartJob(j) \/ Export(j) \/ CleanupJobBuildRecords(j) \/ BuildGrace(j)
  \/ RecordSweep

RecordsFairness ==
  WF_recordVars(RecordSweep) /\ \A j \in RecordJobs : WF_recordVars(BuildGrace(j))

RecordsSpec == RecordsInit /\ [][RecordsNext]_recordVars /\ RecordsFairness

-----------------------------------------------------------------------------
\* The sweep never deletes a record of a job that runs, also not of one that
\* started after the sweep listed the live jobs.
LiveRecordKept == keptLive

\* A record a dead job left behind is collected in the end.
DeadRecordGoes == \A j \in RecordJobs : jobUp[j] = "down" ~> record[j] = "none"
=============================================================================
