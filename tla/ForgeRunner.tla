----------------------------- MODULE ForgeRunner -----------------------------
(***************************************************************************)
(* The runner for Forgejo and Gitea (pkg/forgerunner over the RPCs of      *)
(* pkg/forgerpc): it registers, polls until the forge hands it a task,     *)
(* runs the steps of that one task, reports their results and sends the    *)
(* log in batches from the index the forge has acknowledged.  A call may   *)
(* fail before it takes effect or lose its reply after; once the runner's  *)
(* context is cancelled every further call fails.                          *)
(***************************************************************************)
EXTENDS Naturals, Sequences

CONSTANTS
  Steps,          \* the steps of a job
  MaxForgeTasks,  \* a bound on tasks queued at the forge
  MaxForgeErrs    \* a bound on calls that fail

ASSUME ForgeAssumption == Steps \in Nat \ {0} /\ {MaxForgeTasks, MaxForgeErrs} \subseteq Nat

VARIABLES
  frAt,          \* where Runner.Run is
  frVersion,     \* tasksVersion, as the runner knows it
  forgeVersion,  \* as the forge does: it changes with every task queued
  forgeQueue,    \* tasks that wait for a runner
  handed,        \* tasks the forge has assigned to this runner
  frStep,        \* the step of the task it runs
  stepResults,   \* stepStates
  jobResult,
  frCancelled,   \* ctx
  rows,          \* LogReporter.rows; a row is named by its place in the job's log
  total,         \* LogReporter.total
  ackIndex,
  forgeLog,      \* the rows the forge has
  forgeResult,   \* what the forge was told of the task
  frErrs

frTask == <<frVersion, handed, frStep, stepResults, jobResult>>
frLog == <<rows, total, ackIndex>>
atForge == <<forgeVersion, forgeQueue, forgeLog, forgeResult>>
frVars == <<frAt, frTask, frLog, atForge, frCancelled, frErrs>>

AllSteps == 1..Steps
StepResults == {"unspecified", "success", "failure", "skipped"}

ForgeTypeOK ==
  /\ frAt \in {"register", "declare", "poll", "backoff", "start", "step", "flush", "report", "close", "done"}
  /\ frVersion \in 0..MaxForgeTasks /\ forgeVersion \in 0..MaxForgeTasks
  /\ forgeQueue \in 0..MaxForgeTasks /\ handed \in 0..MaxForgeTasks
  /\ frStep \in 1..(Steps + 1) /\ stepResults \in [AllSteps -> StepResults]
  /\ jobResult \in {"success", "failure", "cancelled"} /\ frCancelled \in BOOLEAN
  /\ rows \in Seq(Nat) /\ total \in 0..(3 * Steps) /\ ackIndex \in 0..(3 * Steps) /\ forgeLog \in Seq(Nat)
  /\ forgeResult \in {"none", "running", "success", "failure"} /\ frErrs \in 0..MaxForgeErrs

(* New: a runner that knows no task yet. *)
ForgeInit ==
  /\ frAt = "register" /\ frVersion = 0 /\ forgeVersion = 0 /\ forgeQueue = 0 /\ handed = 0
  /\ frStep = 1 /\ stepResults = [s \in AllSteps |-> "unspecified"] /\ jobResult = "success"
  /\ frCancelled = FALSE /\ rows = <<>> /\ total = 0 /\ ackIndex = 0
  /\ forgeLog = <<>> /\ forgeResult = "none" /\ frErrs = 0

FrTo(from, to) == frAt = from /\ frAt' = to

(* call: the reply arrives; or the call is refused, times out or breaks,   *)
(* before or after the forge acted on it.                                  *)
Replies == ~frCancelled /\ UNCHANGED frErrs
Breaks == ~frCancelled /\ frErrs < MaxForgeErrs /\ frErrs' = frErrs + 1
NotSent == frCancelled /\ UNCHANGED frErrs

(* Register, or the runner ends. *)
RegisterRunner ==
  /\ \/ FrTo("register", "declare") /\ Replies
     \/ FrTo("register", "done") /\ (Breaks \/ NotSent)
  /\ UNCHANGED <<frTask, frLog, atForge, frCancelled>>

(* Declare: a failure is only logged. *)
Declare ==
  /\ FrTo("declare", "poll") /\ (Replies \/ Breaks \/ NotSent)
  /\ UNCHANGED <<frTask, frLog, atForge, frCancelled>>

(* The forge: a task for a runner that does not know its version yet. *)
HandsTask == forgeVersion # frVersion /\ forgeQueue > 0
Assigned == forgeQueue' = forgeQueue - 1 /\ handed' = handed + 1

(* FetchTask, answered. *)
FetchTask ==
  /\ Replies /\ frVersion' = forgeVersion
  /\ \/ HandsTask /\ FrTo("poll", "start") /\ Assigned
     \/ ~HandsTask /\ frAt = "poll" /\ UNCHANGED <<frAt, forgeQueue, handed>>
  /\ UNCHANGED <<forgeVersion, frStep, stepResults, jobResult, frLog, forgeLog, forgeResult, frCancelled>>

(* It fails: the version stays as it was, but a task may have been assigned. *)
FetchTaskFails ==
  /\ FrTo("poll", "backoff") /\ Breaks
  /\ (HandsTask /\ Assigned) \/ UNCHANGED <<forgeQueue, handed>>
  /\ UNCHANGED <<frVersion, forgeVersion, frStep, stepResults, jobResult, frLog, forgeLog, forgeResult, frCancelled>>

(* poll: the next round after the wait, or the end of a cancelled runner. *)
poll ==
  /\ \/ FrTo("backoff", "poll") /\ ~frCancelled
     \/ frAt \in {"poll", "backoff"} /\ frCancelled /\ frAt' = "done"
  /\ UNCHANGED <<frTask, frLog, atForge, frCancelled, frErrs>>

(* Executor.Run: a payload it cannot read ends the runner without a word;  *)
(* otherwise the start is reported, and a failure of that is only logged.  *)
TaskStarts ==
  /\ \/ FrTo("start", "done") /\ UNCHANGED <<forgeResult, frErrs>>
     \/ FrTo("start", "step") /\ (Replies \/ Breaks) /\ forgeResult' = "running"
     \/ FrTo("start", "step") /\ (Breaks \/ NotSent) /\ UNCHANGED forgeResult
  /\ UNCHANGED <<frTask, frLog, forgeVersion, forgeQueue, forgeLog, frCancelled>>

AddLine(n) == rows' = rows \o [i \in 1..n |-> total + i] /\ total' = total + n

(* What a step leaves in the log: its group, and its output or its error. *)
StepRows == 2..3

(* RunScript: the script ends, or fails to start or to exit with 0 (as it  *)
(* does when the context kills it).                                        *)
RunScript(r) ==
  /\ \/ r = "success" /\ ~frCancelled /\ UNCHANGED jobResult
     \/ r = "failure" /\ jobResult' = "failure"
  /\ stepResults' = [stepResults EXCEPT ![frStep] = r]

(* A step: not begun once the context is over; skipped when it is an       *)
(* action; or run between the rows of its group.                           *)
RunStep ==
  /\ frStep \in AllSteps
  /\ \/ /\ frCancelled /\ FrTo("step", "report") /\ jobResult' = "cancelled"
        /\ UNCHANGED <<frStep, stepResults, rows, total>>
     \/ /\ ~frCancelled /\ FrTo("step", "step") /\ AddLine(1) /\ frStep' = frStep + 1
        /\ stepResults' = [stepResults EXCEPT ![frStep] = "skipped"] /\ UNCHANGED jobResult
     \/ /\ FrTo("step", "flush") /\ UNCHANGED frStep
        /\ \E r \in {"success", "failure"} : RunScript(r) /\ \E n \in StepRows : AddLine(n)
  /\ UNCHANGED <<frVersion, handed, ackIndex, atForge, frCancelled, frErrs>>

StepsOver ==
  /\ FrTo("step", "report") /\ frStep > Steps
  /\ UNCHANGED <<frTask, frLog, atForge, frCancelled, frErrs>>

AfterFlush ==
  IF jobResult = "failure" THEN frAt' = "report" /\ UNCHANGED frStep
                           ELSE frAt' = "step" /\ frStep' = frStep + 1

(* The forge: rows from an index it has reached, without those it has. *)
ForgeTakes ==
  IF ackIndex > Len(forgeLog) THEN forgeLog
  ELSE forgeLog \o SubSeq(rows, Len(forgeLog) - ackIndex + 1, Len(rows))

UpdateLog == forgeLog' = ForgeTakes

(* Flush after each step: the rows leave the buffer, and come back to its  *)
(* front when the call fails.                                              *)
Flush ==
  /\ frAt = "flush" /\ AfterFlush
  /\ \/ Replies /\ UpdateLog /\ ackIndex' = Len(forgeLog') /\ rows' = <<>>
     \/ Breaks /\ (UpdateLog \/ UNCHANGED forgeLog) /\ UNCHANGED <<ackIndex, rows>>
     \/ NotSent /\ UNCHANGED <<forgeLog, ackIndex, rows>>
  /\ UNCHANGED <<frVersion, handed, stepResults, jobResult, total, forgeVersion, forgeQueue, forgeResult, frCancelled>>

(* The result is reported once, and a failure is only logged. *)
UpdateTask ==
  /\ FrTo("report", "close")
  /\ \/ (Replies \/ Breaks) /\ forgeResult' = jobResult
     \/ (Breaks \/ NotSent) /\ UNCHANGED forgeResult
  /\ UNCHANGED <<frTask, frLog, forgeVersion, forgeQueue, forgeLog, frCancelled>>

(* Close sends what is left with noMore; rows it cannot send are gone. *)
CloseLog ==
  /\ FrTo("close", "done") /\ rows' = <<>>
  /\ \/ (Replies \/ Breaks) /\ UpdateLog
     \/ (Breaks \/ NotSent) /\ UNCHANGED forgeLog
  /\ UNCHANGED <<frTask, total, ackIndex, forgeVersion, forgeQueue, forgeResult, frCancelled>>

QueueTask ==
  /\ forgeVersion < MaxForgeTasks /\ forgeVersion' = forgeVersion + 1 /\ forgeQueue' = forgeQueue + 1
  /\ UNCHANGED <<frAt, frTask, frLog, forgeLog, forgeResult, frCancelled, frErrs>>

(* The job's container is told to stop. *)
CancelRunner ==
  /\ ~frCancelled /\ frAt # "done" /\ frCancelled' = TRUE
  /\ UNCHANGED <<frAt, frTask, frLog, atForge, frErrs>>

ForgeStep ==
  \/ RegisterRunner \/ Declare \/ FetchTask \/ FetchTaskFails \/ poll \/ TaskStarts
  \/ RunStep \/ StepsOver \/ Flush \/ UpdateTask \/ CloseLog

ForgeNext == ForgeStep \/ QueueTask \/ CancelRunner

(* The runner's one goroutine runs on; a script ends by itself. *)
ForgeFairness == WF_frVars(ForgeStep)
ForgeSpec == ForgeInit /\ [][ForgeNext]_frVars /\ ForgeFairness

-----------------------------------------------------------------------------
(* The forge's log is the job's log up to some row, with no row lost,      *)
(* doubled or out of place, whatever replies were lost on the way; what it *)
(* has not acknowledged is still buffered until the log is closed.         *)
LogExact ==
  /\ \A i \in 1..Len(forgeLog) : forgeLog[i] = i
  /\ Len(forgeLog) \in ackIndex..total
  /\ frAt \notin {"close", "done"} => ackIndex + Len(rows) = total

(* The forge is told of a success only when no step failed or was left     *)
(* out, and of a failure only when one failed and none was run after it;   *)
(* a runner that was cancelled before its report leaves the task running.  *)
ResultTrue ==
  /\ forgeResult = "success" => \A s \in AllSteps : stepResults[s] \in {"success", "skipped"}
  /\ forgeResult = "failure" =>
       \E s \in AllSteps : stepResults[s] = "failure" /\ \A t \in s + 1..Steps : stepResults[t] = "unspecified"

(* A task that waits is fetched by a runner that lives, also when a reply  *)
(* was lost: the version it passes is not ahead of the tasks it has seen.  *)
TaskFetched == (forgeQueue > 0 /\ frAt # "done") ~> (handed > 0 \/ frAt = "done")

(* A runner that was given a task, or was told to stop, ends. *)
RunnerEnds == (frAt = "start" \/ frCancelled) ~> (frAt = "done")
=============================================================================
