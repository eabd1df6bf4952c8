------------------------------ MODULE Scheduler ------------------------------
(***************************************************************************)
(* The life of a CI job on one ephemerd node: pkg/scheduler/scheduler.go.   *)
(*                                                                          *)
(* A queued event starts a dispatch: a goroutine that takes a concurrency   *)
(* slot, re-checks that the job is still wanted, registers a JIT runner     *)
(* with the platform, creates the runner's environment, files it in the     *)
(* bookkeeping maps and then waits for the runner to exit.  Next to it run  *)
(* the handlers of the in_progress and completed events, the orphan sweep,  *)
(* the retry queue's timer and the operator's cordon.  They share the maps  *)
(* pending, seen, started, attempts, running and runners under one mutex,   *)
(* which is RELEASED across every call that talks to the platform or to the *)
(* runtime.  One action below is one such critical section, or one external *)
(* call.                                                                    *)
(*                                                                          *)
(* A member of Dispatches is one dispatch goroutine together with the one   *)
(* runner name it registers.  The platform refuses a name that is in use    *)
(* (409, claimJob draws another); here a name returns to use only once      *)
(* nothing refers to it any more: what an earlier reuse does is left to     *)
(* module Dispatch.                                                         *)
(***************************************************************************)
EXTENDS Integers, FiniteSets

CONSTANTS
  Jobs,          \* job keys (provider, repo, job id)
  Dispatches,    \* dispatch goroutines = runner names
  Paths,         \* provisioning paths in use, a subset of the three below
  Path,          \* the path handleQueued routes each job to
  Class,         \* labelSetKey of each job: its fungibility class
  Capacity,      \* slots per path: cap(sem), cap(linuxSem), cap(macSem)
  MaxAttempts,   \* maxProvisionAttempts
  WebhookMode,   \* events come by webhook (TRUE) or by polling
  OrphanSweep,   \* cfg.OrphanSweep.Enabled
  RetryEnabled,  \* cfg.Retry.Enabled
  Moves,         \* which of EnvironmentMoves the environment may make
  NoJob,
  NoRunner,      \* also: an event that names no runner
  Foreign        \* the name of a runner of some other node

\* What the environment may do to a dispatch; a model-checking run can leave
\* some of it out.
EnvironmentMoves ==
  {"claim fails", "create fails", "slot wait gives up", "job times out",
   "operator cordons", "stamps expire", "runner ages", "runner exits idle",
   "runs elsewhere", "job is cancelled", "poll repeats", "delivery is lost",
   "operator uncordons", "macOS not installed", "macOS pool full", "names are reused"}

ASSUME MovesAssumption == Moves \subseteq EnvironmentMoves
ASSUME JobsFinite == IsFiniteSet(Jobs)
ASSUME DispatchesFinite == IsFiniteSet(Dispatches)
ASSUME PathAssumption ==
  Paths \subseteq {"local", "linux", "macos"} /\ Path \in [Jobs -> Paths]
ASSUME CapacityAssumption == Capacity \in [Paths -> Nat \ {0}]
ASSUME MaxAttemptsAssumption == MaxAttempts \in Nat
ASSUME FlagAssumption ==
  WebhookMode \in BOOLEAN /\ OrphanSweep \in BOOLEAN /\ RetryEnabled \in BOOLEAN
ASSUME NullAssumption ==
  NoJob \notin Jobs /\ NoRunner \notin Dispatches /\ Foreign \notin Dispatches

VARIABLES
  \* ---- the scheduler's maps, guarded by s.mu
  draining,   \* the cordon flag
  pending,    \* jobs waiting on a concurrency slot
  seen,       \* dedup stamp: "none", "fresh" or "stale" (older than seenTTL)
  started,    \* jobs observed in_progress or completed
  attempts,   \* provision attempts, saturated at MaxAttempts + 1
  running,    \* job -> tracked runner, or NoRunner
  runners,    \* names in the runner ledger; job[d] is the intentKey
  boundTo,    \* the job a ledger runner was observed on, or NoJob (unbound)
  age,        \* how long ago a ledger runner was dispatched
  retry,      \* jobs with an outstanding retry
  sem,        \* occupied slots of each pool: len(sem)
  \* ---- dispatch goroutines
  pc, job, token, waited, rj,
  viaRetry,   \* dispatches started by the retry queue
  failure,    \* a dispatch's error: "none", "retryable", "final", "boot" (macOS VM)
  \* ---- goroutines of completed handlers and sweeps
  teardown,   \* runners a handler took over: "no", "completed", "reaped" (sweep)
  noms,       \* sweep nominations in flight: "no", "nominated", "cleared"
  \* ---- runner environments and the platform
  env, exec, registered, cancelled,
  jobState,
  events      \* deliveries and spawned goroutines not yet executed

maps == <<draining, pending, seen, started, attempts, retry>>
ledger == <<running, runners, boundTo, age>>
slots == <<sem, token>>
gor == <<pc, job, waited, rj, viaRetry, failure>>
handlers == <<teardown, noms>>
world == <<env, exec, registered, cancelled, jobState>>
vars == <<maps, ledger, slots, gor, handlers, world, events>>

\* Program points of a dispatch goroutine, in order.
PC == {"free", "slot", "blocked", "unsee", "admit", "ask", "gate", "claim",
       "create", "fail", "failed", "track", "wait", "release",
       "destroy", "strand", "done"}

Names == Dispatches \cup {NoRunner, Foreign}
Events ==
  ({"queued"} \X Jobs \X {NoRunner}) \cup ({"stranded"} \X Jobs \X {NoRunner})
    \cup ({"in_progress"} \X Jobs \X Names) \cup ({"bind"} \X Jobs \X Names)
    \cup ({"completed"} \X Jobs \X Names)

MapsOK ==
  /\ draining \in BOOLEAN
  /\ pending \subseteq Jobs
  /\ seen \in [Jobs -> {"none", "fresh", "stale"}]
  /\ started \subseteq Jobs
  /\ attempts \in [Jobs -> 0..(MaxAttempts + 1)]
  /\ retry \subseteq Jobs

LedgerOK ==
  /\ running \in [Jobs -> Dispatches \cup {NoRunner}]
  /\ runners \subseteq Dispatches
  /\ boundTo \in [Dispatches -> Jobs \cup {NoJob}]
  /\ age \in [Dispatches -> {"young", "grace", "hard"}]

SlotsOK ==
  /\ sem \in [Paths -> Int]
  /\ token \in [Dispatches -> {"none", "held", "released"}]

GoroutinesOK ==
  /\ pc \in [Dispatches -> PC]
  /\ job \in [Dispatches -> Jobs \cup {NoJob}]
  /\ waited \in [Dispatches -> BOOLEAN]
  /\ rj \in [Dispatches -> Dispatches \cup {NoRunner}]
  /\ viaRetry \subseteq Dispatches
  /\ failure \in [Dispatches -> {"none", "retryable", "final", "boot"}]

HandlersOK ==
  /\ teardown \in [Dispatches -> {"no", "completed", "reaped"}]
  /\ noms \in [Dispatches -> {"no", "nominated", "cleared"}]

WorldOK ==
  /\ env \in [Dispatches -> {"none", "alive", "exited", "gone"}]
  /\ exec \in [Dispatches -> Jobs \cup {NoJob}]
  /\ registered \subseteq Dispatches
  /\ cancelled \subseteq Dispatches
  /\ jobState \in [Jobs -> {"queued", "running", "done"}]

TypeOK ==
  /\ MapsOK /\ LedgerOK /\ SlotsOK /\ GoroutinesOK /\ HandlersOK /\ WorldOK
  /\ events \subseteq Events

\* New, and a platform on which every job has just been queued.
Init ==
  /\ draining = FALSE
  /\ pending = {}
  /\ seen = [j \in Jobs |-> "none"]
  /\ started = {}
  /\ attempts = [j \in Jobs |-> 0]
  /\ running = [j \in Jobs |-> NoRunner]
  /\ runners = {}
  /\ boundTo = [d \in Dispatches |-> NoJob]
  /\ age = [d \in Dispatches |-> "young"]
  /\ retry = {}
  /\ sem = [p \in Paths |-> 0]
  /\ pc = [d \in Dispatches |-> "free"]
  /\ job = [d \in Dispatches |-> NoJob]
  /\ token = [d \in Dispatches |-> "none"]
  /\ waited = [d \in Dispatches |-> FALSE]
  /\ rj = [d \in Dispatches |-> NoRunner]
  /\ viaRetry = {}
  /\ failure = [d \in Dispatches |-> "none"]
  /\ teardown = [d \in Dispatches |-> "no"]
  /\ noms = [d \in Dispatches |-> "no"]
  /\ env = [d \in Dispatches |-> "none"]
  /\ exec = [d \in Dispatches |-> NoJob]
  /\ registered = {}
  /\ cancelled = {}
  /\ jobState = [j \in Jobs |-> "queued"]
  /\ events = {<<"queued", j, NoRunner>> : j \in Jobs}

Goto(d, from, to) == pc[d] = from /\ pc' = [pc EXCEPT ![d] = to]

PoolOf(d) == Path[job[d]]

TakeSlot(d) ==
  /\ sem[PoolOf(d)] < Capacity[PoolOf(d)]
  /\ sem' = [sem EXCEPT ![PoolOf(d)] = @ + 1]
  /\ token' = [token EXCEPT ![d] = "held"]

\* Mutant: a release that is not once-only.
ReleaseToken_NotOnce(d) ==
  /\ sem' = [sem EXCEPT ![PoolOf(d)] = @ - 1]
  /\ token' = [token EXCEPT ![d] = "released"]

\* Mutant: the slot of a killed runner is forgotten.
ReleaseToken_NotWhenKilled(d) ==
  IF token[d] = "held" /\ d \notin cancelled
  THEN /\ sem' = [sem EXCEPT ![PoolOf(d)] = @ - 1]
       /\ token' = [token EXCEPT ![d] = "released"]
  ELSE UNCHANGED slots

\* slotToken.release: only the first call drains the semaphore.
ReleaseToken(d) ==
  IF token[d] = "held"
  THEN /\ sem' = [sem EXCEPT ![PoolOf(d)] = @ - 1]
       /\ token' = [token EXCEPT ![d] = "released"]
  ELSE UNCHANGED slots

\* The goroutine returns: its deferred release runs once more, and its locals
\* go.  The job stays: it is the intentKey of the runner's ledger entry.
Return(d, from) ==
  /\ Goto(d, from, "done")
  /\ ReleaseToken(d)
  /\ waited' = [waited EXCEPT ![d] = FALSE]
  /\ rj' = [rj EXCEPT ![d] = NoRunner]
  /\ failure' = [failure EXCEPT ![d] = "none"]
  /\ viaRetry' = viaRetry \ {d}

------------------------------------------------------------------------------
(* Admission *)

\* The locked section of handleQueued, entered with the given pending and seen
\* maps: duplicates are dropped, then the cordon refuses, then the zombie cap,
\* and only then does a dispatch start on the job's path.
Duplicate(j, pend, stamp) == running[j] # NoRunner \/ j \in pend \/ stamp[j] = "fresh"

IgnoreDuplicate(j, pend, stamp) ==
  /\ Duplicate(j, pend, stamp)
  /\ pending' = pend
  /\ seen' = stamp
  /\ UNCHANGED <<attempts, pc, job, viaRetry>>

RefuseCordoned(j, pend, stamp) ==
  /\ ~Duplicate(j, pend, stamp)
  /\ draining
  /\ pending' = pend
  /\ seen' = [stamp EXCEPT ![j] = "fresh"]
  /\ UNCHANGED <<attempts, pc, job, viaRetry>>

SkipZombie(j, pend, stamp) ==
  /\ ~Duplicate(j, pend, stamp)
  /\ ~draining
  /\ attempts[j] >= MaxAttempts
  /\ attempts' = [attempts EXCEPT ![j] = MaxAttempts + 1]
  /\ pending' = pend
  /\ seen' = [stamp EXCEPT ![j] = "fresh"]
  /\ UNCHANGED <<pc, job, viaRetry>>

\* Mutant: no zombie cap.
StartDispatch_NoCap(j, pend, stamp, fromRetry) ==
  /\ ~Duplicate(j, pend, stamp)
  /\ ~draining
  /\ attempts' = [attempts EXCEPT ![j] = @ + 1]
  /\ pending' = pend \cup {j}
  /\ seen' = [stamp EXCEPT ![j] = "fresh"]
  /\ \E d \in Dispatches :
       /\ Goto(d, "free", "slot")
       /\ job' = [job EXCEPT ![d] = j]
       /\ viaRetry' = IF fromRetry THEN viaRetry \cup {d} ELSE viaRetry

StartDispatch(j, pend, stamp, fromRetry) ==
  /\ ~Duplicate(j, pend, stamp)
  /\ ~draining
  /\ attempts[j] < MaxAttempts
  /\ attempts' = [attempts EXCEPT ![j] = @ + 1]
  /\ pending' = pend \cup {j}
  /\ seen' = [stamp EXCEPT ![j] = "fresh"]
  /\ \E d \in Dispatches :
       /\ Goto(d, "free", "slot")
       /\ job' = [job EXCEPT ![d] = j]
       /\ viaRetry' = IF fromRetry THEN viaRetry \cup {d} ELSE viaRetry

\* The macOS base VM is still being installed: the job is left to a later poll.
DeferMacOS(j, pend, stamp) ==
  /\ "macOS not installed" \in Moves
  /\ ~Duplicate(j, pend, stamp)
  /\ ~draining
  /\ attempts[j] < MaxAttempts /\ Path[j] = "macos"
  /\ attempts' = [attempts EXCEPT ![j] = @ + 1]
  /\ pending' = pend \ {j}
  /\ seen' = [stamp EXCEPT ![j] = "none"]
  /\ UNCHANGED <<pc, job, viaRetry>>

handleQueued(j, pend, stamp, fromRetry) ==
  \/ IgnoreDuplicate(j, pend, stamp)
  \/ DeferMacOS(j, pend, stamp)
  \/ RefuseCordoned(j, pend, stamp)
  \/ SkipZombie(j, pend, stamp)
  \/ StartDispatch(j, pend, stamp, fromRetry)

\* A queued event of the webhook, the poll or the reconcile sweep.
DeliverQueued(j) ==
  /\ <<"queued", j, NoRunner>> \in events
  /\ events' = events \ {<<"queued", j, NoRunner>>}
  /\ handleQueued(j, pending, seen, FALSE)
  /\ UNCHANGED <<draining, started, retry, ledger, slots, waited, rj, failure, handlers, world>>

\* retryHandler: a due retry clears the job's dedup stamps and re-enters
\* handleQueued; the queue forgets the item unless this attempt fails again.
RetryFires(j) ==
  /\ j \in retry
  /\ retry' = retry \ {j}
  /\ handleQueued(j, pending \ {j}, [seen EXCEPT ![j] = "none"], TRUE)
  /\ UNCHANGED <<draining, started, ledger, slots, waited, rj, failure, handlers, world, events>>

\* jobStillWanted: the platform's answer; an error or a provider that cannot
\* answer counts as wanted.  A "gone" answer is recorded in started.
Gone(j) == jobState[j] # "queued"

\* The goroutine reprovisionIfStranded spawns: ask the platform, then requeue.
StrandedGone(j) ==
  /\ <<"stranded", j, NoRunner>> \in events
  /\ Gone(j)
  /\ events' = events \ {<<"stranded", j, NoRunner>>}
  /\ started' = started \cup {j}
  /\ UNCHANGED <<draining, pending, seen, attempts, retry, ledger, slots, gor, handlers, world>>

StrandedRequeue(j) ==
  /\ <<"stranded", j, NoRunner>> \in events
  /\ events' = events \ {<<"stranded", j, NoRunner>>}
  /\ handleQueued(j, pending, seen, FALSE)
  /\ UNCHANGED <<draining, started, retry, ledger, slots, waited, rj, failure, handlers, world>>

------------------------------------------------------------------------------
(* Slots *)

\* The dedup stamps a failed provision clears.
Unstamp(j) == pending' = pending \ {j} /\ seen' = [seen EXCEPT ![j] = "none"]

\* acquireSlot, fast path: a free slot is taken without waiting.
AcquireSlot(d) ==
  /\ Goto(d, "slot", "admit")
  /\ TakeSlot(d)
  /\ UNCHANGED <<maps, ledger, job, waited, rj, viaRetry, failure, handlers, world, events>>

SlotBusy(d) ==
  /\ Goto(d, "slot", "blocked")
  /\ sem[PoolOf(d)] = Capacity[PoolOf(d)]
  /\ UNCHANGED <<maps, ledger, slots, job, waited, rj, viaRetry, failure, handlers, world, events>>

AcquireAfterWait(d) ==
  /\ Goto(d, "blocked", "admit")
  /\ TakeSlot(d)
  /\ waited' = [waited EXCEPT ![d] = TRUE]
  /\ UNCHANGED <<maps, ledger, job, rj, viaRetry, failure, handlers, world, events>>

\* Mutant: only the seen stamp is cleared, as after a macOS deferral.
SlotGiveUp_KeepsPending(d) ==
  /\ "slot wait gives up" \in Moves
  /\ Return(d, "blocked")
  /\ seen' = [seen EXCEPT ![job[d]] = "none"]
  /\ UNCHANGED <<draining, pending, started, attempts, retry, ledger, job, handlers, world,
                 events>>

\* maxSlotWait elapsed: no slot, and the caller unsees the job.
SlotGiveUp(d) ==
  /\ "slot wait gives up" \in Moves
  /\ Return(d, "blocked")
  /\ Unstamp(job[d])
  /\ UNCHANGED <<draining, started, attempts, retry, ledger, job, handlers, world,
                 events>>

\* refuseCordoned, before the slot or right after admission: the macOS pool has
\* abandoned too many VMs (module MacPool).  Only the pending stamp is cleared.
RefusePool(d) ==
  /\ "macOS pool full" \in Moves
  /\ Return(d, "slot") \/ Return(d, "gate")
  /\ PoolOf(d) = "macos"
  /\ pending' = pending \ {job[d]}
  /\ UNCHANGED <<draining, seen, started, attempts, retry, ledger, job, handlers, world,
                 events>>

------------------------------------------------------------------------------
(* Provisioning *)

\* Mutant: pending, which has no TTL, is not cleared.
admitDispatch_KeepsPending(d) ==
  /\ pc[d] = "admit"
  /\ IF draining \/ (WebhookMode /\ job[d] \in started)
     THEN Return(d, "admit")
     ELSE /\ Goto(d, "admit", IF waited[d] THEN "ask" ELSE "gate")
          /\ UNCHANGED <<slots, waited, rj, failure, viaRetry>>
  /\ UNCHANGED <<maps, ledger, job, handlers, world, events>>

\* admitDispatch: pending is always cleared; the verdict re-reads the cordon
\* and the satisfied mark.  A dispatch that waited still has to ask the
\* platform, outside the lock.
admitDispatch(d) ==
  /\ pc[d] = "admit"
  /\ pending' = pending \ {job[d]}
  /\ IF draining \/ (WebhookMode /\ job[d] \in started)
     THEN Return(d, "admit")
     ELSE /\ Goto(d, "admit", IF waited[d] THEN "ask" ELSE "gate")
          /\ UNCHANGED <<slots, waited, rj, failure, viaRetry>>
  /\ UNCHANGED <<draining, seen, started, attempts, retry, ledger, job, handlers, world,
                 events>>

AskGone(d) ==
  /\ Return(d, "ask")
  /\ Gone(job[d])
  /\ started' = started \cup {job[d]}
  /\ UNCHANGED <<draining, pending, seen, attempts, retry, ledger, job, handlers, world,
                 events>>

AskWanted(d) ==
  /\ Goto(d, "ask", "gate")
  /\ UNCHANGED <<maps, ledger, slots, job, waited, rj, viaRetry, failure, handlers, world, events>>

\* The ways a provision fails: the error's class decides about a retry.
Fail(d, from, class) ==
  /\ Goto(d, from, "unsee")
  /\ failure' = [failure EXCEPT ![d] = class]

\* claimJob reads the cordon once, before its calls to the platform.
ClaimGate(d) ==
  /\ \/ ~draining /\ Goto(d, "gate", "claim") /\ UNCHANGED failure
     \/ draining /\ Fail(d, "gate", "final")          \* errCordoned
  /\ UNCHANGED <<maps, ledger, slots, job, waited, rj, viaRetry, handlers, world, events>>

ClaimOk(d) ==
  /\ Goto(d, "claim", "create")
  /\ registered' = registered \cup {d}
  /\ UNCHANGED <<maps, ledger, slots, job, waited, rj, viaRetry, failure, handlers, env,
                 exec, cancelled, jobState, events>>

ClaimFail(d) ==
  /\ "claim fails" \in Moves
  /\ \E class \in {"retryable", "final"} : Fail(d, "claim", class)
  /\ UNCHANGED <<maps, ledger, slots, job, waited, rj, viaRetry, handlers, world, events>>

\* Runtime.Create, LinuxDispatcher.Create, or a macOS VM boot: from here on the
\* runner is up and the platform may hand it a job.
CreateOk(d) ==
  /\ Goto(d, "create", "track")
  /\ env' = [env EXCEPT ![d] = "alive"]
  /\ UNCHANGED <<maps, ledger, slots, job, waited, rj, viaRetry, failure, handlers, exec,
                 registered, cancelled, jobState, events>>

\* A failed create deregisters the ghost runner (of newMacOSVM, on the macOS
\* path, which never retries).
CreateFail(d) ==
  /\ "create fails" \in Moves
  /\ pc[d] = "create"
  /\ \E class \in {"retryable", "final"} :
       /\ PoolOf(d) = "macos" => class = "final"
       /\ Fail(d, "create", class)
  /\ registered' = registered \ {d}
  /\ UNCHANGED <<maps, ledger, slots, job, waited, rj, viaRetry, handlers, env, exec,
                 cancelled, jobState, events>>

\* A macOS VM that exists but fails to start, or whose runner does not become
\* reachable in time: the VM may be up, and is stopped only after the release.
BootFail(d) ==
  /\ "create fails" \in Moves
  /\ Fail(d, "create", "boot")
  /\ PoolOf(d) = "macos"
  /\ env' = [env EXCEPT ![d] = "alive"]
  /\ UNCHANGED <<maps, ledger, slots, job, waited, rj, viaRetry, handlers, exec,
                 registered, cancelled, jobState, events>>

Unsee(d) ==
  /\ Goto(d, "unsee", "fail")
  /\ Unstamp(job[d])
  /\ UNCHANGED <<draining, started, attempts, retry, ledger, slots, job, waited, rj,
                 viaRetry, failure, handlers, world, events>>

FailRelease(d) ==
  /\ Goto(d, "fail", "failed")
  /\ ReleaseToken(d)
  /\ UNCHANGED <<maps, ledger, job, waited, rj, viaRetry, failure, handlers, world, events>>

\* enqueueRetryIfEligible: a cordoned node takes no new retry, except that a
\* failing retry attempt hands its error back to the queue, which keeps it.
enqueueRetryIfEligible(d) ==
  /\ Return(d, "failed")
  /\ failure[d] # "boot"
  /\ retry' = IF /\ RetryEnabled /\ failure[d] = "retryable"
                 /\ ~draining \/ d \in viaRetry
              THEN retry \cup {job[d]} ELSE retry
  /\ UNCHANGED <<draining, pending, seen, started, attempts, ledger, job, handlers, world,
                 events>>

trackRunning(d) ==
  /\ Goto(d, "track", "wait")
  /\ running' = [running EXCEPT ![job[d]] = d]
  /\ runners' = runners \cup {d}
  /\ UNCHANGED <<maps, boundTo, age, slots, job, waited, rj, viaRetry, failure, handlers, world, events>>

------------------------------------------------------------------------------
(* The wait goroutine *)

\* The ledger without the names in R.
Unfile(R) ==
  /\ runners' = runners \ R
  /\ boundTo' = [d \in Dispatches |-> IF d \in R THEN NoJob ELSE boundTo[d]]
  /\ age' = [d \in Dispatches |-> IF d \in R THEN "young" ELSE age[d]]

\* untrackRunningLocked, for runner r filed under job j.
Untrack(j, r) ==
  /\ running' = [running EXCEPT ![j] = NoRunner]
  /\ Unfile({r})

\* Mutant: the job's context has no deadline.
JobTimeout_Never(d) == FALSE /\ UNCHANGED vars

\* jobCtx runs out of JobTimeout.
JobTimeout(d) ==
  /\ "job times out" \in Moves
  /\ pc[d] = "wait"
  /\ cancelled' = cancelled \cup {d}
  /\ UNCHANGED <<maps, ledger, slots, gor, handlers, env, exec, registered, jobState, events>>

\* Mutant: an early return when the runner was killed skips the untracking.
WaitReturns_KilledStaysTracked(d) ==
  /\ Goto(d, "wait", "release")
  /\ d \in cancelled \/ env[d] \in {"exited", "gone"}
  /\ rj' = [rj EXCEPT ![d] = running[job[d]]]
  /\ IF running[job[d]] # NoRunner /\ d \notin cancelled
     THEN Untrack(job[d], running[job[d]])
     ELSE UNCHANGED ledger
  /\ UNCHANGED <<maps, slots, job, waited, viaRetry, failure, handlers, world, events>>

\* Wait returns; whatever runner is filed under the job's key is untracked and
\* remembered for the teardown.
WaitReturns(d) ==
  /\ Goto(d, "wait", "release")
  /\ d \in cancelled \/ env[d] \in {"exited", "gone"}
  /\ rj' = [rj EXCEPT ![d] = running[job[d]]]
  /\ IF running[job[d]] # NoRunner
     THEN Untrack(job[d], running[job[d]])
     ELSE UNCHANGED ledger
  /\ UNCHANGED <<maps, slots, job, waited, viaRetry, failure, handlers, world, events>>

\* The slot goes back before anything that can block.
ReleaseSlot(d) ==
  /\ Goto(d, "release", "destroy")
  /\ ReleaseToken(d)
  /\ UNCHANGED <<maps, ledger, job, waited, rj, viaRetry, failure, handlers, world, events>>

\* Destroying environments V; a job executing on one of them dies with it and
\* the platform reports it completed.
Killed(V) == {exec[v] : v \in V} \ {NoJob}
Destroyed(V) ==
  /\ env' = [d \in Dispatches |-> IF d \in V THEN "gone" ELSE env[d]]
  /\ exec' = [d \in Dispatches |-> IF d \in V THEN NoJob ELSE exec[d]]
  /\ jobState' = [j \in Jobs |-> IF j \in Killed(V) THEN "done" ELSE jobState[j]]
  /\ events' = events \cup {<<"completed", exec[v], v>> : v \in {u \in V : exec[u] # NoJob}}

\* handleMacOSJob, a failed boot: the VM is stopped and the runner deregistered.
StopBooted(d) ==
  /\ failure[d] = "boot"
  /\ Return(d, "failed")
  /\ Destroyed({d})
  /\ registered' = registered \ {d}
  /\ UNCHANGED <<maps, ledger, job, handlers, cancelled>>

\* Mutant: the Linux path destroys only what it untracked, like the local path.
Victims_IfUntracked(d) ==
  IF PoolOf(d) = "macos" THEN {rj[d]} \ {NoRunner}
  ELSE IF rj[d] # NoRunner THEN {d} ELSE {}

\* Whose environment the wait goroutine destroys: the local path its own, if it
\* untracked something; the Linux path its own, always; the macOS path the VM
\* of the runner it untracked.
Victims(d) ==
  CASE PoolOf(d) = "linux" -> {d}
    [] PoolOf(d) = "local" -> IF rj[d] # NoRunner THEN {d} ELSE {}
    [] PoolOf(d) = "macos" -> {rj[d]} \ {NoRunner}

\* Destroy, then ReleaseJob of the untracked runner's claim (refused by the
\* platform while that runner executes a job).
WaitTeardown(d) ==
  /\ Goto(d, "destroy", "strand")
  /\ Destroyed(Victims(d))
  /\ registered' = registered \ {r \in {rj[d]} : r # NoRunner /\ exec'[r] = NoJob}
  /\ UNCHANGED <<maps, ledger, slots, job, waited, rj, viaRetry, failure, handlers, cancelled>>

\* Mutant: the dedup stamp stays, so the re-dispatch is a duplicate.
reprovisionIfStranded_KeepsSeen(d) ==
  LET j == job[d]
      stranded == /\ WebhookMode /\ ~draining
                  /\ j \notin started /\ j \notin pending
                  /\ running[j] = NoRunner
                  /\ attempts[j] <= MaxAttempts
  IN /\ Return(d, "strand")
     /\ events' = IF stranded THEN events \cup {<<"stranded", j, NoRunner>>} ELSE events
     /\ UNCHANGED <<draining, pending, seen, started, attempts, retry, ledger, job, handlers,
                    world>>

\* reprovisionIfStranded: the job of an exited runner that was never observed
\* to start is dispatched again.
reprovisionIfStranded(d) ==
  LET j == job[d]
      stranded == /\ WebhookMode /\ ~draining
                  /\ j \notin started /\ j \notin pending
                  /\ running[j] = NoRunner
                  /\ attempts[j] <= MaxAttempts
  IN /\ Return(d, "strand")
     /\ seen' = IF stranded THEN [seen EXCEPT ![j] = "none"] ELSE seen
     /\ events' = IF stranded THEN events \cup {<<"stranded", j, NoRunner>>} ELSE events
     /\ UNCHANGED <<draining, pending, started, attempts, retry, ledger, job, handlers,
                    world>>

\* A finished identity returns to the pool of names once nothing refers to it.
Recycle(d) ==
  /\ "names are reused" \in Moves
  /\ Goto(d, "done", "free")
  /\ env[d] \in {"none", "gone"} /\ exec[d] = NoJob
  /\ d \notin runners /\ teardown[d] = "no" /\ noms[d] = "no"
  /\ \A e \in events : e[3] # d
  /\ \A c \in Dispatches : rj[c] # d
  /\ job' = [job EXCEPT ![d] = NoJob]
  /\ token' = [token EXCEPT ![d] = "none"]
  /\ env' = [env EXCEPT ![d] = "none"]
  /\ registered' = registered \ {d}
  /\ cancelled' = cancelled \ {d}
  /\ UNCHANGED <<maps, ledger, sem, waited, rj, viaRetry, failure, handlers, exec,
                 jobState, events>>

------------------------------------------------------------------------------
(* Events *)

Satisfied(j) == started' = started \cup {j} /\ retry' = retry \ {j}

\* handleInProgress: the job started somewhere ...
handleInProgress(j, name) ==
  /\ <<"in_progress", j, name>> \in events
  /\ events' = (events \ {<<"in_progress", j, name>>}) \cup {<<"bind", j, name>>}
  /\ Satisfied(j)
  /\ UNCHANGED <<draining, pending, seen, attempts, ledger, slots, gor, handlers, world>>

\* ... and, under the lock once more, a runner of ours is bound to it.
BindRunner(j, name) ==
  /\ <<"bind", j, name>> \in events
  /\ events' = events \ {<<"bind", j, name>>}
  /\ boundTo' = IF name \in runners THEN [boundTo EXCEPT ![name] = j] ELSE boundTo
  /\ UNCHANGED <<maps, running, runners, age, slots, gor, handlers, world>>

\* Mutant: teardown follows the dispatch intent, not the observed assignment.
CompletedRunner_ByIntent(j, name) == {running[j]} \ {NoRunner}

\* The runner a completed event tears down: the one it names, if that is still
\* filed under its intent; without a name, the one filed under the job, unless
\* it was observed on another job.
CompletedRunner(j, name) ==
  IF name # NoRunner
  THEN {r \in {name} \cap runners : running[job[r]] = r}
  ELSE {r \in {running[j]} \ {NoRunner} : boundTo[r] \in {NoJob, j}}

\* handleCompleted, locked part: the runner is untracked and handed to the
\* teardown that follows; a stale ledger record is dropped.
handleCompleted(j, name) ==
  /\ <<"completed", j, name>> \in events
  /\ events' = events \ {<<"completed", j, name>>}
  /\ Satisfied(j)
  /\ LET R == CompletedRunner(j, name)
     IN /\ running' = [k \in Jobs |-> IF running[k] \in R THEN NoRunner ELSE running[k]]
        /\ Unfile(R \cup {name})
        /\ teardown' = [r \in Dispatches |-> IF r \in R THEN "completed" ELSE teardown[r]]
  /\ UNCHANGED <<draining, pending, seen, attempts, slots, gor, noms, world>>

\* The unlocked part of handleCompleted and of the sweep: cancel, then destroy;
\* only the sweep deregisters the runner.
TeardownCancel(d) ==
  /\ teardown[d] # "no" /\ d \notin cancelled
  /\ cancelled' = cancelled \cup {d}
  /\ UNCHANGED <<maps, ledger, slots, gor, handlers, env, exec, registered, jobState, events>>

\* Mutant: only a container is destroyed; the VM is left to the wait goroutine.
TeardownDestroy_KeepsVM(d) ==
  /\ teardown[d] # "no" /\ d \in cancelled
  /\ teardown' = [teardown EXCEPT ![d] = "no"]
  /\ Destroyed(IF PoolOf(d) = "macos" THEN {} ELSE {d})
  /\ registered' = IF teardown[d] = "reaped" THEN registered \ {d} ELSE registered
  /\ UNCHANGED <<maps, ledger, slots, gor, noms, cancelled>>

TeardownDestroy(d) ==
  /\ teardown[d] # "no" /\ d \in cancelled
  /\ teardown' = [teardown EXCEPT ![d] = "no"]
  /\ Destroyed({d})
  /\ registered' = IF teardown[d] = "reaped" THEN registered \ {d} ELSE registered
  /\ UNCHANGED <<maps, ledger, slots, gor, noms, cancelled>>

------------------------------------------------------------------------------
(* The orphan sweep *)

Unbound == {d \in runners : boundTo[d] = NoJob}
PastGrace == {d \in Unbound : age[d] # "young"}
Spares == {d \in Unbound \ PastGrace : job[d] \in started}
Served == {job[d] : d \in runners}
Demand == {j \in Jobs : /\ seen[j] # "none" /\ j \notin started
                        /\ j \notin Served /\ attempts[j] <= MaxAttempts}

Smaller(m, n) == IF m < n THEN m ELSE n

\* Spares kept for the queued jobs of their class, one per job.
Allocation(keep) ==
  \A c \in {Class[j] : j \in Jobs} :
    Cardinality({d \in keep : Class[job[d]] = c}) =
      Smaller(Cardinality({d \in Spares : Class[job[d]] = c}),
              Cardinality({j \in Demand : Class[j] = c}))

\* sweepOrphanRunners, locked part: the two rules nominate.  The cleanup tick
\* runs it after cleanSeen, and every handleCompleted when it returns.
Nominate ==
  /\ OrphanSweep /\ WebhookMode
  /\ \E keep \in SUBSET Spares :
       /\ Allocation(keep)
       /\ LET proposed == PastGrace \cup (Spares \ keep)
          IN /\ noms' = [d \in Dispatches |->
                           IF d \in proposed /\ running[job[d]] = d
                           THEN "nominated" ELSE noms[d]]
             /\ Unfile({d \in proposed : running[job[d]] = NoRunner})
  /\ UNCHANGED <<maps, running, slots, gor, teardown, world, events>>

\* decideReap: idle clears; busy vetoes until the hard bound; unknown vetoes
\* until the grace window is over.
decideReap(verdict, a) ==
  CASE verdict = "idle" -> TRUE
    [] verdict = "busy" -> a = "hard"
    [] verdict = "unknown" -> a \in {"grace", "hard"}

Probe(d) == {"unknown", IF exec[d] = NoJob THEN "idle" ELSE "busy"}

\* vetoBusyNominations, the probe: taken without the lock.
BusyCheck(d) ==
  /\ noms[d] = "nominated"
  /\ \E verdict \in Probe(d) :
       noms' = [noms EXCEPT ![d] = IF decideReap(verdict, age[d]) THEN "cleared" ELSE "no"]
  /\ UNCHANGED <<maps, ledger, slots, gor, teardown, world, events>>

\* reapRunnerLocked: a runner bound or cleaned up since is left alone.
Reap(d) ==
  /\ noms[d] = "cleared"
  /\ noms' = [noms EXCEPT ![d] = "no"]
  /\ IF d \in Unbound /\ running[job[d]] = d
     THEN /\ Untrack(job[d], d)
          /\ teardown' = [teardown EXCEPT ![d] = "reaped"]
     ELSE /\ Unfile({r \in {d} \cap Unbound : running[job[r]] = NoRunner})
          /\ UNCHANGED <<running, teardown>>
  /\ UNCHANGED <<maps, slots, gor, world, events>>

------------------------------------------------------------------------------
(* The operator and the clock *)

Cordon ==
  /\ "operator cordons" \in Moves
  /\ draining' = TRUE
  /\ UNCHANGED <<pending, seen, started, attempts, retry, ledger, slots, gor, handlers,
                 world, events>>

Uncordon ==
  /\ "operator uncordons" \in Moves
  /\ draining' = FALSE
  /\ UNCHANGED <<pending, seen, started, attempts, retry, ledger, slots, gor, handlers,
                 world, events>>

\* A seen stamp passes seenTTL.
SeenExpires(j) ==
  /\ "stamps expire" \in Moves
  /\ seen[j] = "fresh"
  /\ seen' = [seen EXCEPT ![j] = "stale"]
  /\ UNCHANGED <<draining, pending, started, attempts, retry, ledger, slots, gor,
                 handlers, world, events>>

\* A runner in the ledger passes the grace window, then the hard bound.
AgeRunner(d) ==
  /\ "runner ages" \in Moves
  /\ d \in Unbound /\ age[d] # "hard"
  /\ age' = [age EXCEPT ![d] = IF @ = "young" THEN "grace" ELSE "hard"]
  /\ UNCHANGED <<maps, running, runners, boundTo, slots, gor, handlers, world, events>>

\* cleanSeen: expired stamps go; a job this node no longer holds gets its
\* attempt counter back.  Which satisfied marks are past their TTL is left open.
cleanSeen ==
  /\ "stamps expire" \in Moves
  /\ \E old \in SUBSET started : started' = started \ old
  /\ seen' = [j \in Jobs |-> IF seen[j] = "stale" THEN "none" ELSE seen[j]]
  /\ attempts' = [j \in Jobs |->
                    IF seen[j] = "stale" /\ j \notin pending /\ running[j] = NoRunner
                    THEN 0 ELSE attempts[j]]
  /\ UNCHANGED <<draining, pending, retry, ledger, slots, gor, handlers, world, events>>

------------------------------------------------------------------------------
(* The platform and the runners (external) *)

Report(e) == events' = events \cup {e}

\* The platform hands a registered, idle runner ANY queued job of its class.
Assign(d, j) ==
  /\ d \in registered /\ env[d] = "alive" /\ exec[d] = NoJob
  /\ jobState[j] = "queued" /\ Class[j] = Class[job[d]]
  /\ exec' = [exec EXCEPT ![d] = j]
  /\ jobState' = [jobState EXCEPT ![j] = "running"]
  /\ Report(<<"in_progress", j, d>>)
  /\ UNCHANGED <<maps, ledger, slots, gor, handlers, env, registered, cancelled>>

\* The job ends; a JIT runner deregisters and takes no other.
Finish(d) ==
  /\ env[d] = "alive" /\ exec[d] # NoJob
  /\ exec' = [exec EXCEPT ![d] = NoJob]
  /\ jobState' = [jobState EXCEPT ![exec[d]] = "done"]
  /\ registered' = registered \ {d}
  /\ Report(<<"completed", exec[d], d>>)
  /\ UNCHANGED <<maps, ledger, slots, gor, handlers, env, cancelled>>

\* The runner process ends: after its job, or on its own before any.
RunnerExits(d) ==
  /\ env[d] = "alive" /\ exec[d] = NoJob
  /\ d \notin registered \/ "runner exits idle" \in Moves
  /\ env' = [env EXCEPT ![d] = "exited"]
  /\ UNCHANGED <<maps, ledger, slots, gor, handlers, exec, registered, cancelled, jobState,
                 events>>

\* Another node's runner takes the job, or somebody cancels it.
RunElsewhere(j) ==
  /\ "runs elsewhere" \in Moves
  /\ jobState[j] = "queued"
  /\ jobState' = [jobState EXCEPT ![j] = "running"]
  /\ Report(<<"in_progress", j, Foreign>>)
  /\ UNCHANGED <<maps, ledger, slots, gor, handlers, env, exec, registered, cancelled>>

FinishElsewhere(j) ==
  /\ jobState[j] = "running" /\ \A d \in Dispatches : exec[d] # j
  /\ jobState' = [jobState EXCEPT ![j] = "done"]
  /\ Report(<<"completed", j, Foreign>>)
  /\ UNCHANGED <<maps, ledger, slots, gor, handlers, env, exec, registered, cancelled>>

CancelQueued(j) ==
  /\ "job is cancelled" \in Moves
  /\ jobState[j] = "queued"
  /\ jobState' = [jobState EXCEPT ![j] = "done"]
  /\ Report(<<"completed", j, NoRunner>>)
  /\ UNCHANGED <<maps, ledger, slots, gor, handlers, env, exec, registered, cancelled>>

\* A poll or reconcile pass lists a queued job again.
Poll(j) ==
  /\ "poll repeats" \in Moves
  /\ jobState[j] = "queued" /\ <<"queued", j, NoRunner>> \notin events
  /\ Report(<<"queued", j, NoRunner>>)
  /\ UNCHANGED <<maps, ledger, slots, gor, handlers, world>>

\* A webhook delivery is lost.
Lose(e) ==
  /\ "delivery is lost" \in Moves
  /\ e \in events /\ e[1] \notin {"stranded", "bind"}
  /\ events' = events \ {e}
  /\ UNCHANGED <<maps, ledger, slots, gor, handlers, world>>

------------------------------------------------------------------------------

DispatchStep(d) ==
  \/ AcquireSlot(d) \/ SlotBusy(d) \/ AcquireAfterWait(d) \/ SlotGiveUp(d) \/ RefusePool(d)
  \/ admitDispatch(d) \/ AskGone(d) \/ AskWanted(d)
  \/ ClaimGate(d) \/ ClaimOk(d) \/ ClaimFail(d) \/ CreateOk(d) \/ CreateFail(d) \/ BootFail(d)
  \/ Unsee(d) \/ FailRelease(d) \/ enqueueRetryIfEligible(d) \/ StopBooted(d)
  \/ trackRunning(d)
  \/ JobTimeout(d) \/ WaitReturns(d) \/ ReleaseSlot(d) \/ WaitTeardown(d)
  \/ reprovisionIfStranded(d) \/ Recycle(d)

HandlerStep ==
  \/ \E j \in Jobs : \/ DeliverQueued(j) \/ RetryFires(j)
                     \/ StrandedGone(j) \/ StrandedRequeue(j)
                     \/ \E name \in Names : \/ handleInProgress(j, name) \/ BindRunner(j, name)
                                          \/ handleCompleted(j, name)
  \/ \E d \in Dispatches : TeardownCancel(d) \/ TeardownDestroy(d) \/ BusyCheck(d) \/ Reap(d)
  \/ Nominate

ClockStep ==
  \/ cleanSeen
  \/ \E j \in Jobs : SeenExpires(j)
  \/ \E d \in Dispatches : AgeRunner(d)

PlatformStep ==
  \/ \E d \in Dispatches : Finish(d) \/ RunnerExits(d) \/ \E j \in Jobs : Assign(d, j)
  \/ \E j \in Jobs : RunElsewhere(j) \/ FinishElsewhere(j) \/ CancelQueued(j) \/ Poll(j)
  \/ \E e \in events : Lose(e)

Next ==
  \/ \E d \in Dispatches : DispatchStep(d)
  \/ HandlerStep \/ ClockStep \/ PlatformStep
  \/ Cordon \/ Uncordon

Spec == Init /\ [][Next]_vars

\* Every dispatch goroutine keeps running: Go schedules it, the slot wait has a
\* give-up timer and the wait for the runner ends with JobTimeout.
Fairness == \A d \in Dispatches : WF_vars(DispatchStep(d))

FairSpec == Spec /\ Fairness

\* The platform keeps offering queued jobs to idle runners, polls and deliveries
\* do not fail forever, and the clock runs.
RecoveryFairness ==
  /\ Fairness
  /\ WF_vars(cleanSeen)
  /\ \A j \in Jobs :
       /\ WF_vars(Poll(j)) /\ SF_vars(DeliverQueued(j)) /\ WF_vars(SeenExpires(j))
       /\ WF_vars(StrandedGone(j) \/ StrandedRequeue(j)) /\ WF_vars(RetryFires(j))
       /\ SF_vars(\E d \in Dispatches : Assign(d, j))
  /\ \A d \in Dispatches : WF_vars(Finish(d)) /\ WF_vars(d \notin registered /\ RunnerExits(d))

RecoverySpec == Spec /\ RecoveryFairness

------------------------------------------------------------------------------
(* Properties *)

\* The dispatches that hold a slot of pool p.
Holders(p) == {d \in Dispatches : token[d] = "held" /\ PoolOf(d) = p}

\* A semaphore's length is the number of dispatches that hold one of its slots,
\* and never exceeds its capacity: no path releases twice or forgets to
\* (slots.go, issue #196).
SlotAccounting ==
  \A p \in Paths :
    /\ sem[p] = Cardinality(Holders(p))
    /\ sem[p] <= Capacity[p]

\* Whatever runner is filed under a job was put there by a dispatch of that job
\* which is still waiting on it, still holds its slot and is still in the
\* ledger: so tracked jobs never outnumber slots, whoever untracked what.
TrackedHoldsSlot ==
  \A j \in Jobs : running[j] # NoRunner =>
    LET d == running[j]
    IN pc[d] = "wait" /\ job[d] = j /\ token[d] = "held" /\ d \in runners

\* Once a dispatch has returned and no teardown is under way for its runner, the
\* runner's environment is gone: "Always clean up" (scheduler.go, the wait
\* goroutines), whoever untracked the runner first.
NothingLeftBehind ==
  \A d \in Dispatches :
    (/\ pc[d] = "done" /\ teardown[d] = "no"
     /\ \A c \in Dispatches : pc[c] \in {"release", "destroy"} => rj[c] # d)
      => env[d] \in {"none", "gone"}

\* A runner observed executing a job is never handed to a teardown by another
\* job's completed event or by the sweep.
BoundRunnerSpared ==
  [][\A d \in Dispatches :
       (/\ env[d] = "alive" /\ exec[d] # NoJob
        /\ d \in runners /\ boundTo[d] = exec[d])
         => (teardown'[d] # "no" => teardown[d] # "no")]_vars

\* A job that is marked pending has a dispatch that will clear the mark: pending
\* has no TTL and a pending job is a duplicate, so a mark that every dispatch of
\* the job had passed by would shut the job out of this node for good
\* (scheduler.go, admitDispatch and unsee; dedup_test.go).
Admitting(d) == pc[d] \in {"slot", "blocked", "admit"}

PendingHasDispatch == \A j \in pending : \E d \in Dispatches : job[d] = j /\ Admitting(d)

\* A slot that is held comes back (issue #196: one held for 28 hours).
SlotComesBack == \A d \in Dispatches : token[d] = "held" ~> token[d] # "held"

\* A node that stays cordoned runs dry, the jobs parked on a slot included:
\* `ephemerd drain --wait` terminates (issue #154).
CordonQuiesces ==
  draining ~> (~draining \/ \A d \in Dispatches : pc[d] \in {"free", "done"})

\* A queued job is not stranded: on a node that is not cordoned it gets to run
\* somewhere, is cancelled, or exhausts its provision attempts - also when its
\* runner was handed a sibling's job, its events were lost or its provisioning
\* failed.
NotStranded ==
  \A j \in Jobs :
    jobState[j] = "queued" ~> (jobState[j] # "queued" \/ attempts[j] > MaxAttempts \/ draining)

------------------------------------------------------------------------------
(* What comments of the code say and the code does not guarantee *)

\* A runner that is gone for good does not linger on the platform's list
\* (scheduler.go, handleLinuxJob: "so it doesn't linger as offline on GitHub").
NoGhostRunner ==
  \A d \in Dispatches :
    (pc[d] = "done" /\ teardown[d] = "no" /\ env[d] = "gone") => d \notin registered

\* claimJob is a hard backstop: "Nothing can register a JIT runner on a cordoned
\* node" (scheduler.go, Cordon).
NothingRegistersCordoned ==
  [][draining /\ draining' => registered' \subseteq registered]_vars
==============================================================================
