------------------------------ MODULE Dispatch ------------------------------
(***************************************************************************)
(* Linux jobs dispatched to a worker in a VM (pkg/scheduler/dispatch.go,   *)
(* handleLinuxJob, drain and destroyAll of scheduler.go, KillJob of        *)
(* grpc.go).  The host's handler and waiter of each runner, the worker's   *)
(* table of environments and its containers, the RPCs between them, which  *)
(* may fail after they took effect, and the stats stream.  A runner here   *)
(* is one attempt: names are never used twice.                             *)
(***************************************************************************)
EXTENDS Naturals, FiniteSets

CONSTANTS Runners,     \* dispatched runners
          MaxRpcFaults \* bound on lost replies and failed or stuck destroys

ASSUME DispatchAssumption == MaxRpcFaults \in Nat

VARIABLES dAt,        \* the handler and waiter of each runner on the host
          dTracked,   \* s.running
          dSlots,     \* runners that hold a slot
          jobCancelled,  \* job contexts that ended: timeout, KillJob, shutdown
          released,   \* runner -> times its claim was released
          envs,       \* the worker's table
          box,        \* runner -> its container on the worker
          samplers,   \* registered samplers of the worker
          known,      \* series the host publishes
          streaming,  \* the stats stream is connected
          shutdown,   \* "serving", "draining", "killing", "stopped"
          victims,    \* what destroyAll took over and has not finished
          completed,  \* runners whose job's completed event was handled
          rpcFaults

dispatchVars == <<dAt, dTracked, dSlots, jobCancelled, released, envs, box, samplers,
                  known, streaming, shutdown, victims, completed, rpcFaults>>
workerVars == <<envs, box, samplers>>
statVars == <<known, streaming>>

DispatchInit ==
    /\ dAt = [r \in Runners |-> "idle"]
    /\ dTracked = {} /\ dSlots = {} /\ jobCancelled = {}
    /\ released = [r \in Runners |-> 0]
    /\ envs = {} /\ box = [r \in Runners |-> "none"] /\ samplers = {}
    /\ known = {} /\ streaming = FALSE
    /\ shutdown = "serving" /\ victims = {} /\ completed = {} /\ rpcFaults = 0

Fault == rpcFaults < MaxRpcFaults /\ rpcFaults' = rpcFaults + 1
HostUp == shutdown # "stopped"
DMoves(r, from, to) == HostUp /\ dAt[r] = from /\ dAt' = [dAt EXCEPT ![r] = to]
Release(r) == released' = [released EXCEPT ![r] = @ + 1]

----------------------------------------------------------------------------
(* The handler claims the job and asks the worker for a container. *)
handleLinuxJob(r) ==
    /\ shutdown = "serving" /\ DMoves(r, "idle", "creating")
    /\ dSlots' = dSlots \cup {r}
    /\ UNCHANGED <<dTracked, jobCancelled, released, workerVars, statVars, shutdown, victims, completed, rpcFaults>>

(* The worker: the runtime makes the container (or fails and undoes it) and   *)
(* the environment is entered; its sampler is registered.                     *)
CreateJob(r) ==
    /\ dAt[r] = "creating" /\ box[r] = "none"
    /\ \/ /\ box' = [box EXCEPT ![r] = "running"]
          /\ envs' = envs \cup {r} /\ samplers' = samplers \cup {r}
       \/ box' = [box EXCEPT ![r] = "failed"] /\ UNCHANGED <<envs, samplers>>
    /\ UNCHANGED <<dAt, dTracked, dSlots, jobCancelled, released, statVars, shutdown, victims, completed, rpcFaults>>

CreateReturns_Untracked(r) ==
    /\ box[r] \in {"running", "exited"} /\ DMoves(r, "creating", "waiting")
    /\ UNCHANGED <<dTracked, dSlots, jobCancelled, released, workerVars, statVars, shutdown, victims, completed, rpcFaults>>

(* Create returned: the runner is filed and its waiter started. *)
CreateReturns(r) ==
    /\ box[r] \in {"running", "exited"} /\ DMoves(r, "creating", "waiting")
    /\ dTracked' = dTracked \cup {r}
    /\ UNCHANGED <<dSlots, jobCancelled, released, workerVars, statVars, shutdown, victims, completed, rpcFaults>>

(* Create failed, or its reply never came: the claim is released, the slot     *)
(* given back, and nothing is asked of the worker.                             *)
CreateFails(r) ==
    /\ DMoves(r, "creating", "done")
    /\ \/ box[r] = "failed" /\ UNCHANGED rpcFaults
       \/ Fault
    /\ Release(r) /\ dSlots' = dSlots \ {r}
    /\ UNCHANGED <<dTracked, jobCancelled, workerVars, statVars, shutdown, victims, completed>>

(* A job's timeout, and the control server's KillJob on a listed job. *)
KillJob(r) ==
    /\ HostUp /\ r \in dTracked \ jobCancelled
    /\ jobCancelled' = jobCancelled \cup {r}
    /\ UNCHANGED <<dAt, dTracked, dSlots, released, workerVars, statVars, shutdown, victims, completed, rpcFaults>>

(* The runner in the container exits. *)
Exits(r) ==
    /\ box[r] = "running" /\ r \in envs
    /\ box' = [box EXCEPT ![r] = "exited"]
    /\ UNCHANGED <<dAt, dTracked, dSlots, jobCancelled, released, envs, samplers, statVars, shutdown, victims, completed, rpcFaults>>

(* Wait returns: the exit, an ended context, an entry that is gone, or a       *)
(* connection that broke.                                                      *)
Wait(r) ==
    /\ DMoves(r, "waiting", "exited")
    /\ \/ (box[r] # "running" \/ r \in jobCancelled \/ r \notin envs) /\ UNCHANGED rpcFaults
       \/ Fault
    /\ UNCHANGED <<dTracked, dSlots, jobCancelled, released, workerVars, statVars, shutdown, victims, completed>>

(* The waiter takes the runner out of the books, when it is still there, and   *)
(* gives the slot back before it destroys anything.                            *)
Untrack(r) ==
    /\ DMoves(r, "exited", IF r \in dTracked THEN "destroying" ELSE "destroyingLate")
    /\ dTracked' = dTracked \ {r} /\ dSlots' = dSlots \ {r}
    /\ UNCHANGED <<jobCancelled, released, workerVars, statVars, shutdown, victims, completed, rpcFaults>>

(* DestroyJob on the worker: the entry goes first, then the container; an      *)
(* unknown id is NotFound.  A destroy that fails leaves the container with no  *)
(* entry.                                                                      *)
DestroyJob(r) ==
    IF r \in envs
    THEN /\ envs' = envs \ {r} /\ samplers' = samplers \ {r}
         /\ \/ box' = [box EXCEPT ![r] = "gone"] /\ UNCHANGED rpcFaults
            \/ UNCHANGED box /\ Fault
    ELSE UNCHANGED <<workerVars, rpcFaults>>

(* The waiter destroys its own runner whoever untracked it, and releases the   *)
(* claim only when it was the one to untrack.                                  *)
WaiterDestroys(r) ==
    /\ \/ DMoves(r, "destroying", "done") /\ Release(r)
       \/ DMoves(r, "destroyingLate", "done") /\ UNCHANGED released
    /\ DestroyJob(r)
    /\ UNCHANGED <<dTracked, dSlots, jobCancelled, statVars, shutdown, victims, completed>>

(* Destroy is called without a deadline: the worker may never answer. *)
DestroyHangs(r) ==
    /\ \/ DMoves(r, "destroying", "hung")
       \/ DMoves(r, "destroyingLate", "hung")
    /\ Fault
    /\ UNCHANGED <<dTracked, dSlots, jobCancelled, released, workerVars, statVars, shutdown, victims, completed>>

(* The platform says the runner's job is over: the runner is untracked and     *)
(* destroyed; it deregistered itself, so no claim is released.                 *)
handleCompleted(r) ==
    /\ HostUp /\ r \in dTracked
    /\ dTracked' = dTracked \ {r} /\ jobCancelled' = jobCancelled \cup {r}
    /\ DestroyJob(r) /\ completed' = completed \cup {r}
    /\ UNCHANGED <<dAt, dSlots, released, statVars, shutdown, victims>>

----------------------------------------------------------------------------
(* Shutdown: no new job, and the books are polled until they are empty. *)
drain ==
    /\ shutdown = "serving" /\ shutdown' = "draining"
    /\ UNCHANGED <<dAt, dTracked, dSlots, jobCancelled, released, workerVars, statVars, victims, completed, rpcFaults>>

Drained ==
    /\ shutdown = "draining" /\ dTracked = {}
    /\ shutdown' = "stopped" /\ jobCancelled' = Runners
    /\ UNCHANGED <<dAt, dTracked, dSlots, released, workerVars, statVars, victims, completed, rpcFaults>>

(* The timeout: destroyAll empties the books and works through what it took.   *)
destroyAll ==
    /\ shutdown = "draining" /\ dTracked # {}
    /\ shutdown' = "killing" /\ victims' = dTracked /\ dTracked' = {}
    /\ UNCHANGED <<dAt, dSlots, jobCancelled, released, workerVars, statVars, completed, rpcFaults>>

DestroyVictim(r) ==
    /\ shutdown = "killing" /\ r \in victims /\ victims' = victims \ {r}
    /\ jobCancelled' = jobCancelled \cup {r}
    /\ DestroyJob(r) /\ Release(r)
    /\ UNCHANGED <<dAt, dTracked, dSlots, statVars, shutdown, completed>>

AllDestroyed ==
    /\ shutdown = "killing" /\ victims = {}
    /\ shutdown' = "stopped" /\ jobCancelled' = Runners
    /\ UNCHANGED <<dAt, dTracked, dSlots, released, workerVars, statVars, victims, completed, rpcFaults>>

----------------------------------------------------------------------------
(* The stats stream connects, and breaks; what it published goes with it. *)
ConsumeContainerStats ==
    /\ HostUp /\ streaming' = ~streaming
    /\ known' = {}
    /\ UNCHANGED <<dAt, dTracked, dSlots, jobCancelled, released, workerVars, shutdown, victims, completed, rpcFaults>>

(* A batch: a series for every container in it, and none for the others. *)
readStatsLoop ==
    /\ HostUp /\ streaming /\ known' = samplers
    /\ UNCHANGED <<dAt, dTracked, dSlots, jobCancelled, released, workerVars, streaming, shutdown, victims, completed, rpcFaults>>

HostStep(r) == CreateReturns(r) \/ CreateFails(r) \/ Wait(r) \/ Untrack(r) \/ WaiterDestroys(r) \/ DestroyHangs(r)
DispatchNext ==
    \/ \E r \in Runners : \/ handleLinuxJob(r) \/ CreateJob(r) \/ KillJob(r) \/ Exits(r)
                          \/ HostStep(r) \/ handleCompleted(r) \/ DestroyVictim(r)
    \/ drain \/ Drained \/ destroyAll \/ AllDestroyed
    \/ ConsumeContainerStats \/ readStatsLoop
DispatchFairness ==
    /\ \A r \in Runners : WF_dispatchVars(HostStep(r)) /\ WF_dispatchVars(CreateJob(r))
    /\ WF_dispatchVars(readStatsLoop)
DispatchSpec == DispatchInit /\ [][DispatchNext]_dispatchVars /\ DispatchFairness

----------------------------------------------------------------------------
DispatchTypeOK ==
    /\ dAt \in [Runners -> {"idle", "creating", "waiting", "exited", "destroying",
                            "destroyingLate", "hung", "done"}]
    /\ box \in [Runners -> {"none", "failed", "running", "exited", "gone"}]
    /\ \A S \in {dTracked, dSlots, jobCancelled, envs, samplers, known, victims, completed} : S \subseteq Runners
    /\ released \in [Runners -> 0 .. 3] /\ rpcFaults \in 0 .. MaxRpcFaults
    /\ streaming \in BOOLEAN /\ shutdown \in {"serving", "draining", "killing", "stopped"}

(* A claim is released once, by whoever took the runner out of the books: the  *)
(* waiter and destroyAll race for it, and a completed event takes it from both. *)
ReleasedOnce == \A r \in Runners : released[r] <= (IF r \in completed THEN 0 ELSE 1)

(* When no call was lost, failed or hung, a runner the host is through with   *)
(* has no container on the worker, and its claim is released unless its job   *)
(* completed.                                                                 *)
NothingForgotten ==
    (rpcFaults = 0 /\ HostUp) => \A r \in Runners : dAt[r] = "done" =>
        /\ box[r] \in {"failed", "gone"}
        /\ released[r] = 1 \/ r \in victims \cup completed

(* The slot of a runner whose wait is over comes back, also when the worker    *)
(* never answers the destroy (handleLinuxJob releases it first).               *)
SlotComesBack == \A r \in Runners : (dAt[r] = "exited") ~> (r \notin dSlots \/ ~HostUp)

(* A series is not published for ever for a container that is gone: a batch    *)
(* without it, or the end of the stream, removes it.                           *)
SeriesFollow ==
    \A r \in Runners : (r \in known /\ r \notin samplers) ~> (r \notin known \/ ~HostUp)
=============================================================================
