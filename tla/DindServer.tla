------------------------------ MODULE DindServer ------------------------------
(***************************************************************************)
(* The fake Docker daemon of one job (pkg/dind): the handlers that create, *)
(* start, stop, wait for, exec in and remove the job's sibling containers, *)
(* each a goroutine of its own that holds Server.mu only for single looks  *)
(* at its maps, and Stop, which ends them all.                             *)
(*                                                                         *)
(* A container stands for its snapshot and its files under dockerDir; one  *)
(* start, one remove and one exec of a container are in flight at a time   *)
(* (a second start finds a task and fails, changing nothing).              *)
(***************************************************************************)
EXTENDS Integers, FiniteSets

CONSTANTS
  Cids,        \* container ids, fresh at each create
  MaxDFails    \* a bound on containerd and network calls that fail

ASSUME DindAssumption == MaxDFails \in Nat

VARIABLES
  dindStopAt,      \* where Stop is
  listed,      \* s.containers
  taken,       \* destroyAllContainers: its snapshot, still to clean up
  creator,     \* where handleContainerCreate is
  starter,     \* where handleContainerStart is
  cleaner,     \* where cleanupContainer is, for a remove or for Stop
  status,      \* entry.Status
  etask,       \* entries with entry.Task set
  enet,        \* entries with entry.NetNS set
  pinned,      \* entries, or creates, whose bind pins are open
  ctrs,        \* containers in the job's containerd namespace
  ctask,       \* their tasks
  endpoints,   \* containers attached to the network
  forwards,    \* containers whose port forwards listen
  watched,     \* containers with a goroutine that waits for the task's exit
  clients,     \* requests that wait for a container: <<kind, container>>
  execs,       \* s.execs: containers with an exec entry
  execAt,      \* where the hijacked exec's handler is
  excused,     \* history: containers whose Start a Remove overtook
  strays,      \* history: containers whose Teardown failed
  dfails       \* failed calls so far

entries == <<listed, taken, status, etask, enet, pinned>>
ctrd2 == <<ctrs, ctask>>
wires == <<endpoints, forwards, strays>>
execVars == <<execs, execAt>>
dindVars == <<dindStopAt, entries, creator, starter, cleaner, ctrd2, wires, watched, clients,
              execVars, excused, dfails>>

\* Each point is named after the step that comes next.
StopPoints == {"serving", "shutdown", "execs", "take", "destroy", "sweep", "port", "leftover", "done"}
CreatePoints == {"idle", "binds", "spec", "register", "over"}
StartPoints == {"idle", "task", "net", "ports", "run", "mark"}
CleanPoints == {"idle", "ports", "task", "net", "container", "unlist"}
Waits == {"wait", "logs", "exec"}

DindTypeOK ==
  /\ dindStopAt \in StopPoints
  /\ listed \cup taken \cup etask \cup enet \cup pinned \cup ctrs \subseteq Cids
  /\ creator \in [Cids -> CreatePoints] /\ starter \in [Cids -> StartPoints]
  /\ cleaner \in [Cids -> CleanPoints]
  /\ status \in [Cids -> {"created", "running", "exited"}]
  /\ ctask \in [Cids -> {"none", "created", "running", "stopped"}]
  /\ \A c \in Cids : ctask[c] # "none" => c \in ctrs
  /\ endpoints \cup forwards \cup watched \cup execs \cup excused \cup strays \subseteq Cids
  /\ clients \subseteq Waits \X Cids
  /\ execAt \in [Cids -> {"idle", "stdin", "running"}]
  /\ dfails \in 0..MaxDFails

DindInit ==
  /\ dindStopAt = "serving" /\ listed = {} /\ taken = {} /\ etask = {} /\ enet = {} /\ pinned = {}
  /\ creator = [c \in Cids |-> "idle"] /\ starter = [c \in Cids |-> "idle"]
  /\ cleaner = [c \in Cids |-> "idle"] /\ status = [c \in Cids |-> "created"]
  /\ ctrs = {} /\ ctask = [c \in Cids |-> "none"] /\ endpoints = {} /\ forwards = {}
  /\ watched = {} /\ clients = {} /\ execs = {} /\ execAt = [c \in Cids |-> "idle"]
  /\ excused = {} /\ strays = {} /\ dfails = 0

At(pc, c, from, to) == pc[c] = from /\ pc' = [pc EXCEPT ![c] = to]
TaskTo(c, t) == ctask' = [ctask EXCEPT ![c] = t]
Fails == dfails < MaxDFails /\ dfails' = dfails + 1
Serving(c) == dindStopAt = "serving" /\ c \in listed

-----------------------------------------------------------------------------
\* handleContainerCreate, behind its gates: the image is there or is pulled.
handleContainerCreate(c) ==
  /\ dindStopAt = "serving"
  /\ At(creator, c, "idle", "binds")
  /\ UNCHANGED <<dindStopAt, entries, starter, cleaner, ctrd2, wires, watched, clients, execVars, excused, dfails>>

\* buildBindMounts pins and stages every source.
buildBindMounts(c) ==
  /\ At(creator, c, "binds", "spec")
  /\ pinned' = pinned \cup {c}
  /\ UNCHANGED <<dindStopAt, listed, taken, status, etask, enet, starter, cleaner, ctrd2, wires, watched,
                 clients, execVars, excused, dfails>>

\* A bind is rejected, a file cannot be written, or NewContainer fails: the
\* deferred function closes the pins nobody adopted.
CreateExit(c) ==
  /\ \E from \in {"binds", "spec"} : At(creator, c, from, "over")
  /\ pinned' = pinned \ {c}
  /\ UNCHANGED <<dindStopAt, listed, taken, status, etask, enet, starter, cleaner, ctrd2, wires, watched,
                 clients, execVars, excused, dfails>>

NewSibling(c) ==
  /\ At(creator, c, "spec", "register")
  /\ ctrs' = ctrs \cup {c}
  /\ UNCHANGED <<dindStopAt, entries, starter, cleaner, ctask, wires, watched, clients, execVars, excused, dfails>>

\* The entry goes into the map, and owns the pins from here on.
Register(c) ==
  /\ At(creator, c, "register", "over")
  /\ listed' = listed \cup {c}
  /\ UNCHANGED <<dindStopAt, taken, status, etask, enet, pinned, starter, cleaner, ctrd2, wires, watched,
                 clients, execVars, excused, dfails>>

-----------------------------------------------------------------------------
\* handleContainerStart.  A Remove of the same container may be anywhere.
handleContainerStart(c) ==
  /\ Serving(c) /\ status[c] # "running"
  /\ At(starter, c, "idle", "task")
  /\ excused' = IF cleaner[c] = "idle" THEN excused ELSE excused \cup {c}
  /\ UNCHANGED <<dindStopAt, entries, creator, cleaner, ctrd2, wires, watched, clients, execVars, dfails>>

\* NewTask: it fails for a container that is gone, or that has a task, running
\* or not.
StartNewTask(c) ==
  /\ IF c \in ctrs /\ ctask[c] = "none"
     THEN At(starter, c, "task", "net") /\ TaskTo(c, "created") /\ etask' = etask \cup {c}
     ELSE At(starter, c, "task", "idle") /\ UNCHANGED <<ctask, etask>>
  /\ UNCHANGED <<dindStopAt, listed, taken, status, enet, pinned, creator, cleaner, ctrs, wires, watched,
                 clients, execVars, excused, dfails>>

\* Network.Setup in the task's namespace, and JoinJobNetwork.
StartNetwork(c) ==
  /\ At(starter, c, "net", "ports")
  /\ ctask[c] = "created"
  /\ endpoints' = endpoints \cup {c} /\ enet' = enet \cup {c}
  /\ UNCHANGED <<dindStopAt, listed, taken, status, etask, pinned, creator, cleaner, ctrd2, forwards, strays, watched,
                 clients, execVars, excused, dfails>>

\* What undoes a start runs under the request's own context and is not tried
\* again: a call that fails, or that comes after the client has hung up, is
\* logged, and the handles are forgotten all the same.
Undoes(c, lost) ==
  /\ IF lost = {} /\ ctask[c] # "created" THEN UNCHANGED dfails ELSE Fails
  /\ etask' = etask \ {c}
  /\ strays' = IF "net" \in lost THEN strays \cup {c} ELSE strays

\* Setup fails, and releases what it got: the task goes, the container stays created.
StartNetworkFails(c) ==
  /\ At(starter, c, "net", "idle")
  /\ \E lost \in SUBSET {"task", "net"} :
       /\ Undoes(c, lost)
       /\ IF "task" \in lost THEN UNCHANGED ctask ELSE TaskTo(c, "none")
       /\ endpoints' = IF "net" \in lost THEN endpoints \cup {c} ELSE endpoints
  /\ UNCHANGED <<dindStopAt, listed, taken, status, enet, pinned, creator, cleaner, ctrs, forwards, watched,
                 clients, execVars, excused>>

\* Port forwards of an earlier start go, those of this one listen.
installPortForwards(c) ==
  /\ At(starter, c, "ports", "run")
  /\ forwards' = forwards \cup {c}
  /\ UNCHANGED <<dindStopAt, entries, creator, cleaner, ctrd2, endpoints, strays, watched, clients, execVars, excused,
                 dfails>>

\* abortStart: a port is taken, or the task does not start.
abortStart(c) ==
  /\ \E from \in {"ports", "run"}, lost \in SUBSET {"task", "net"} :
       /\ At(starter, c, from, "idle") /\ Undoes(c, lost)
       /\ IF "task" \in lost THEN UNCHANGED ctask ELSE TaskTo(c, "none")
       /\ endpoints' = IF "net" \in lost THEN endpoints ELSE endpoints \ {c}
  /\ forwards' = forwards \ {c} /\ enet' = enet \ {c}
  /\ UNCHANGED <<dindStopAt, listed, taken, status, pinned, creator, cleaner, ctrs, watched, clients,
                 execVars, excused>>

\* The client hangs up while the task starts: it runs, the call fails, and
\* nothing of the undo gets through.
StartUnheard(c) ==
  /\ At(starter, c, "run", "idle") /\ ctask[c] = "created" /\ TaskTo(c, "running")
  /\ Undoes(c, {"task", "net"})
  /\ forwards' = forwards \ {c} /\ enet' = enet \ {c}
  /\ UNCHANGED <<dindStopAt, listed, taken, status, pinned, creator, cleaner, ctrs, endpoints, watched, clients,
                 execVars, excused>>

TaskStart(c) ==
  /\ At(starter, c, "run", "mark")
  /\ ctask[c] = "created" /\ TaskTo(c, "running")
  /\ UNCHANGED <<dindStopAt, entries, creator, cleaner, ctrs, wires, watched, clients, execVars, excused, dfails>>

\* The status is written after the start, when the task may be over already;
\* then a goroutine waits for the exit, unless task.Wait fails.
MarkRunning(c) ==
  /\ At(starter, c, "mark", "idle")
  /\ status' = [status EXCEPT ![c] = "running"]
  /\ \/ watched' = watched \cup {c} /\ UNCHANGED dfails
     \/ Fails /\ UNCHANGED watched
  /\ UNCHANGED <<dindStopAt, listed, taken, etask, enet, pinned, creator, cleaner, ctrd2, wires, clients,
                 execVars, excused>>

\* The sibling's process ends by itself.
SiblingExits(c) ==
  /\ ctask[c] = "running" /\ TaskTo(c, "stopped")
  /\ UNCHANGED <<dindStopAt, entries, creator, starter, cleaner, ctrs, wires, watched, clients, execVars,
                 excused, dfails>>

ExitSeen(c) ==
  /\ c \in watched /\ ctask[c] \notin {"created", "running"}
  /\ watched' = watched \ {c}
  /\ status' = [status EXCEPT ![c] = "exited"]
  /\ UNCHANGED <<dindStopAt, listed, taken, etask, enet, pinned, creator, starter, cleaner, ctrd2, wires,
                 clients, execVars, excused, dfails>>

\* handleContainerStop: the status is exited even when no signal got through.
handleContainerStop(c) ==
  /\ Serving(c) /\ c \in etask /\ status[c] = "running"
  /\ \/ ctask[c] # "running" /\ UNCHANGED <<ctask, dfails>>
     \/ ctask[c] = "running" /\ TaskTo(c, "stopped") /\ UNCHANGED dfails
     \/ ctask[c] = "running" /\ Fails /\ UNCHANGED ctask
  /\ status' = [status EXCEPT ![c] = "exited"]
  /\ UNCHANGED <<dindStopAt, listed, taken, etask, enet, pinned, creator, starter, cleaner, ctrs, wires,
                 watched, clients, execVars, excused>>

-----------------------------------------------------------------------------
\* Requests that wait.  handleContainerWait and handleContainerLogs with follow.
handleContainerWait(c) ==
  /\ Serving(c) /\ c \in etask /\ status[c] # "exited"
  /\ \E kind \in {"wait", "logs"} : <<kind, c>> \notin clients /\ clients' = clients \cup {<<kind, c>>}
  /\ UNCHANGED <<dindStopAt, entries, creator, starter, cleaner, ctrd2, wires, watched, execVars, excused, dfails>>

WaitReturns(c) ==
  /\ <<"wait", c>> \in clients /\ ctask[c] \notin {"created", "running"}
  /\ clients' = clients \ {<<"wait", c>>}
  /\ status' = [status EXCEPT ![c] = "exited"]
  /\ UNCHANGED <<dindStopAt, listed, taken, etask, enet, pinned, creator, starter, cleaner, ctrd2, wires,
                 watched, execVars, excused, dfails>>

LogsReturn(c) ==
  /\ <<"logs", c>> \in clients /\ status[c] = "exited"
  /\ clients' = clients \ {<<"logs", c>>}
  /\ UNCHANGED <<dindStopAt, entries, creator, starter, cleaner, ctrd2, wires, watched, execVars, excused, dfails>>

\* handleExecCreate, and the two ways handleExecStart serves it: with the
\* request held open, or on a hijacked connection.
handleExecCreate(c) ==
  /\ Serving(c) /\ c \in etask /\ status[c] = "running" /\ c \notin execs
  /\ execs' = execs \cup {c}
  /\ UNCHANGED <<dindStopAt, entries, creator, starter, cleaner, ctrd2, wires, watched, clients, execAt, excused, dfails>>

handleExecStartLog(c) ==
  /\ Serving(c) /\ c \in execs \cap etask /\ ctask[c] = "running" /\ execAt[c] = "idle"
  /\ <<"exec", c>> \notin clients /\ clients' = clients \cup {<<"exec", c>>}
  /\ UNCHANGED <<dindStopAt, entries, creator, starter, cleaner, ctrd2, wires, watched, execVars, excused, dfails>>

handleExecStartHijack(c) ==
  /\ Serving(c) /\ c \in execs \cap etask /\ <<"exec", c>> \notin clients
  /\ At(execAt, c, "idle", "stdin")
  /\ UNCHANGED <<dindStopAt, entries, creator, starter, cleaner, ctrd2, wires, watched, clients, execs, excused, dfails>>

\* Up to five seconds later the process is made, if the task still runs; the
\* entry it was found by may be gone.
ExecProcess(c) ==
  /\ At(execAt, c, "stdin", IF ctask[c] = "running" THEN "running" ELSE "idle")
  /\ UNCHANGED <<dindStopAt, entries, creator, starter, cleaner, ctrd2, wires, watched, clients, execs, excused, dfails>>

\* An exec's process ends, by itself or with the task.
ExecEnds(c) ==
  /\ \/ At(execAt, c, "running", "idle") /\ UNCHANGED clients
     \/ <<"exec", c>> \in clients /\ clients' = clients \ {<<"exec", c>>} /\ UNCHANGED execAt
  /\ UNCHANGED <<dindStopAt, entries, creator, starter, cleaner, ctrd2, wires, watched, execs, excused, dfails>>

\* The client goes away, and the request's context with it.
HangUp(c) ==
  /\ \E k \in Waits : <<k, c>> \in clients /\ clients' = clients \ {<<k, c>>}
  /\ UNCHANGED <<dindStopAt, entries, creator, starter, cleaner, ctrd2, wires, watched, execVars, excused, dfails>>

-----------------------------------------------------------------------------
\* handleContainerRemove, and cleanupContainer, which Stop calls as well.
handleContainerRemove(c) ==
  /\ Serving(c)
  /\ At(cleaner, c, "idle", "ports")
  /\ excused' = IF starter[c] = "idle" THEN excused ELSE excused \cup {c}
  /\ UNCHANGED <<dindStopAt, entries, creator, starter, ctrd2, wires, watched, clients, execVars, dfails>>

removePortForwards(c) ==
  /\ At(cleaner, c, "ports", "task")
  /\ forwards' = forwards \ {c}
  /\ UNCHANGED <<dindStopAt, entries, creator, starter, ctrd2, endpoints, strays, watched, clients, execVars, excused,
                 dfails>>

CleanTask(c) ==
  /\ At(cleaner, c, "task", "net")
  /\ \/ ctask' = [ctask EXCEPT ![c] = IF c \in etask THEN "none" ELSE @] /\ UNCHANGED dfails
     \/ c \in etask /\ Fails /\ ctask' \in {ctask, [ctask EXCEPT ![c] = IF @ = "running" THEN "stopped" ELSE @]}
  /\ UNCHANGED <<dindStopAt, entries, creator, starter, ctrs, wires, watched, clients, execVars, excused>>

CleanNet(c) ==
  /\ At(cleaner, c, "net", "container")
  /\ \/ endpoints' = (IF c \in enet THEN endpoints \ {c} ELSE endpoints) /\ UNCHANGED <<dfails, strays>>
     \/ c \in enet /\ Fails /\ strays' = strays \cup {c} /\ UNCHANGED endpoints
  /\ UNCHANGED <<dindStopAt, entries, creator, starter, ctrd2, forwards, watched, clients, execVars, excused>>

CleanContainer_Forced(c) ==
  /\ At(cleaner, c, "container", "unlist")
  /\ ctrs' = ctrs \ {c} /\ UNCHANGED dfails
  /\ pinned' = pinned \ {c}
  /\ UNCHANGED <<dindStopAt, listed, taken, status, etask, enet, creator, starter, ctask, wires, watched,
                 clients, execVars, excused>>

\* A container with a task stays; the files go and the pins are closed.
CleanContainer(c) ==
  /\ At(cleaner, c, "container", "unlist")
  /\ \/ ctrs' = (IF ctask[c] = "none" THEN ctrs \ {c} ELSE ctrs) /\ UNCHANGED dfails
     \/ Fails /\ UNCHANGED ctrs
  /\ pinned' = pinned \ {c}
  /\ UNCHANGED <<dindStopAt, listed, taken, status, etask, enet, creator, starter, ctask, wires, watched,
                 clients, execVars, excused>>

Unlist(c) ==
  /\ At(cleaner, c, "unlist", "idle")
  /\ listed' = listed \ {c}
  /\ UNCHANGED <<dindStopAt, taken, status, etask, enet, pinned, creator, starter, ctrd2, wires, watched,
                 clients, execVars, excused, dfails>>

-----------------------------------------------------------------------------
\* Stop.  Shutdown refuses new requests and waits, without a limit, for those in
\* flight; hijacked connections do not count.
StopServing ==
  /\ dindStopAt = "serving" /\ dindStopAt' = "shutdown"
  /\ UNCHANGED <<entries, creator, starter, cleaner, ctrd2, wires, watched, clients, execVars, excused, dfails>>

ShutdownReturns_AtOnce ==
  /\ dindStopAt = "shutdown" /\ dindStopAt' = "execs"
  /\ UNCHANGED <<entries, creator, starter, cleaner, ctrd2, wires, watched, clients, execVars, excused, dfails>>

ShutdownReturns ==
  /\ dindStopAt = "shutdown" /\ dindStopAt' = "execs"
  /\ clients = {}
  /\ \A c \in Cids : creator[c] \in {"idle", "over"} /\ starter[c] = "idle" /\ cleaner[c] = "idle"
  /\ UNCHANGED <<entries, creator, starter, cleaner, ctrd2, wires, watched, clients, execVars, excused, dfails>>

destroyAllExecs ==
  /\ dindStopAt = "execs" /\ dindStopAt' = "take"
  /\ execs' = {}
  /\ execAt' = [c \in Cids |-> IF execAt[c] = "running" /\ c \in execs THEN "idle" ELSE execAt[c]]
  /\ UNCHANGED <<entries, creator, starter, cleaner, ctrd2, wires, watched, clients, excused, dfails>>

\* destroyAllContainers takes the map and cleans up one after the other.
TakeContainers ==
  /\ dindStopAt = "take" /\ dindStopAt' = "destroy"
  /\ taken' = listed /\ listed' = {}
  /\ UNCHANGED <<status, etask, enet, pinned, creator, starter, cleaner, ctrd2, wires, watched, clients,
                 execVars, excused, dfails>>

destroyAllContainers(c) ==
  /\ dindStopAt = "destroy" /\ c \in taken /\ \A d \in Cids : cleaner[d] = "idle"
  /\ At(cleaner, c, "idle", "ports")
  /\ taken' = taken \ {c}
  /\ UNCHANGED <<dindStopAt, listed, status, etask, enet, pinned, creator, starter, ctrd2, wires, watched,
                 clients, execVars, excused, dfails>>

\* The stager's teardown is the backstop for staged binds nobody closed.
StagerTeardown ==
  /\ dindStopAt = "destroy" /\ taken = {} /\ \A c \in Cids : cleaner[c] = "idle"
  /\ dindStopAt' = "sweep"
  /\ pinned' = {}
  /\ UNCHANGED <<listed, taken, status, etask, enet, creator, starter, cleaner, ctrd2, wires, watched,
                 clients, execVars, excused, dfails>>

\* Every container of the namespace, whether an entry named it or not; what it
\* cannot delete is logged and left.
CleanupJobNamespace ==
  /\ dindStopAt = "sweep"
  /\ \/ dindStopAt' = "port" /\ ctrs' = {} /\ ctask' = [c \in Cids |-> "none"]
     \/ dindStopAt' = "leftover" /\ ctrs # {} /\ UNCHANGED ctrd2
  /\ UNCHANGED <<entries, creator, starter, cleaner, wires, watched, clients, execVars, excused, dfails>>

\* CloseHostPort, and dockerDir goes.
StopDone ==
  /\ dindStopAt = "port" /\ dindStopAt' = "done"
  /\ UNCHANGED <<entries, creator, starter, cleaner, ctrd2, wires, watched, clients, execVars, excused, dfails>>

StopStep ==
  \/ ShutdownReturns \/ destroyAllExecs \/ TakeContainers \/ StagerTeardown
  \/ CleanupJobNamespace \/ StopDone \/ \E c \in Cids : destroyAllContainers(c)

\* What a handler does once it runs, and what ends a wait.
HandlerStep(c) ==
  \/ buildBindMounts(c) \/ CreateExit(c) \/ NewSibling(c) \/ Register(c)
  \/ StartNewTask(c) \/ StartNetwork(c) \/ StartNetworkFails(c) \/ installPortForwards(c)
  \/ abortStart(c) \/ StartUnheard(c) \/ TaskStart(c) \/ MarkRunning(c)
  \/ removePortForwards(c) \/ CleanTask(c) \/ CleanNet(c) \/ CleanContainer(c) \/ Unlist(c)

Request(c) ==
  \/ handleContainerCreate(c) \/ handleContainerStart(c) \/ handleContainerStop(c)
  \/ handleContainerWait(c) \/ handleContainerRemove(c)
  \/ handleExecCreate(c) \/ handleExecStartLog(c) \/ handleExecStartHijack(c)

DindNext ==
  \/ StopServing \/ StopStep
  \/ \E c \in Cids :
       Request(c) \/ HandlerStep(c) \/ SiblingExits(c) \/ ExitSeen(c) \/ WaitReturns(c) \/ LogsReturn(c)
       \/ ExecProcess(c) \/ ExecEnds(c) \/ HangUp(c)

\* Every goroutine gets its turn, and a client that waits hangs up in the end:
\* the runtime kills the runner, whose clients these are, before it calls Stop.
DindFairness ==
  /\ WF_dindVars(StopStep)
  /\ \A c \in Cids :
       /\ WF_dindVars(HandlerStep(c)) /\ WF_dindVars(ExitSeen(c))
       /\ WF_dindVars(HangUp(c)) /\ WF_dindVars(WaitReturns(c))

DindSpec == DindInit /\ [][DindNext]_dindVars /\ DindFairness

-----------------------------------------------------------------------------
\* Once Stop has returned, no container and no task of the job is left, although
\* clean-up calls may have failed or the undo of a start never ran, no staged bind
\* pins the runner's rootfs, and what is left in the network is left by a Remove
\* that overtook a Start or by a Teardown that failed: nobody tries that again.
StopLeavesNothing ==
  dindStopAt = "done" =>
    /\ ctrs = {} /\ pinned = {}
    /\ \A c \in Cids : ctask[c] = "none" /\ creator[c] \in {"idle", "over"}
    /\ forwards \subseteq excused /\ endpoints \subseteq excused \cup strays

\* A container that docker can name runs with its network, or not at all (the
\* start fails when Setup does), and its staged sources are there as long as it
\* has a task, for runc reads the spec's paths again; unless a Remove overtook
\* its Start.
Kept == {c \in listed \ excused : cleaner[c] = "idle"}

SiblingHasNetwork == \A c \in Kept : ctask[c] = "running" => c \in endpoints /\ c \in pinned

\* docker ps comes to say exited once the sibling's process has ended, whatever
\* order the start, the stop and the waiters write the status in.
StatusSettles ==
  \A c \in Cids :
    ctask[c] = "stopped" /\ c \in listed /\ dfails = 0
      ~> status[c] = "exited" \/ c \notin listed \/ dfails > 0

\* Stop returns once the clients have gone, although Shutdown waits without a
\* limit for requests that wait for containers only Stop would kill.
DindStopReturns == dindStopAt = "shutdown" ~> dindStopAt \in {"leftover", "done"}
=============================================================================
