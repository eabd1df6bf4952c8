------------------------------- MODULE Daemon -------------------------------
(***************************************************************************)
(* The life of the daemon (serve and initProviders of cmd/ephemerd/main.go *)
(* with pkgproxies.go, actionscache.go, retry.go and the start and stop of *)
(* the embedded containerd): the stages of a host or of a worker in their  *)
(* order, each with what its failure does, the defers they push, the jobs  *)
(* that run once the last stage is reached, and the way out on a signal or *)
(* a fatal error.                                                          *)
(***************************************************************************)
EXTENDS Naturals, Sequences, SequencesExt

CONSTANTS
  NetAttempts,    \* retryInit's attempts at the container network
  MaxJobs         \* a bound on jobs taken

ASSUME DaemonAssumption == NetAttempts \in Nat \ {0} /\ MaxJobs \in Nat

VARIABLES
  role,        \* "host", or "worker" for serve --containerd-only
  onLinux,     \* runtime.GOOS = "linux"
  serveStage,       \* the stages passed; the last one is sched.Run or <-ctx.Done()
  netTries,    \* failed attempts at the network
  defers,      \* the cleanups pushed so far
  up,          \* what has been started and not stopped
  forge,       \* a Forgejo or Gitea instance is configured
  dindCfg,     \* cfg.Dind.Enabled
  runtimeDind, \* DindEnabled as runtime.New was given it
  advertised,  \* the caches whose addresses jobs are given
  answering,   \* the caches that answered when they were started
  dJobs,       \* a job runs
  jobsTaken,
  signalled,   \* SIGINT or SIGTERM
  exiting      \* serve has returned and unwinds its defers

given == <<dindCfg, runtimeDind, advertised, answering>>
daemonVars == <<role, onLinux, serveStage, netTries, defers, up, forge, given, dJobs, jobsTaken,
                signalled, exiting>>

Caches == {"gomod", "cargo", "pkg"}
HostStages == <<"config", "containerd", "extract", "network", "firewall", "gomod", "cargo", "pkg", "actions",
                "buildkit", "runtime", "sweeper", "providers", "dispatch", "tunnel", "run">>
WorkerStages == <<"config", "containerd", "extract", "network", "firewall", "buildkit", "runtime", "sweeper",
                  "dispatchServer", "debug", "run">>
Stages == IF role = "host" THEN HostStages ELSE WorkerStages
Here == Stages[serveStage + 1]
AtLast == serveStage = Len(Stages) - 1

(* Failures that end the daemon, and those that are logged. *)
Fatal == {"config", "extract", "runtime", "providers", "tunnel"} \cup (IF onLinux THEN {"firewall"} ELSE {})
DaemonDeferred == {"actions", "dispatchServer", "debug"}

DaemonTypeOK ==
  /\ role \in {"host", "worker"} /\ serveStage \in 0..(Len(Stages) - 1) /\ netTries \in 0..NetAttempts
  /\ IsInjective(defers) /\ up \subseteq Range(HostStages) \cup Range(WorkerStages)
  /\ {onLinux, forge, dindCfg, runtimeDind, dJobs, signalled, exiting} \subseteq BOOLEAN
  /\ advertised \subseteq Caches /\ answering \subseteq Caches /\ jobsTaken \in 0..MaxJobs

DaemonInit ==
  /\ role = "host" /\ onLinux = TRUE /\ serveStage = 0 /\ netTries = 0 /\ defers = <<>> /\ up = {}
  /\ forge = FALSE /\ dindCfg = FALSE /\ runtimeDind = FALSE
  /\ advertised = {} /\ answering = {} /\ dJobs = FALSE /\ jobsTaken = 0
  /\ signalled = FALSE /\ exiting = FALSE

Stay == UNCHANGED <<role, onLinux, forge, dJobs, jobsTaken, signalled>>
Pass == serveStage' = serveStage + 1 /\ UNCHANGED exiting
Return == exiting' = TRUE /\ UNCHANGED serveStage
Push(d) == defers' = Append(defers, d)

(* No daemon answers on the control socket, the configuration loads and the *)
(* dispatch token is there.                                                 *)
LoadConfig ==
  /\ ~exiting /\ Here = "config" /\ Pass
  /\ role' \in {"host", "worker"} /\ onLinux' \in BOOLEAN /\ (role' = "worker" => onLinux')
  /\ forge' \in (IF role' = "host" THEN BOOLEAN ELSE {FALSE}) /\ dindCfg' \in BOOLEAN
  /\ UNCHANGED <<netTries, defers, up, runtimeDind, advertised, answering, dJobs, jobsTaken, signalled>>

(* start: the server, its listeners, and a client that must answer within   *)
(* thirty attempts.                                                         *)
startContainerd == Pass /\ up' = up \cup {Here} /\ Push(Here)

(* containerd.New: shims, set-up and start; any error is serve's.           *)
NewContainerd ==
  /\ ~exiting /\ Here = "containerd"
  /\ \/ startContainerd
     \/ Return /\ UNCHANGED <<up, defers>>
  /\ UNCHANGED <<netTries, given>> /\ Stay

(* A stage that works: extraction, the tunnel, the Actions cache, ... *)
StageUp ==
  /\ ~exiting /\ ~AtLast
  /\ Here \in {"extract", "actions", "sweeper", "tunnel", "dispatchServer", "debug"}
  /\ Pass /\ up' = up \cup {Here}
  /\ IF Here \in DaemonDeferred THEN Push(Here) ELSE UNCHANGED defers
  /\ UNCHANGED <<netTries, given>> /\ Stay

(* A stage that fails. *)
StageFails ==
  /\ ~exiting /\ ~AtLast
  /\ \/ Here \in {"config", "extract", "actions", "buildkit", "runtime", "providers", "tunnel"}
     \/ Here = "firewall" /\ onLinux
  /\ IF Here \in Fatal THEN Return ELSE Pass
  /\ UNCHANGED <<netTries, defers, up, given>> /\ Stay

(* networking.New: a host retries it until the attempts are used up or the *)
(* daemon is told to stop; a worker tries once.                            *)
retryInit ==
  /\ ~exiting /\ Here = "network"
  /\ \/ Pass /\ up' = up \cup {"network"} /\ UNCHANGED netTries
     \/ /\ netTries' = netTries + 1 /\ UNCHANGED up
        /\ IF role = "worker" \/ signalled \/ netTries' = NetAttempts
             THEN Return ELSE UNCHANGED <<serveStage, exiting>>
  /\ UNCHANGED <<defers, given>> /\ Stay

(* enforceFirewallInstall, and the deferred net.Cleanup.  A failure that is *)
(* only logged goes on to the same defer.                                   *)
enforceFirewallInstall ==
  /\ ~exiting /\ Here = "firewall"
  /\ \/ Pass /\ up' = up \cup {"firewall"} /\ Push("network")
     \/ ~onLinux /\ Pass /\ UNCHANGED up /\ Push("network")
  /\ UNCHANGED <<netTries, given>> /\ Stay

(* startPkgProxies: a cache that does not answer its health probe is        *)
(* stopped and not advertised.  The module and Cargo proxies are advertised *)
(* once they listen.  A cache that is off or fails to start is skipped.     *)
startPkgProxies ==
  /\ ~exiting /\ ~AtLast /\ Here \in Caches /\ Pass
  /\ \/ \E answers \in BOOLEAN :
          /\ Here = "pkg" => answers
          /\ up' = up \cup {Here} /\ Push(Here) /\ advertised' = advertised \cup {Here}
          /\ answering' = (IF answers THEN answering \cup {Here} ELSE answering)
     \/ UNCHANGED <<up, defers, advertised, answering>>
  /\ UNCHANGED <<netTries, dindCfg, runtimeDind>> /\ Stay

(* buildkit.NewServer, when dind is on. *)
startBuildKit ==
  /\ ~exiting /\ Here = "buildkit" /\ Pass
  /\ IF dindCfg THEN up' = up \cup {Here} /\ Push(Here) ELSE UNCHANGED <<up, defers>>
  /\ UNCHANGED <<netTries, given>> /\ Stay

(* runtime.New: the runtime keeps the value DindEnabled has now. *)
newRuntime ==
  /\ ~exiting /\ Here = "runtime" /\ Pass
  /\ up' = up \cup {Here} /\ runtimeDind' = dindCfg
  /\ UNCHANGED <<netTries, defers, dindCfg, advertised, answering>> /\ Stay

(* initProviders: Forgejo and Gitea turn dind on. *)
initProviders ==
  /\ ~exiting /\ Here = "providers" /\ Pass
  /\ up' = up \cup {Here} /\ Push(Here) /\ dindCfg' = (dindCfg \/ forge)
  /\ UNCHANGED <<netTries, runtimeDind, advertised, answering>> /\ Stay

(* waitDispatch: waits for the Linux VM's start to end, whatever the signal. *)
waitDispatch ==
  /\ ~exiting /\ Here = "dispatch" /\ Pass
  /\ UNCHANGED <<netTries, defers, up, given>> /\ Stay

(* A job is taken by the scheduler, or by a worker's dispatch server. *)
TakesJobs == ~exiting /\ (IF role = "host" THEN AtLast /\ ~signalled ELSE "dispatchServer" \in up)
TakeJob ==
  /\ TakesJobs /\ ~dJobs /\ jobsTaken < MaxJobs
  /\ dJobs' = TRUE /\ jobsTaken' = jobsTaken + 1
  /\ UNCHANGED <<role, onLinux, serveStage, netTries, defers, up, forge, given, signalled, exiting>>

DaemonJobEnds ==
  /\ dJobs /\ dJobs' = FALSE
  /\ UNCHANGED <<role, onLinux, serveStage, netTries, defers, up, forge, given, jobsTaken, signalled, exiting>>

Signal ==
  /\ ~signalled /\ signalled' = TRUE
  /\ UNCHANGED <<role, onLinux, serveStage, netTries, defers, up, forge, given, dJobs, jobsTaken, exiting>>

(* sched.Run drains its jobs, or destroys them at the shutdown timeout,     *)
(* before it returns; a worker's serve just returns.                        *)
RunReturns ==
  /\ ~exiting /\ AtLast /\ signalled /\ Return
  /\ dJobs' = (role = "worker" /\ dJobs)
  /\ UNCHANGED <<role, onLinux, netTries, defers, up, forge, given, jobsTaken, signalled>>

Takes(d) == IF d = "network" THEN {"network", "firewall"} ELSE {d}

(* The defers run, last pushed first. *)
Unwind ==
  /\ exiting /\ defers # <<>>
  /\ defers' = Front(defers) /\ up' = up \ Takes(Last(defers))
  /\ UNCHANGED <<role, onLinux, serveStage, netTries, forge, given, dJobs, jobsTaken, signalled, exiting>>

Exited == exiting /\ defers = <<>>
StaysDown == Exited /\ UNCHANGED daemonVars

ServeStep ==
  \/ LoadConfig \/ NewContainerd \/ StageUp \/ StageFails \/ retryInit \/ enforceFirewallInstall
  \/ startPkgProxies \/ startBuildKit \/ newRuntime \/ initProviders \/ waitDispatch \/ RunReturns \/ Unwind

DaemonNext == ServeStep \/ TakeJob \/ DaemonJobEnds \/ Signal \/ StaysDown

DaemonSpec == DaemonInit /\ [][DaemonNext]_daemonVars

(* No job runs outside the container firewall of a Linux node: a rule that  *)
(* cannot be installed keeps the daemon from ever taking one (main.go:528), *)
(* and on a host the rules go only after the last job.                      *)
JobsContained == dJobs /\ onLinux /\ (role = "host" \/ ~exiting) => "firewall" \in up

(* What a host's jobs were given stays up as long as they run: containerd,  *)
(* the network and the caches they were pointed at.                         *)
ServicesOutliveJobs ==
  dJobs /\ role = "host" => {"containerd", "network"} \cup advertised \subseteq up

(* A package cache that never answered is not in any job's environment      *)
(* (pkgproxies.go:200-207): its address there would fail every install.     *)
AdvertisedAnswers == "pkg" \in advertised => "pkg" \in answering

(* What is left until serve has returned and every defer has run.           *)
Distance ==
  IF exiting THEN Len(defers)
  ELSE Len(HostStages) + (Len(Stages) - serveStage) + (NetAttempts - netTries)

(* A daemon that is told to stop, at whatever stage, comes nearer to its    *)
(* end with every step of serve, and has one until it has exited (it never  *)
(* deadlocks): it neither retries for ever nor skips what it deferred.      *)
SignalEnds ==
  [][signalled /\ <<serveStage, netTries, defers, exiting>>' # <<serveStage, netTries, defers, exiting>>
       => Distance' < Distance]_daemonVars
=============================================================================
