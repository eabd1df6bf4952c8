----------------------------- MODULE CargoProxy ------------------------------
(***************************************************************************)
(* The Cargo proxy's life (pkg/proxies/cargo, pkg/proxies/server.go): the  *)
(* config file mounted into every job, the watchdog that probes the        *)
(* proxy's own listener and withdraws that file when the proxy stops       *)
(* answering, and the bounded shutdown of its HTTP server.                 *)
(***************************************************************************)
EXTENDS Integers, FiniteSets

CONSTANTS
  Conns,          \* client connections, each made once
  Threshold,      \* healthFailuresToWithdraw
  MaxWedges,      \* a bound on how often the listener wedges
  MaxWriteFails   \* a bound on failed writes of the config

ASSUME CargoProxyAssumption == Threshold \in Nat \ {0} /\ MaxWedges \in Nat /\ MaxWriteFails \in Nat

VARIABLES
  cfgFile,      \* the mounted config sends jobs to the proxy
  configActive, \* p.configActive
  wedged,       \* the listener has stopped answering
  wedges, writeFails,  \* how often so far
  probing,      \* where the watchdog is
  failures,     \* consecutive failed probes
  conn,         \* the state of a connection
  unread,       \* s.unread
  cargoStopAt        \* where Stop is

cfgVars == <<cfgFile, configActive, writeFails>>
dogVars == <<probing, failures>>
srvVars == <<conn, unread>>
cargoVars == <<cfgVars, wedged, wedges, dogVars, srvVars, cargoStopAt>>

CargoTypeOK ==
  /\ cfgFile \in BOOLEAN /\ configActive \in BOOLEAN /\ failures \in 0..Threshold
  /\ probing \in {"wait", "probe", "late", "ending", "exited"}
  /\ conn \in [Conns -> {"none", "accepted", "new", "active", "idle", "closed"}]
  /\ unread \subseteq Conns
  /\ cargoStopAt \in {"no", "dog", "unread", "drain", "force", "accept", "stopped"}

\* Start writes the active config, listens and starts the watchdog.
CargoInit ==
  /\ cfgFile = TRUE /\ configActive = TRUE /\ wedged = FALSE /\ wedges = 0 /\ writeFails = 0
  /\ probing = "wait" /\ failures = 0
  /\ conn = [c \in Conns |-> "none"] /\ unread = {}
  /\ cargoStopAt = "no"

\* writeContainerConfigLocked: temporary file and rename; a failure keeps the
\* old file and the old flag.
writeContainerConfigLocked(active) ==
  \/ cfgFile' = active /\ configActive' = active /\ UNCHANGED writeFails
  \/ writeFails < MaxWriteFails /\ writeFails' = writeFails + 1 /\ UNCHANGED <<cfgFile, configActive>>

setConfigActive(active) ==
  IF configActive = active THEN UNCHANGED cfgVars ELSE writeContainerConfigLocked(active)

\* A tick.  After Stop has cancelled the context, the loop ends; a tick that
\* is ready at the same time may be taken first, once: the probe it starts
\* fails at once, and then only the context is ready.
runWatchdog ==
  /\ probing \in {"wait", "ending"}
  /\ probing' \in CASE cargoStopAt = "no" -> {"probe"} [] probing = "ending" -> {"exited"}
                    [] OTHER -> {"late", "exited"}
  /\ UNCHANGED <<cfgVars, wedged, wedges, failures, srvVars, cargoStopAt>>

\* A probe fails when the listener is wedged, and when its context ends.
ProbeFails ==
  /\ probing \in {"probe", "late"} /\ (wedged \/ cargoStopAt # "no")
  /\ probing' = IF probing = "late" THEN "ending" ELSE "wait"
  /\ failures' = IF failures < Threshold THEN failures + 1 ELSE failures
  /\ IF failures' >= Threshold THEN setConfigActive(FALSE) ELSE UNCHANGED cfgVars
  /\ UNCHANGED <<wedged, wedges, srvVars, cargoStopAt>>

\* It is answered, and the config restored if it was withdrawn.
ProbeAnswered ==
  /\ probing = "probe" /\ ~wedged /\ probing' = "wait" /\ failures' = 0 /\ setConfigActive(TRUE)
  /\ UNCHANGED <<wedged, wedges, srvVars, cargoStopAt>>

Wedge ==
  /\ ~wedged /\ wedges < MaxWedges /\ wedged' = TRUE /\ wedges' = wedges + 1
  /\ UNCHANGED <<cfgVars, dogVars, srvVars, cargoStopAt>>

Unwedge ==
  /\ wedged /\ wedged' = FALSE /\ UNCHANGED <<cfgVars, wedges, dogVars, srvVars, cargoStopAt>>

-----------------------------------------------------------------------------
Sets(c, st) == conn' = [conn EXCEPT ![c] = st]

\* The accept loop runs until http.Shutdown closes the listener.
Accept(c) ==
  /\ conn[c] = "none" /\ cargoStopAt \in {"no", "dog", "unread"} /\ Sets(c, "accepted")
  /\ UNCHANGED <<cfgVars, wedged, wedges, dogVars, unread, cargoStopAt>>

\* trackConn(StateNew), after Accept returned: a connection that arrived in
\* the window between the decision to stop and the closed listener is closed.
trackConn(c) ==
  /\ conn[c] = "accepted"
  /\ IF cargoStopAt \in {"no", "dog", "unread"} THEN Sets(c, "new") /\ unread' = unread \cup {c}
     ELSE Sets(c, "closed") /\ UNCHANGED unread
  /\ UNCHANGED <<cfgVars, wedged, wedges, dogVars, cargoStopAt>>

\* A request comes; trackConn takes the connection out of the set.
ReadRequest(c) ==
  /\ conn[c] \in {"new", "idle"} /\ Sets(c, "active") /\ unread' = unread \ {c}
  /\ UNCHANGED <<cfgVars, wedged, wedges, dogVars, cargoStopAt>>

\* The handler returns; it may take as long as its upstream does, until
\* Shutdown cancels the server's context.
Handled(c) ==
  /\ conn[c] = "active" /\ (wedged => cargoStopAt \in {"accept", "stopped"})
  /\ conn' \in {[conn EXCEPT ![c] = st] : st \in {"idle", "closed"}}
  /\ UNCHANGED <<cfgVars, wedged, wedges, dogVars, unread, cargoStopAt>>

\* Stop cancels the watchdog ...
StopCargo ==
  /\ cargoStopAt = "no" /\ cargoStopAt' = "dog"
  /\ UNCHANGED <<cfgVars, wedged, wedges, dogVars, srvVars>>

\* ... and joins it before the listener goes.
DogJoined ==
  /\ cargoStopAt = "dog" /\ probing = "exited" /\ cargoStopAt' = "unread"
  /\ UNCHANGED <<cfgVars, wedged, wedges, dogVars, srvVars>>

\* Shutdown closes what never carried a request, under the mutex.
Shutdown ==
  /\ cargoStopAt = "unread" /\ cargoStopAt' = "drain" /\ unread' = {}
  /\ conn' = [c \in Conns |-> IF c \in unread THEN "closed" ELSE conn[c]]
  /\ UNCHANGED <<cfgVars, wedged, wedges, dogVars>>

\* http.Shutdown (net/http): the listener is closed, idle connections go, and
\* it returns once no connection is new or active, or its context ends.
Drain ==
  /\ cargoStopAt = "drain"
  /\ conn' = [c \in Conns |-> IF conn[c] = "idle" THEN "closed" ELSE conn[c]]
  /\ \/ /\ \A c \in Conns : conn[c] \notin {"new", "active"}
        /\ cargoStopAt' = "accept"
     \/ cargoStopAt' = "force"
  /\ UNCHANGED <<cfgVars, wedged, wedges, dogVars, unread>>

\* The grace is over: cancel the handlers' context, close everything.
ForceClose ==
  /\ cargoStopAt = "force" /\ cargoStopAt' = "accept"
  /\ conn' = [c \in Conns |-> IF conn[c] \in {"new", "active", "idle"} THEN "closed" ELSE conn[c]]
  /\ UNCHANGED <<cfgVars, wedged, wedges, dogVars, unread>>

\* accepting.Wait, then the cache is removed if it is to be.
CargoShutdownReturns ==
  /\ cargoStopAt = "accept" /\ cargoStopAt' = "stopped"
  /\ UNCHANGED <<cfgVars, wedged, wedges, dogVars, srvVars>>

DogStep == runWatchdog \/ ProbeFails \/ ProbeAnswered
CargoStopStep == DogJoined \/ Shutdown \/ Drain \/ ForceClose \/ CargoShutdownReturns

CargoNext ==
  \/ DogStep \/ Wedge \/ Unwedge \/ StopCargo \/ CargoStopStep
  \/ \E c \in Conns : Accept(c) \/ trackConn(c) \/ ReadRequest(c) \/ Handled(c)

CargoFairness ==
  /\ WF_cargoVars(DogStep)
  /\ WF_cargoVars(CargoStopStep) /\ \A c \in Conns : WF_cargoVars(trackConn(c))

CargoSpec == CargoInit /\ [][CargoNext]_cargoVars /\ CargoFairness

-----------------------------------------------------------------------------
\* The flag the watchdog trusts says what is in the file, also after a write
\* that failed: setConfigActive returns early on it.
ConfigAgrees == configActive = cfgFile

\* A listener that stays wedged is withdrawn from the jobs, unless the daemon
\* stops: Cargo has no fallback for a replacement source that does not answer.
WedgeWithdrawn == wedged ~> (~wedged \/ ~cfgFile \/ cargoStopAt # "no")

\* And one that answers again is given back.
Restored == (~wedged /\ ~cfgFile) ~> (wedged \/ cfgFile \/ cargoStopAt # "no")

\* Once the server drains no connection is left in the set of unread ones, so
\* that none of them can hold the shutdown for net/http's five seconds.
NoUnreadWhileDraining == cargoStopAt \in {"drain", "force", "accept", "stopped"} => unread = {}

\* Stop returns, though handlers may hang on their upstream.
CargoStops == cargoStopAt = "dog" ~> cargoStopAt = "stopped"
=============================================================================
