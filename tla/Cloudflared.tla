----------------------------- MODULE Cloudflared -----------------------------
(***************************************************************************)
(* The cloudflared subprocess behind the webhook tunnel (pkg/tunnel): one  *)
(* child per Listen, a waiter goroutine that closes the listener when the  *)
(* child dies on its own, close, and the orphans that a killed daemon      *)
(* leaves where the operating system does not take its children with it.   *)
(* Children are numbered in the order they start.                          *)
(***************************************************************************)
EXTENDS Naturals

CONSTANTS
  MaxChildren,   \* a bound on children
  MaxCfFaults    \* a bound on failed system calls and killed daemons

ASSUME CfAssumption == {MaxChildren, MaxCfFaults} \subseteq Nat \ {0}

VARIABLES
  cfHost,      \* "linux": Pdeathsig, "windows": a Job Object; SIGTERM is refused there
  cfAt,        \* where the serving goroutine is
  child,       \* per child: "none", "run", "exited", "waited"
  ours,        \* the first child of this daemon
  cmd,         \* c.cmd: its child, 0: nil
  cfLn,        \* c.ln
  openLn,      \* whose listener holds the port, 0: it is free
  closing,     \* c.closing
  bound,       \* children in a Job Object that this daemon holds
  waiter,      \* per child: its waiter is "off", in cmd.Wait, has "read", or is "done"
  saw,         \* the closing and ln it read
  spared,      \* strays that could not be killed
  cfFaults

cfChildren == <<child, ours, bound, spared>>
cfOwn == <<cmd, cfLn, openLn, closing>>
cfWait == <<waiter, saw>>
cfVars == <<cfHost, cfAt, cfChildren, cfOwn, cfWait, cfFaults>>

Kids == 1..MaxChildren
NextKid == 1 + CHOOSE n \in 0..MaxChildren : \A k \in Kids : (child[k] # "none") <=> k <= n

CfTypeOK ==
  /\ cfHost \in {"linux", "windows"} /\ cfAt \in {"idle", "ready", "up", "signal", "wait"}
  /\ child \in [Kids -> {"none", "run", "exited", "waited"}] /\ ours \in 1..(MaxChildren + 1)
  /\ {cmd, cfLn, openLn} \subseteq 0..MaxChildren /\ closing \in BOOLEAN
  /\ bound \subseteq Kids /\ spared \subseteq Kids
  /\ waiter \in [Kids -> {"off", "wait", "read", "done"}]
  /\ saw \in [Kids -> [closing : BOOLEAN, ln : 0..MaxChildren]] /\ cfFaults \in 0..MaxCfFaults

CfInit ==
  /\ cfHost \in {"linux", "windows"} /\ cfAt = "idle" /\ child = [k \in Kids |-> "none"] /\ ours = 1
  /\ cmd = 0 /\ cfLn = 0 /\ openLn = 0 /\ closing = FALSE /\ bound = {}
  /\ waiter = [k \in Kids |-> "off"] /\ saw = [k \in Kids |-> [closing |-> FALSE, ln |-> 0]]
  /\ spared = {} /\ cfFaults = 0

CfFault == cfFaults < MaxCfFaults /\ cfFaults' = cfFaults + 1
CfFine == UNCHANGED cfFaults
CfTo(from, to) == cfAt = from /\ cfAt' = to
Alive == {k \in Kids : child[k] = "run"}

Strays == {k \in Alive : k < ours}

(* reapStrayCloudflared: children of an earlier daemon are killed, where    *)
(* the system allows it; nothing is done off Windows.                       *)
reapStrayCloudflared(swept) ==
  /\ spared' \in {spared, spared \cup Strays}
  /\ swept = IF cfHost = "windows" THEN Strays \ spared' ELSE {}

(* Listen and start: strays first, then the port, the child, its binding.   *)
(* A failure before the child runs leaves nothing.                          *)
startCloudflared ==
  LET k == NextKid IN
  /\ CfTo("idle", "ready") /\ cmd = 0 /\ k \in Kids /\ openLn = 0
  /\ \E swept \in SUBSET Strays :
       /\ reapStrayCloudflared(swept)
       /\ child' = [j \in Kids |-> IF j = k THEN "run" ELSE IF j \in swept THEN "waited" ELSE child[j]]
  /\ bound' \in {bound, bound \cup {k}} /\ (cfHost # "windows" => bound' = bound)
  /\ IF spared' = spared /\ (cfHost = "windows" => bound' # bound) THEN CfFine ELSE CfFault
  /\ cmd' = k /\ cfLn' = k /\ openLn' = k /\ closing' = FALSE
  /\ waiter' = [waiter EXCEPT ![k] = "wait"]
  /\ UNCHANGED <<cfHost, ours, saw>>

(* waitForReady: answered or timed out, the listener is handed on.          *)
waitForReady == CfTo("ready", "up") /\ UNCHANGED <<cfHost, cfChildren, cfOwn, cfWait>> /\ CfFine

ChildExits(k) ==
  /\ k \in Alive /\ k >= ours /\ CfFault /\ child' = [child EXCEPT ![k] = "exited"]
  /\ UNCHANGED <<cfHost, cfAt, ours, bound, spared, cfOwn, cfWait>>

(* The waiter: cmd.Wait returns, closing and the listener are read.         *)
WaiterReads(k) ==
  /\ waiter[k] = "wait" /\ child[k] = "exited"
  /\ waiter' = [waiter EXCEPT ![k] = "read"] /\ child' = [child EXCEPT ![k] = "waited"]
  /\ saw' = [saw EXCEPT ![k] = [closing |-> closing, ln |-> cfLn]]
  /\ UNCHANGED <<cfHost, cfAt, ours, bound, spared, cfOwn>> /\ CfFine

(* It closes the listener of a child nobody asked to stop, then waitDone.   *)
WaiterActs(k) ==
  /\ waiter[k] = "read" /\ waiter' = [waiter EXCEPT ![k] = "done"]
  /\ openLn' = IF ~saw[k].closing /\ saw[k].ln = openLn THEN 0 ELSE openLn
  /\ UNCHANGED <<cfHost, cfAt, cfChildren, cmd, cfLn, closing, saw>> /\ CfFine

(* close: the scheduler closes a listener that failed, or one it gives up.  *)
closeTunnel ==
  /\ CfTo("up", "signal") /\ closing' = TRUE /\ cfLn' = 0 /\ openLn' = 0
  /\ UNCHANGED <<cfHost, cfChildren, cmd, cfWait>> /\ CfFine

(* close returns: the Job Object goes last, and takes the child with it.    *)
Closed ==
  /\ cfAt' = "idle" /\ cmd' = 0 /\ bound' = bound \ {cmd}
  /\ child' = [child EXCEPT ![cmd] = IF @ = "run" /\ cmd \in bound THEN "exited" ELSE @]
  /\ UNCHANGED <<cfHost, ours, spared, cfLn, openLn, closing, cfWait>> /\ CfFine

(* SIGTERM: refused on Windows, and a child may ignore it.                  *)
SignalChild ==
  /\ CfTo("signal", "wait")
  /\ \/ child[cmd] = "run" /\ cfHost = "linux" /\ child' = [child EXCEPT ![cmd] = "exited"]
     \/ UNCHANGED child
  /\ UNCHANGED <<cfHost, ours, bound, spared, cfOwn, cfWait>> /\ CfFine

WaitDone == cfAt = "wait" /\ waiter[cmd] = "done" /\ Closed

WaitTimesOut_Returns ==
  /\ cfAt = "wait" /\ child[cmd] = "run" /\ cfAt' = "idle" /\ cmd' = 0 /\ bound' = bound \ {cmd}
  /\ child' = [child EXCEPT ![cmd] = "exited"]
  /\ UNCHANGED <<cfHost, ours, spared, cfLn, openLn, closing, cfWait>> /\ CfFine

(* After 15 seconds the child is killed, and close still waits for the      *)
(* waiter.                                                                  *)
WaitTimesOut ==
  /\ cfAt = "wait" /\ child[cmd] = "run" /\ child' = [child EXCEPT ![cmd] = "exited"]
  /\ UNCHANGED <<cfHost, cfAt, ours, bound, spared, cfOwn, cfWait>> /\ CfFine

(* Pdeathsig, or the last handle of the Job Object.                         *)
bindChildLifetime == cfHost = "linux" \/ cmd \in bound

(* The daemon is killed: its goroutines and its listener go with it, its    *)
(* child where it is bound to it.                                           *)
KillTunnel ==
  /\ CfFault /\ cfAt' = "idle" /\ cmd' = 0 /\ cfLn' = 0 /\ openLn' = 0 /\ closing' = FALSE /\ bound' = {}
  /\ child' = [k \in Kids |-> IF child[k] = "exited" \/ (k \in Alive /\ k = cmd /\ bindChildLifetime)
                              THEN "waited" ELSE child[k]]
  /\ ours' = NextKid /\ waiter' = [k \in Kids |-> "off"] /\ saw' = [k \in Kids |-> [closing |-> FALSE, ln |-> 0]]
  /\ UNCHANGED <<cfHost, spared>>

CfNext ==
  \/ startCloudflared \/ waitForReady \/ closeTunnel \/ SignalChild \/ WaitDone \/ WaitTimesOut
  \/ KillTunnel
  \/ \E k \in Kids : ChildExits(k) \/ WaiterReads(k) \/ WaiterActs(k)

(* Goroutines run, and Serve returns once its listener is closed.           *)
CfFairness ==
  /\ \A k \in Kids : WF_cfVars(WaiterReads(k)) /\ WF_cfVars(WaiterActs(k))
  /\ WF_cfVars(waitForReady) /\ WF_cfVars(openLn = 0 /\ closeTunnel)
  /\ WF_cfVars(SignalChild) /\ WF_cfVars(WaitDone) /\ WF_cfVars(WaitTimesOut)

CfSpec == CfInit /\ [][CfNext]_cfVars /\ CfFairness

-----------------------------------------------------------------------------
(* No cloudflared of an earlier daemon competes for the tunnel's deliveries *)
(* with the one that serves, unless killing it failed.                      *)
OneClient == cfAt \in {"ready", "up"} => Alive \ spared \subseteq {cmd}

(* The waiter of an old child never closes the listener of a new one: while *)
(* the current child runs, its listener is open.                            *)
OwnListener == (cfAt = "up" /\ cmd \in Alive) => openLn = cmd

(* close has stopped its child and freed the port when it returns.          *)
CloseLeavesNothing == cfAt = "idle" => openLn = 0 /\ \A k \in Alive : k < ours

(* A child that dies on its own is noticed: the listener is closed, so that *)
(* the scheduler reconnects.                                                *)
CrashNoticed == (cfAt = "up" /\ cmd \notin Alive) ~> (cfAt # "up")
=============================================================================
