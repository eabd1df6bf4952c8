------------------------------ MODULE Upgrade ------------------------------
(***************************************************************************)
(* Self-upgrade (pkg/upgrade, the Upgrade RPC of pkg/scheduler/grpc.go):   *)
(* cordon and drain, download, verify, extract and probe, swap the binary, *)
(* and a supervisor that asks the service manager for a restart and gives  *)
(* the node back when none comes.  The daemon may die at any step and the  *)
(* service manager starts whatever is at the install path.                 *)
(***************************************************************************)
EXTENDS Naturals, FiniteSets

CONSTANTS
  Upgrades,          \* Upgrade RPCs; nothing makes them wait for one another
  RestartAttempts,   \* restartAttempts
  MaxDaemonDeaths    \* a bound on daemon crashes

ASSUME UpgradeAssumption == RestartAttempts \in Nat \ {0} /\ MaxDaemonDeaths \in Nat

VARIABLES
  upAt,        \* where an upgrade or its supervisor is
  didCordon,   \* upgrades that cordoned the node and have not undrained it
  upTries,     \* restart attempts made
  restartAsked,       \* a restart was accepted and may still take effect
  archive,     \* in the staging directory all upgrades share: "gone" (no
               \* directory), "none", and the archive, "good" or "bad"
  stagedBin,   \* the extracted binary there: "none", "new", "wrong", "bad"
  bin,         \* what is at the install path
  bak,         \* what is at <install path>.old
  daemon,      \* the running version: "old", "new", "wrong", "down"
  cordoned,    \* the scheduler's draining flag, the operator's too
  job,         \* a job: "none", "claimed" (not yet in s.running), "running"
  stranded,    \* a rollback has failed
  deaths,
  mixed,       \* history: two upgrades have used the staging directory at once
  crossed,     \* history: two of them have been swapping at once
  spoilt       \* history: upgrades whose drain was spoilt: somebody else lifted
               \* the cordon, or it ended with a job claimed and not yet tracked

upFiles == <<archive, stagedBin, bin, bak, stranded>>
upGhosts == <<mixed, crossed, spoilt>>
upgradeVars == <<upAt, didCordon, upTries, restartAsked, upFiles, daemon, cordoned, job, deaths, upGhosts>>

Swapping == {"moving", "aside", "rollback"}
Staging == {"download", "verify", "extract", "probe", "swap", "leave"} \cup Swapping
UpPhases == {"drain", "stage"} \cup Staging
Supervising == {"delay", "restart", "watch"}
Installing == (UpPhases \ {"drain"}) \cup Supervising
Binaries == {"none", "old", "new", "wrong", "bad"}

UpgradeTypeOK ==
  /\ upAt \in [Upgrades -> {"new", "over"} \cup UpPhases \cup Supervising]
  /\ didCordon \subseteq Upgrades /\ upTries \in [Upgrades -> 0..RestartAttempts]
  /\ restartAsked \in BOOLEAN /\ archive \in {"gone", "none", "good", "bad"}
  /\ {stagedBin, bin, bak} \subseteq Binaries /\ daemon \in {"old", "new", "wrong", "down"}
  /\ cordoned \in BOOLEAN /\ job \in {"none", "claimed", "running"}
  /\ stranded \in BOOLEAN /\ deaths \in 0..MaxDaemonDeaths
  /\ mixed \in BOOLEAN /\ crossed \in BOOLEAN /\ spoilt \subseteq Upgrades

UpgradeInit ==
  /\ upAt = [u \in Upgrades |-> "new"] /\ didCordon = {} /\ upTries = [u \in Upgrades |-> 0]
  /\ restartAsked = FALSE /\ archive = "gone" /\ stagedBin = "none" /\ bin = "old" /\ bak = "none"
  /\ daemon = "old" /\ cordoned = FALSE /\ job = "none"
  /\ stranded = FALSE /\ deaths = 0 /\ mixed = FALSE /\ crossed = FALSE /\ spoilt = {}

UpTo(u, from, to) == upAt[u] = from /\ upAt' = [upAt EXCEPT ![u] = to]

OthersIn(u, phases) == \E v \in Upgrades \ {u} : upAt[v] \in phases

(* Run, up to the drain.  A daemon that is the target already has nothing to do. *)
Run(u) ==
  /\ upAt[u] = "new" /\ daemon # "down"
  /\ \/ daemon = "new" /\ UpTo(u, "new", "over") /\ UNCHANGED <<didCordon, cordoned>>
     \/ UpTo(u, "new", "stage") /\ UNCHANGED <<didCordon, cordoned>>     \* NoDrain
     \/ /\ UpTo(u, "new", "drain")
        /\ didCordon' = didCordon \cup {u} /\ cordoned' = TRUE
  /\ UNCHANGED <<upTries, restartAsked, upFiles, daemon, job, deaths, upGhosts>>

(* waitDrain: idle is len(s.running) = 0. *)
waitDrain(u) ==
  /\ job # "running"
  /\ UpTo(u, "drain", "stage")
  /\ spoilt' = IF job = "claimed" THEN spoilt \cup {u} ELSE spoilt
  /\ UNCHANGED <<didCordon, upTries, restartAsked, upFiles, daemon, cordoned, job, deaths, mixed, crossed>>

(* undrain, once, when this upgrade cordoned the node: whoever else had. *)
undrain(u) ==
  /\ cordoned' = IF u \in didCordon THEN FALSE ELSE cordoned
  /\ didCordon' = didCordon \ {u}
  /\ spoilt' = IF u \in didCordon THEN spoilt \cup didCordon' ELSE spoilt

(* Any step before the swap may fail or be cancelled (the client's stream, *)
(* the drain timeout, a stalled download, the install budget).  From the   *)
(* making of the staging directory on, it goes with all that is in it.     *)
Fail(u) ==
  /\ upAt' = [upAt EXCEPT ![u] = "over"] /\ undrain(u)
  /\ archive' = (IF upAt[u] \in Staging THEN "gone" ELSE archive)
  /\ stagedBin' = IF upAt[u] \in Staging THEN "none" ELSE stagedBin

Aborted(u) ==
  /\ upAt[u] \in {"drain", "stage", "download", "verify", "extract", "probe", "swap"}
  /\ Fail(u)
  /\ UNCHANGED <<upTries, restartAsked, bin, bak, stranded, daemon, job, deaths, mixed, crossed>>

MakeStage(u) ==
  /\ UpTo(u, "stage", "download")
  /\ archive' = (IF archive = "gone" THEN "none" ELSE archive)
  /\ mixed' = (mixed \/ OthersIn(u, Staging))
  /\ UNCHANGED <<didCordon, upTries, restartAsked, stagedBin, bin, bak, stranded, daemon, cordoned, job, deaths,
                 crossed, spoilt>>

(* A half-written archive is a "bad" one; another upgrade's is overwritten. *)
downloadFile(u) ==
  /\ archive # "gone"
  /\ UpTo(u, "download", "verify")
  /\ archive' \in {"good", "bad"}
  /\ UNCHANGED <<didCordon, upTries, restartAsked, stagedBin, bin, bak, stranded, daemon, cordoned, job, deaths, upGhosts>>

verifyChecksum(u) ==
  /\ archive = "good"                                  \* a mismatch aborts
  /\ UpTo(u, "verify", "extract")
  /\ UNCHANGED <<didCordon, upTries, restartAsked, upFiles, daemon, cordoned, job, deaths, upGhosts>>

(* The archive holds the target's binary or, released by mistake, another   *)
(* one; it may have been overwritten since its checksum was taken.          *)
extractBinary(u) ==
  /\ archive \in {"good", "bad"}
  /\ UpTo(u, "extract", "probe")
  /\ stagedBin' \in IF archive = "good" THEN {"new", "wrong"} ELSE {"bad"}
  /\ UNCHANGED <<didCordon, upTries, restartAsked, archive, bin, bak, stranded, daemon, cordoned, job, deaths, upGhosts>>

(* A binary that does not run or reports another version aborts; a damaged *)
(* one may still report the right one.                                     *)
probeVersion(u) ==
  /\ stagedBin \in {"new", "bad"}
  /\ UpTo(u, "probe", "swap")
  /\ UNCHANGED <<didCordon, upTries, restartAsked, upFiles, daemon, cordoned, job, deaths, upGhosts>>

(* swapBinary: an old backup goes, the binary moves aside, the staged one  *)
(* moves in, and the backup moves back when that fails.  Nothing keeps     *)
(* another upgrade's swap out.                                             *)
RemoveBackup(u) ==
  /\ UpTo(u, "swap", "moving")
  /\ bak' \in {"none", bak}                            \* an error is ignored
  /\ crossed' = (crossed \/ OthersIn(u, Swapping))
  /\ UNCHANGED <<didCordon, upTries, restartAsked, archive, stagedBin, bin, stranded, daemon, cordoned, job, deaths,
                 mixed, spoilt>>

swapBinary_InPlace(u) ==
  /\ bak' = "none" /\ bin' = "none"
  /\ UpTo(u, "moving", "aside")
  /\ UNCHANGED <<didCordon, upTries, restartAsked, archive, stagedBin, stranded, daemon, cordoned, job, deaths, upGhosts>>

swapBinary(u) ==
  /\ bin # "none" /\ bak' = bin /\ bin' = "none"
  /\ UpTo(u, "moving", "aside")
  /\ UNCHANGED <<didCordon, upTries, restartAsked, archive, stagedBin, stranded, daemon, cordoned, job, deaths, upGhosts>>

MoveAsideFails(u) ==
  /\ upAt[u] = "moving" /\ Fail(u)
  /\ UNCHANGED <<upTries, restartAsked, bin, bak, stranded, daemon, job, deaths, mixed, crossed>>

MoveIn(u) ==
  /\ stagedBin # "none"
  /\ UpTo(u, "aside", "leave")
  /\ bin' = stagedBin /\ stagedBin' = "none"
  /\ UNCHANGED <<didCordon, upTries, restartAsked, archive, bak, stranded, daemon, cordoned, job, deaths, upGhosts>>

MoveInFails(u) ==
  /\ UpTo(u, "aside", "rollback")
  /\ UNCHANGED <<didCordon, upTries, restartAsked, upFiles, daemon, cordoned, job, deaths, upGhosts>>

Rollback(u) ==
  /\ upAt[u] = "rollback" /\ Fail(u)
  /\ \/ bak # "none" /\ bin' = bak /\ bak' = "none" /\ UNCHANGED stranded
     \/ stranded' = TRUE /\ UNCHANGED <<bin, bak>>     \* the rollback failed too
  /\ UNCHANGED <<upTries, restartAsked, daemon, job, deaths, mixed, crossed>>

(* Run returns with its supervisor started, and takes the staging directory along. *)
LeaveStage(u) ==
  /\ UpTo(u, "leave", "delay")
  /\ archive' = "gone" /\ stagedBin' = "none"
  /\ UNCHANGED <<didCordon, upTries, restartAsked, bin, bak, stranded, daemon, cordoned, job, deaths, upGhosts>>

(* superviseRestart: each request is refused or accepted; the watchdog     *)
(* then waits for a shutdown, and after the last one the node is undrained.*)
superviseRestart(u) ==
  /\ UpTo(u, "delay", "restart")
  /\ UNCHANGED <<didCordon, upTries, restartAsked, upFiles, daemon, cordoned, job, deaths, upGhosts>>

triggerRestart(u) ==
  /\ UpTo(u, "restart", "watch")
  /\ upTries' = [upTries EXCEPT ![u] = @ + 1]
  /\ restartAsked' \in {restartAsked, TRUE}
  /\ UNCHANGED <<didCordon, upFiles, daemon, cordoned, job, deaths, upGhosts>>

waitUnlessShutdown(u) ==
  /\ upAt[u] = "watch"
  /\ IF upTries[u] < RestartAttempts
     THEN UpTo(u, "watch", "restart") /\ UNCHANGED <<didCordon, cordoned, spoilt>>
     ELSE UpTo(u, "watch", "over") /\ undrain(u)
  /\ UNCHANGED <<upTries, restartAsked, upFiles, daemon, job, deaths, mixed, crossed>>

(* The daemon goes, by a restart that was asked for or by itself, with     *)
(* what its memory held; the service manager starts the installed binary.  *)
DaemonGoes ==
  /\ daemon' = "down" /\ restartAsked' = FALSE /\ cordoned' = FALSE /\ didCordon' = {} /\ spoilt' = {}
  /\ upAt' = [u \in Upgrades |-> IF upAt[u] = "new" THEN "new" ELSE "over"]
  /\ job' = "none"
  /\ UNCHANGED <<upTries, upFiles, mixed, crossed>>

RestartTakes == restartAsked /\ daemon # "down" /\ DaemonGoes /\ UNCHANGED deaths

DaemonDies == daemon # "down" /\ deaths < MaxDaemonDeaths /\ DaemonGoes /\ deaths' = deaths + 1

UpBoots ==
  /\ daemon = "down" /\ bin \in {"old", "new", "wrong"}
  /\ daemon' = bin
  /\ UNCHANGED <<upAt, didCordon, upTries, restartAsked, upFiles, cordoned, job, deaths, upGhosts>>

(* The operator's cordon and its end, over the same flag. *)
Cordon ==
  /\ daemon # "down" /\ ~cordoned /\ cordoned' = TRUE
  /\ UNCHANGED <<upAt, didCordon, upTries, restartAsked, upFiles, daemon, job, deaths, upGhosts>>

Uncordon ==
  /\ cordoned /\ cordoned' = FALSE /\ spoilt' = spoilt \cup didCordon
  /\ UNCHANGED <<upAt, didCordon, upTries, restartAsked, upFiles, daemon, job, deaths, mixed, crossed>>

(* The scheduler: past the claim's gate on a node that is not cordoned, and *)
(* among s.running when its runner has been provisioned.                    *)
ClaimJob ==
  /\ job = "none" /\ daemon # "down" /\ ~cordoned /\ job' = "claimed"
  /\ UNCHANGED <<upAt, didCordon, upTries, restartAsked, upFiles, daemon, cordoned, deaths, upGhosts>>

JobStarts ==
  /\ job = "claimed" /\ job' = "running"
  /\ UNCHANGED <<upAt, didCordon, upTries, restartAsked, upFiles, daemon, cordoned, deaths, upGhosts>>

JobEnds ==
  /\ job # "none" /\ job' = "none"
  /\ UNCHANGED <<upAt, didCordon, upTries, restartAsked, upFiles, daemon, cordoned, deaths, upGhosts>>

UpgradeStep(u) ==
  \/ Run(u) \/ waitDrain(u) \/ Aborted(u) \/ MakeStage(u) \/ downloadFile(u) \/ verifyChecksum(u)
  \/ extractBinary(u) \/ probeVersion(u) \/ RemoveBackup(u) \/ swapBinary(u) \/ MoveAsideFails(u) \/ MoveIn(u)
  \/ MoveInFails(u) \/ Rollback(u) \/ LeaveStage(u) \/ superviseRestart(u) \/ triggerRestart(u) \/ waitUnlessShutdown(u)

UpgradeNext ==
  \/ \E u \in Upgrades : UpgradeStep(u)
  \/ RestartTakes \/ DaemonDies \/ UpBoots \/ Cordon \/ Uncordon \/ ClaimJob \/ JobStarts \/ JobEnds

(* Every phase is bounded by a timeout: the drain, the stall and install   *)
(* budgets, the probe's limit and the supervisor's watchdog.               *)
UpgradeFairness == \A u \in Upgrades : WF_upgradeVars(upAt[u] # "new" /\ UpgradeStep(u))

UpgradeSpec == UpgradeInit /\ [][UpgradeNext]_upgradeVars /\ UpgradeFairness

-----------------------------------------------------------------------------
(* Only a binary that passed its checksum and reported the target version  *)
(* is ever installed or kept, as long as no two upgrades shared the staging *)
(* directory.  And the node is never without a binary, at the install path *)
(* or beside it, a crash between the two renames included, even when       *)
(* upgrades shared all but the swap itself.  (Once a rollback has failed   *)
(* the backup is the only one left, and another attempt begins by removing *)
(* it; two swaps at once can lose both.)                                   *)
SwapRecoverable ==
  /\ ~mixed => {bin, bak} \subseteq {"none", "old", "new"}
  /\ bin = "none" /\ ~stranded /\ ~crossed => bak # "none"

(* Past its drain an upgrade that cordoned the node has no job running     *)
(* that its restart would interrupt, unless the cordon was lifted under it *)
(* or the drain, which counts s.running alone, ended with a job between    *)
(* its claim and its tracking.                                             *)
DrainedFirst == \A u \in didCordon \ spoilt : upAt[u] \in Installing => job # "running"

(* "The cordon is never allowed to outlive a failed upgrade": a node that  *)
(* an upgrade cordoned accepts jobs again or goes down for its restart.    *)
CordonReleased == didCordon # {} ~> ~cordoned
=============================================================================
