----------------------------- MODULE ModuleCache -----------------------------
(***************************************************************************)
(* One file of the Go module cache (pkg/proxies/go): the requests for it,  *)
(* the pruner, which takes no lock, a daemon that dies, and the shutdown   *)
(* with its optional removal of the cache.  A request looks for the file,  *)
(* takes the path's mutex, looks again, and downloads into a temporary     *)
(* file beside it while the client reads along.                            *)
(***************************************************************************)
EXTENDS Integers

CONSTANTS
  Fetches,      \* requests for the file, each made once
  MaxPrunes,    \* a bound on the passes of the pruner
  MaxModCrash   \* a bound on the restarts of the daemon

NoFetch == "none"
Absent == "absent"
Whole == "whole"
Part == "part"
Orphan == "orphan"    \* a temporary file of a daemon that died

ASSUME ModuleCacheAssumption ==
  MaxPrunes \in Nat /\ MaxModCrash \in Nat /\ NoFetch \notin Fetches /\ Orphan \notin Fetches

VARIABLES
  modFile,     \* what is at the cache path
  modDir,      \* the directory of the module exists
  modTemps,    \* the temporary files in it, by owner
  modLock,     \* the holder of the path's mutex
  modAt,       \* where a request is
  modGot,      \* what its client has
  modPruneAt,     \* where the pruner is
  prunes,      \* passes so far
  modStop,     \* where Stop is
  modDead      \* restarts so far

modFiles == <<modFile, modDir, modTemps>>
modPruner == <<modPruneAt, prunes>>
modVars == <<modFiles, modLock, modAt, modGot, modPruner, modStop, modDead>>

Locked == {"restat", "reserve", "get", "mkdir", "temp", "copy", "rename"}
Downloading == {"copy", "rename"}

ModuleTypeOK ==
  /\ modFile \in {Absent, Whole, Part} /\ modDir \in BOOLEAN /\ modTemps \subseteq Fetches \cup {Orphan}
  /\ modAt \in [Fetches -> {"idle", "stat", "serve", "lock", "done"} \cup Locked]
  /\ modGot \in [Fetches -> {"nothing", "failed", "notFound", Whole, Part}]
  /\ modLock \in Fetches \cup {NoFetch} /\ \A f \in Fetches : modAt[f] \in Locked => modLock = f
  /\ (modFile # Absent \/ modTemps # {}) => modDir

ModuleInit ==
  /\ modFile = Absent /\ modDir = FALSE /\ modTemps = {} /\ modLock = NoFetch
  /\ modAt = [f \in Fetches |-> "idle"] /\ modGot = [f \in Fetches |-> "nothing"]
  /\ modPruneAt = "idle" /\ prunes = 0 /\ modStop = "no" /\ modDead = 0

Turns(f, p) == modAt' = [modAt EXCEPT ![f] = p]

\* The handler returns; a deferred Unlock goes with it.
Returns(f, what) ==
  /\ Turns(f, "done") /\ modGot' = [modGot EXCEPT ![f] = what]
  /\ modLock' = IF modLock = f THEN NoFetch ELSE modLock

\* handle: a .info, .mod or .zip (everything else is forwarded uncached).
handle(f) ==
  /\ modAt[f] = "idle" /\ modStop = "no" /\ Turns(f, "stat")
  /\ UNCHANGED <<modFiles, modLock, modGot, modPruner, modStop, modDead>>

\* cacheAndServe looks for the file, without the mutex and then with it.
Stat(f) ==
  /\ \/ modAt[f] = "stat" /\ Turns(f, IF modFile # Absent THEN "serve" ELSE "lock")
     \/ modAt[f] = "restat" /\ Turns(f, IF modFile # Absent THEN "reserve" ELSE "get")
  /\ UNCHANGED <<modFiles, modLock, modGot, modPruner, modStop, modDead>>

\* touch and ServeFile open the path again: the pruner may have been there.
ServeFile(f) ==
  /\ modAt[f] \in {"serve", "reserve"}
  /\ Returns(f, IF modFile = Absent THEN "notFound" ELSE modFile)
  /\ UNCHANGED <<modFiles, modPruner, modStop, modDead>>

getInflightMutex(f) ==
  /\ modAt[f] = "lock" /\ modLock = NoFetch /\ modLock' = f /\ Turns(f, "restat")
  /\ UNCHANGED <<modFiles, modGot, modPruner, modStop, modDead>>

upstreamGet_KeepsLock(f) ==
  /\ modAt[f] = "get"
  /\ \/ Turns(f, "mkdir") /\ UNCHANGED modGot
     \/ Turns(f, "done") /\ modGot' = [modGot EXCEPT ![f] = "failed"]
  /\ UNCHANGED <<modFiles, modLock, modPruner, modStop, modDead>>

\* No answer, or one that is not a 200, is passed on.
upstreamGet(f) ==
  /\ modAt[f] = "get"
  /\ \/ modStop \notin {"cancelled", "stopped"} /\ Turns(f, "mkdir") /\ UNCHANGED <<modGot, modLock>>
     \/ Returns(f, "failed")
  /\ UNCHANGED <<modFiles, modPruner, modStop, modDead>>

MkdirAll(f) ==
  /\ modAt[f] = "mkdir" /\ modDir' = TRUE /\ Turns(f, "temp")
  /\ UNCHANGED <<modFile, modTemps, modLock, modGot, modPruner, modStop, modDead>>

\* Without a directory (the pruner took the empty one) or a temporary file
\* the client is served and nothing is cached.
CreateTemp(f) ==
  /\ modAt[f] = "temp"
  /\ \/ modDir /\ modTemps' = modTemps \cup {f} /\ Turns(f, "copy") /\ UNCHANGED <<modGot, modLock>>
     \/ UNCHANGED modTemps /\ \E what \in {Whole, Part} : Returns(f, what)
  /\ UNCHANGED <<modFile, modDir, modPruner, modStop, modDead>>

TeeDone(f) ==
  /\ modAt[f] = "copy" /\ Turns(f, "rename") /\ modGot' = [modGot EXCEPT ![f] = Whole]
  /\ UNCHANGED <<modFiles, modLock, modPruner, modStop, modDead>>

\* The upstream, the client or the disk fails: the temporary file goes.
TeeFails(f) ==
  /\ modAt[f] = "copy" /\ Returns(f, Part) /\ modTemps' = modTemps \ {f}
  /\ UNCHANGED <<modFile, modDir, modPruner, modStop, modDead>>

\* Close and Rename; either may fail.  The tee has given the temporary file
\* what it gave the client.
Rename(f) ==
  /\ modAt[f] = "rename" /\ Returns(f, modGot[f]) /\ modTemps' = modTemps \ {f}
  /\ modFile' \in IF f \in modTemps THEN {modFile, modGot[f]} ELSE {modFile}
  /\ UNCHANGED <<modDir, modPruner, modStop, modDead>>

FetchStep(f) ==
  \/ Stat(f) \/ ServeFile(f) \/ getInflightMutex(f) \/ upstreamGet(f) \/ MkdirAll(f)
  \/ CreateTemp(f) \/ TeeDone(f) \/ TeeFails(f) \/ Rename(f)

-----------------------------------------------------------------------------
\* Prune: the walk, which may find the cache over its limit and the file among
\* the oldest; a temporary file counts and is not a candidate.
Prune ==
  /\ modPruneAt = "idle" /\ prunes < MaxPrunes /\ modStop = "no" /\ prunes' = prunes + 1
  /\ modPruneAt' \in IF modFile # Absent THEN {"remove", "dirs"} ELSE {"dirs"}
  /\ UNCHANGED <<modFiles, modLock, modAt, modGot, modStop, modDead>>

\* The removal takes whatever is at the path by then.
PruneRemoves ==
  /\ modPruneAt = "remove" /\ modPruneAt' = "dirs" /\ modFile' \in {modFile, Absent}
  /\ UNCHANGED <<modDir, modTemps, prunes, modLock, modAt, modGot, modStop, modDead>>

\* os.Remove refuses a directory that is not empty.
removeEmptyDirs ==
  /\ modPruneAt = "dirs" /\ modPruneAt' = "idle"
  /\ modDir' = (modDir /\ (modFile # Absent \/ modTemps # {}))
  /\ UNCHANGED <<modFile, modTemps, prunes, modLock, modAt, modGot, modStop, modDead>>

\* Stop: no further pass, no new requests; a pass under way is not waited for.
StopProxy ==
  /\ modStop = "no" /\ modStop' = "draining"
  /\ UNCHANGED <<modFiles, modLock, modAt, modGot, modPruner, modDead>>

\* Shutdown waits for the requests, or for its grace and then cancels them.
BodyDrained ==
  /\ modStop = "draining"
  /\ modStop' \in IF \A f \in Fetches : modAt[f] \in {"idle", "done"} THEN {"cancelled"} ELSE {"draining", "cancelled"}
  /\ UNCHANGED <<modFiles, modLock, modAt, modGot, modPruner, modDead>>

\* RemoveAll, when the cache does not outlive the daemon.
CleanupFetch ==
  /\ modStop = "cancelled" /\ modStop' = "stopped"
  /\ \/ modFile' = Absent /\ modDir' = FALSE /\ modTemps' = {}
     \/ UNCHANGED modFiles
  /\ UNCHANGED <<modLock, modAt, modGot, modPruner, modDead>>

\* The daemon dies; its temporary file stays behind.
ModCrash ==
  /\ modDead < MaxModCrash /\ modDead' = modDead + 1
  /\ modTemps' = (IF modTemps = {} THEN {} ELSE {Orphan}) /\ modLock' = NoFetch
  /\ modAt' = [f \in Fetches |-> IF modAt[f] = "idle" THEN "idle" ELSE "done"]
  /\ modPruneAt' = "idle" /\ modStop' = "no"
  /\ UNCHANGED <<modFile, modDir, modGot, prunes>>

ModuleNext ==
  \/ \E f \in Fetches : handle(f) \/ FetchStep(f)
  \/ Prune \/ PruneRemoves \/ removeEmptyDirs \/ StopProxy \/ BodyDrained \/ CleanupFetch \/ ModCrash

ModuleFairness == \A f \in Fetches : WF_modVars(FetchStep(f))

ModuleSpec == ModuleInit /\ [][ModuleNext]_modVars /\ ModuleFairness

-----------------------------------------------------------------------------
\* A file in the cache is whole, whatever broke off, was pruned or crashed
\* while it was downloaded: only a download that ended is renamed.  A module
\* file is served to every later build.
CachedIsWhole == modFile # Part

\* Every temporary file belongs to a download in progress or to a daemon that
\* died: Prune counts them and never removes one.
TempsOwned == \A f \in Fetches : f \in modTemps => modAt[f] \in Downloading

\* Every request ends, and with it the path's mutex is free again.
FetchEnds == \A f \in Fetches : modAt[f] = "stat" ~> modAt[f] = "done"
=============================================================================
