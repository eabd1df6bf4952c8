-------------------------------- MODULE Build --------------------------------
(***************************************************************************)
(* docker build (pkg/dind, pkg/buildkit).  All jobs build in one embedded  *)
(* BuildKit: a core behind a mutex, and a metadata store on disk.  A build *)
(* whose solve trips over a record that containerd no longer backs repairs *)
(* the shared store (prune, then rebuild, then give up, per record) and is *)
(* tried once more.  Rebuild replaces the core under every other build.    *)
(***************************************************************************)
EXTENDS Integers, FiniteSets

CONSTANTS
  Builds,         \* build requests
  BuildKeys,           \* the records that may dangle
  MaxPoisoned,    \* a bound on how often a record goes bad
  MaxCoreFails    \* a bound on the cores that cannot be constructed

NoBuild == "nobody"
Closer == "Close"
NoKey == "no key"

ASSUME BuildAssumption ==
  /\ MaxPoisoned \in Nat /\ MaxCoreFails \in Nat
  /\ {NoBuild, Closer} \cap Builds = {}

VARIABLES
  bldAt,      \* where a build is
  bldKey,     \* the record its first solve tripped over
  bldTry,     \* solves it has begun
  bldGone,    \* builds whose client has hung up
  mu,         \* who holds Server.mu for writing
  core,       \* s.core: "open", "closed" or "nil"
  store,      \* cfg.DataDir: the store of the core, "here"; nothing, once it is
              \* "moved" to its quarantine; or what a core that could not be
              \* constructed began, "debris"
  ladder,     \* Healer.seen
  poison,     \* what it takes to cure a record: "none", "prune", "rebuild"
  poisoned,   \* records that went bad so far
  coreFails,  \* cores that could not be constructed
  bkShut,     \* Close has run: the daemon is on its way out
  closedTwice \* close(c.stop) ran on a closed channel: a panic

coreVars == <<mu, core, store, ladder, coreFails, bkShut, closedTwice>>
buildVars == <<bldAt, bldKey, bldTry, bldGone, coreVars, poison, poisoned>>

BuildPoints == {"idle", "dial", "solving", "heal", "prune", "rebuildWaits", "closing", "moving",
                "hung", "ok", "failed"}
Repairing == {"closing", "moving"}

BuildTypeOK ==
  /\ bldAt \in [Builds -> BuildPoints] /\ bldKey \in [Builds -> BuildKeys \cup {NoKey}]
  /\ bldTry \in [Builds -> 0..2] /\ bldGone \subseteq Builds
  /\ mu \in Builds \cup {NoBuild, Closer} /\ (mu \in Builds <=> \E b \in Builds : bldAt[b] \in Repairing)
  /\ core \in {"open", "closed", "nil"} /\ store \in {"here", "moved", "debris"}
  /\ ladder \in [BuildKeys -> {"none", "prune", "rebuild", "giveUp"}]
  /\ poison \in [BuildKeys -> {"none", "prune", "rebuild"}]

BuildInit ==
  /\ bldAt = [b \in Builds |-> "idle"] /\ bldKey = [b \in Builds |-> NoKey]
  /\ bldTry = [b \in Builds |-> 0] /\ bldGone = {} /\ mu = NoBuild /\ core = "open" /\ store = "here"
  /\ ladder = [k \in BuildKeys |-> "none"] /\ poison = [k \in BuildKeys |-> "none"] /\ poisoned = 0
  /\ coreFails = 0 /\ bkShut = FALSE /\ closedTwice = FALSE

GoTo(b, p) == bldAt' = [bldAt EXCEPT ![b] = p]

\* The context is unpacked and the options are translated, or the request is
\* refused before it reaches BuildKit.
handleImageBuild(b) ==
  /\ bldAt[b] = "idle"
  /\ \E p \in {"dial", "failed"} : GoTo(b, p)
  /\ UNCHANGED <<bldKey, bldTry, bldGone, coreVars, poison, poisoned>>

\* Build: a client of the core s.core points at.  Of a closed server there is
\* none, Solve is never called, nobody closes statusCh and runSolve waits.
Dial(b) ==
  /\ bldAt[b] = "dial" /\ mu = NoBuild
  /\ bldTry' = [bldTry EXCEPT ![b] = @ + 1]
  /\ GoTo(b, CASE core = "open" -> "solving" [] core = "closed" -> "failed" [] OTHER -> "hung")
  /\ UNCHANGED <<bldKey, bldGone, coreVars, poison, poisoned>>

\* A solve that succeeds after a repair forgets the key, so that the next corruption starts at the cheap rung.
SolveOk(b) ==
  /\ bldAt[b] = "solving" /\ GoTo(b, "ok")
  /\ ladder' = IF bldKey[b] = NoKey THEN ladder ELSE [ladder EXCEPT ![bldKey[b]] = "none"]
  /\ UNCHANGED <<bldKey, bldTry, bldGone, mu, core, store, coreFails, bkShut, closedTwice, poison, poisoned>>

SolveFails(b) ==
  /\ bldAt[b] = "solving" /\ GoTo(b, "failed")
  /\ UNCHANGED <<bldKey, bldTry, bldGone, coreVars, poison, poisoned>>

\* The solve names a dangling record.  A second failure is final.
SolveDangles(b) ==
  /\ bldAt[b] = "solving"
  /\ \E k \in BuildKeys :
       /\ poison[k] # "none"
       /\ IF bldTry[b] = 1 THEN GoTo(b, "heal") /\ bldKey' = [bldKey EXCEPT ![b] = k]
                           ELSE GoTo(b, "failed") /\ UNCHANGED bldKey
  /\ UNCHANGED <<bldTry, bldGone, coreVars, poison, poisoned>>

nextID(rung) == CASE rung = "none" -> "prune" [] rung = "prune" -> "rebuild" [] OTHER -> "giveUp"

\* Healer.Next, and the check of the context in front of the repair.
healAndRetryBuild(b) ==
  /\ bldAt[b] = "heal"
  /\ LET rung == nextID(ladder[bldKey[b]]) IN
       /\ ladder' = [ladder EXCEPT ![bldKey[b]] = rung]
       /\ GoTo(b, CASE rung = "giveUp" \/ b \in bldGone -> "failed"
                    [] rung = "prune" -> "prune"
                    [] OTHER -> "rebuildWaits")
  /\ UNCHANGED <<bldKey, bldTry, bldGone, mu, core, store, coreFails, bkShut, closedTwice, poison, poisoned>>

\* PruneAll over a client of its own.  It cures what it can enumerate; a prune
\* that fails under a live context is escalated at once.
PruneAll(b) ==
  /\ bldAt[b] = "prune" /\ mu = NoBuild
  /\ \/ /\ core = "open" /\ b \notin bldGone /\ GoTo(b, "dial")
        /\ poison' = [k \in BuildKeys |-> IF poison[k] = "prune" THEN "none" ELSE poison[k]]
     \/ GoTo(b, IF b \in bldGone THEN "failed" ELSE "rebuildWaits") /\ UNCHANGED poison
  /\ UNCHANGED <<bldKey, bldTry, bldGone, coreVars, poisoned>>

\* Rebuild takes the mutex and closes the core.  close(c.stop) panics on a
\* core that an earlier Rebuild closed and could not replace: the handler
\* recovers and the build fails.
Rebuild(b) ==
  /\ bldAt[b] = "rebuildWaits" /\ mu = NoBuild
  /\ IF core = "closed"
     THEN GoTo(b, "failed") /\ closedTwice' = TRUE /\ UNCHANGED <<mu, core>>
     ELSE /\ GoTo(b, "closing") /\ mu' = b /\ UNCHANGED closedTwice
          /\ core' = IF core = "open" THEN "closed" ELSE core
  /\ UNCHANGED <<bldKey, bldTry, bldGone, store, ladder, coreFails, bkShut, poison, poisoned>>

GracefulStop_Stop(b) ==
  /\ bldAt[b] = "closing"
  /\ GoTo(b, "moving") /\ store' = "moved"
  /\ UNCHANGED <<bldKey, bldTry, bldGone, mu, core, ladder, coreFails, bkShut, closedTwice, poison, poisoned>>

\* GracefulStop waits for the calls in flight; then the store is renamed to
\* its quarantine, or the rename fails and the closed core stays.
GracefulStop(b) ==
  /\ bldAt[b] = "closing" /\ \A c \in Builds : bldAt[c] # "solving"
  /\ \/ GoTo(b, "moving") /\ store' = "moved" /\ UNCHANGED mu
     \/ GoTo(b, "failed") /\ mu' = NoBuild /\ UNCHANGED store
  /\ UNCHANGED <<bldKey, bldTry, bldGone, core, ladder, coreFails, bkShut, closedTwice, poison, poisoned>>

\* newCore over an empty directory, with the request's context.  When it fails
\* s.core still points at the core that was closed, and the old store is to come
\* back; but the directory that newCore made first is in the way of the rename,
\* which only works when not even that could be made.
newCore(b) ==
  /\ bldAt[b] = "moving" /\ mu' = NoBuild
  /\ \/ /\ core' = "open" /\ store' = "here" /\ GoTo(b, "dial")
        /\ poison' = [k \in BuildKeys |-> "none"] /\ UNCHANGED coreFails
     \/ /\ coreFails < MaxCoreFails /\ coreFails' = coreFails + 1
        /\ store' \in {"here", "moved", "debris"}
        /\ GoTo(b, "failed") /\ UNCHANGED <<core, poison>>
  /\ UNCHANGED <<bldKey, bldTry, bldGone, ladder, bkShut, closedTwice, poisoned>>

\* Close, once, on the way out of the daemon: the core is closed under the
\* mutex and dropped when its calls have ended.
Close ==
  /\ mu = NoBuild /\ ~bkShut /\ bkShut' = TRUE /\ mu' = Closer /\ core' = "closed"
  /\ closedTwice' = (closedTwice \/ core = "closed")
  /\ UNCHANGED <<bldAt, bldKey, bldTry, bldGone, store, ladder, coreFails, poison, poisoned>>

CloseReturns ==
  /\ mu = Closer /\ \A c \in Builds : bldAt[c] # "solving"
  /\ mu' = NoBuild /\ core' = "nil"
  /\ UNCHANGED <<bldAt, bldKey, bldTry, bldGone, store, ladder, coreFails, bkShut, closedTwice, poison, poisoned>>

\* containerd loses a snapshot or a lease that a record refers to (external).
Poison(k) ==
  /\ poisoned < MaxPoisoned /\ poison[k] = "none" /\ poisoned' = poisoned + 1
  /\ \E cure \in {"prune", "rebuild"} : poison' = [poison EXCEPT ![k] = cure]
  /\ UNCHANGED <<bldAt, bldKey, bldTry, bldGone, coreVars>>

\* The client of a build hangs up: its context ends (external).
BuildHangUp(b) ==
  /\ bldAt[b] \in {"dial", "solving", "heal", "prune"} /\ bldGone' = bldGone \cup {b}
  /\ UNCHANGED <<bldAt, bldKey, bldTry, coreVars, poison, poisoned>>

BuildStep(b) ==
  \/ Dial(b) \/ SolveOk(b) \/ SolveFails(b) \/ SolveDangles(b) \/ healAndRetryBuild(b)
  \/ PruneAll(b) \/ Rebuild(b) \/ GracefulStop(b) \/ newCore(b)

BuildNext ==
  \/ \E b \in Builds :
       handleImageBuild(b) \/ BuildStep(b) \/ BuildHangUp(b)
  \/ \E k \in BuildKeys : Poison(k)
  \/ Close \/ CloseReturns

BuildFairness ==
  /\ \A b \in Builds : WF_buildVars(BuildStep(b))
  /\ WF_buildVars(CloseReturns)

BuildSpec == BuildInit /\ [][BuildNext]_buildVars /\ BuildFairness

-----------------------------------------------------------------------------
\* No build solves, or finds a core to solve with, while the core's store is not
\* in its place: whoever takes the mutex closes the core to new calls and outwaits
\* those in flight before the store moves, and a repair that fails half-way leaves
\* the closed core behind and not a new one over what it began.
StoreMovesIdle ==
  store # "here" => core # "open" /\ \A b \in Builds : bldAt[b] # "solving"

\* Every build request is answered while the daemon lives, whatever other builds
\* do to the core: the repairs they queue on the mutex end, and nobody is left at
\* a core that is gone.
BuildAnswered ==
  \A b \in Builds : bldAt[b] = "dial" ~> bldAt[b] \in {"ok", "failed"} \/ bkShut
=============================================================================
