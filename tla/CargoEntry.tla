------------------------------ MODULE CargoEntry ------------------------------
(***************************************************************************)
(* One cached document of the Cargo proxy (pkg/proxies/cargo, fetchCached): *)
(* an index page, the registry's config.json, a crate or a rustup file.    *)
(* The body and its sidecar are two files, each replaced atomically; a     *)
(* request reads both without a lock first, then under the entry's mutex.  *)
(* There is no eviction.  The whole answer is held in memory, so a client  *)
(* gets a complete one or is sent to the origin.                           *)
(***************************************************************************)
EXTENDS Integers

CONSTANTS
  Crates,        \* requests for the document, each made once
  MaxRelease,    \* a bound on the versions upstream publishes
  MaxDeaths      \* a bound on the restarts of the daemon

Nobody == "nobody"

ASSUME CargoEntryAssumption == MaxRelease \in Nat \ {0} /\ MaxDeaths \in Nat /\ Nobody \notin Crates

NoSidecar == [v |-> 0, fresh |-> FALSE]

VARIABLES
  release,      \* the version upstream has
  fixed,        \* the path is immutable: a crate, a dated toolchain
  crateBody,    \* the version on disk, 0 for none
  sidecar,      \* the validators on disk, and whether they are within the TTL
  lockFor,      \* who holds the entry's mutex
  crateAt,      \* where a request is
  readBody,     \* the body it has read
  readSide,     \* the sidecar it has read
  fetched,      \* the body it has downloaded
  crateAsked,   \* history: upstream's version when it came in
  crateAnswer,  \* its answer, as in PullThrough
  crateDeaths        \* restarts so far

crateFiles == <<crateBody, sidecar>>
crateReqs == <<readBody, readSide, fetched, crateAsked>>
crateVars == <<release, fixed, crateFiles, lockFor, crateAt, crateReqs, crateAnswer, crateDeaths>>

Holding == {"reread", "ask", "writeBody", "writeSide"}

CrateTypeOK ==
  /\ release \in 1..MaxRelease /\ fixed \in BOOLEAN /\ crateBody \in 0..MaxRelease
  /\ sidecar \in [v : 0..MaxRelease, fresh : BOOLEAN] /\ lockFor \in Crates \cup {Nobody}
  /\ crateAt \in [Crates -> {"idle", "body", "side", "lock", "done"} \cup Holding]
  /\ \A c \in Crates : crateAt[c] \in Holding => lockFor = c

CrateInit ==
  /\ release = 1 /\ fixed \in BOOLEAN /\ crateBody = 0 /\ sidecar = NoSidecar /\ lockFor = Nobody
  /\ crateAt = [c \in Crates |-> "idle"] /\ readBody = [c \in Crates |-> 0]
  /\ readSide = [c \in Crates |-> NoSidecar] /\ fetched = [c \in Crates |-> 0]
  /\ crateAsked = [c \in Crates |-> 0] /\ crateAnswer = [c \in Crates |-> [kind |-> "none", v |-> 0]]
  /\ crateDeaths = 0

To(c, p) == crateAt' = [crateAt EXCEPT ![c] = p]

Answers(c, k, v) ==
  /\ To(c, "done") /\ crateAnswer' = [crateAnswer EXCEPT ![c] = [kind |-> k, v |-> v]]
  /\ lockFor' = IF lockFor = c THEN Nobody ELSE lockFor

\* handle: the route of an index page, config.json, a crate or a rustup file.
CrateRequest(c) ==
  /\ crateAt[c] = "idle" /\ To(c, "body")
  /\ crateAsked' = [crateAsked EXCEPT ![c] = release]
  /\ crateAnswer' = [crateAnswer EXCEPT ![c] = [kind |-> "pending", v |-> 0]]
  /\ UNCHANGED <<release, fixed, crateFiles, lockFor, readBody, readSide, fetched, crateDeaths>>

\* An immutable body and one within its TTL are served without asking.
decideFreshness(s) == fixed \/ s.fresh

\* readCache without the lock: the body, then the sidecar.
readCacheBody(c) ==
  /\ crateAt[c] = "body" /\ To(c, IF crateBody = 0 THEN "lock" ELSE "side")
  /\ readBody' = [readBody EXCEPT ![c] = crateBody]
  /\ UNCHANGED <<release, fixed, crateFiles, lockFor, readSide, fetched, crateAsked, crateAnswer, crateDeaths>>

readCacheSide(c) ==
  /\ crateAt[c] = "side"
  /\ IF decideFreshness(sidecar) THEN Answers(c, "cached", readBody[c])
     ELSE To(c, "lock") /\ UNCHANGED <<crateAnswer, lockFor>>
  /\ UNCHANGED <<release, fixed, crateFiles, crateReqs, crateDeaths>>

LockEntry(c) ==
  /\ crateAt[c] = "lock" /\ lockFor = Nobody /\ lockFor' = c /\ To(c, "reread")
  /\ UNCHANGED <<release, fixed, crateFiles, crateReqs, crateAnswer, crateDeaths>>

\* readCache under the lock, where nobody else writes.
reread(c) ==
  /\ crateAt[c] = "reread"
  /\ readBody' = [readBody EXCEPT ![c] = crateBody] /\ readSide' = [readSide EXCEPT ![c] = sidecar]
  /\ IF crateBody # 0 /\ decideFreshness(sidecar) THEN Answers(c, "cached", crateBody)
     ELSE To(c, "ask") /\ UNCHANGED <<crateAnswer, lockFor>>
  /\ UNCHANGED <<release, fixed, crateFiles, fetched, crateAsked, crateDeaths>>

\* No answer, a 5xx, or a body that breaks off: the stale copy, or the origin.
UpstreamFails(c) ==
  /\ crateAt[c] = "ask"
  /\ IF readBody[c] # 0 THEN Answers(c, "cached", readBody[c]) ELSE Answers(c, "origin", 0)
  /\ UNCHANGED <<release, fixed, crateFiles, crateReqs, crateDeaths>>

UpstreamGone(c) ==
  /\ crateAt[c] = "ask" /\ Answers(c, "notFound", 0)
  /\ UNCHANGED <<release, fixed, crateFiles, crateReqs, crateDeaths>>

\* 304: the validators in the sidecar name what upstream has; its time is renewed.
Unmodified(c) ==
  /\ crateAt[c] = "ask" /\ readBody[c] # 0 /\ readSide[c].v = release
  /\ Answers(c, "confirmed", readBody[c])
  /\ sidecar' \in {sidecar, [v |-> readSide[c].v, fresh |-> TRUE]}
  /\ UNCHANGED <<release, fixed, crateBody, crateReqs, crateDeaths>>

\* 200, read whole.
Downloaded(c) ==
  /\ crateAt[c] = "ask" /\ (readBody[c] = 0 \/ readSide[c].v # release)
  /\ fetched' = [fetched EXCEPT ![c] = release] /\ To(c, "writeBody")
  /\ UNCHANGED <<release, fixed, crateFiles, lockFor, readBody, readSide, crateAsked, crateAnswer, crateDeaths>>

\* writeCache: the body is renamed into place; if that fails, no sidecar is
\* written, and the client has its answer all the same.
writeCache(c) ==
  /\ crateAt[c] = "writeBody"
  /\ \/ crateBody' = fetched[c] /\ ~fixed /\ To(c, "writeSide") /\ UNCHANGED <<crateAnswer, lockFor>>
     \/ crateBody' = fetched[c] /\ fixed /\ Answers(c, "confirmed", fetched[c])
     \/ UNCHANGED crateBody /\ Answers(c, "confirmed", fetched[c])
  /\ UNCHANGED <<release, fixed, sidecar, crateReqs, crateDeaths>>

writeSidecar(c) ==
  /\ crateAt[c] = "writeSide" /\ Answers(c, "confirmed", fetched[c])
  /\ sidecar' \in {sidecar, [v |-> fetched[c], fresh |-> TRUE]}
  /\ UNCHANGED <<release, fixed, crateBody, crateReqs, crateDeaths>>

CrateStep(c) ==
  \/ readCacheBody(c) \/ readCacheSide(c) \/ LockEntry(c) \/ reread(c) \/ UpstreamFails(c)
  \/ UpstreamGone(c) \/ Unmodified(c) \/ Downloaded(c) \/ writeCache(c) \/ writeSidecar(c)

Ages ==
  /\ sidecar.fresh /\ sidecar' = [sidecar EXCEPT !.fresh = FALSE]
  /\ UNCHANGED <<release, fixed, crateBody, lockFor, crateAt, crateReqs, crateAnswer, crateDeaths>>

\* Upstream publishes (external).
Releases ==
  /\ ~fixed /\ release < MaxRelease /\ release' = release + 1
  /\ UNCHANGED <<fixed, crateFiles, lockFor, crateAt, crateReqs, crateAnswer, crateDeaths>>

\* The daemon dies between any two of these steps.
CrateDies ==
  /\ crateDeaths < MaxDeaths /\ crateDeaths' = crateDeaths + 1 /\ lockFor' = Nobody
  /\ crateAt' = [c \in Crates |-> IF crateAt[c] = "idle" THEN "idle" ELSE "done"]
  /\ crateAnswer' = [c \in Crates |-> IF crateAnswer[c].kind = "pending" THEN [kind |-> "broken", v |-> 0]
                                      ELSE crateAnswer[c]]
  /\ UNCHANGED <<release, fixed, crateFiles, crateReqs>>

CrateNext == Ages \/ Releases \/ CrateDies \/ \E c \in Crates : CrateRequest(c) \/ CrateStep(c)

CrateSpec == CrateInit /\ [][CrateNext]_crateVars /\ \A c \in Crates : WF_crateVars(CrateStep(c))

-----------------------------------------------------------------------------
\* The sidecar never vouches for newer bytes than the body holds, over crashes
\* and failed writes: upstream would answer 304 and a stale index pass for
\* the current one for good.
SidecarNeverAhead == crateBody # 0 /\ ~fixed => sidecar.v <= crateBody

\* Every request is answered, and the entry's mutex is free again.
CrateServed == \A c \in Crates : crateAt[c] = "body" ~> crateAt[c] = "done"

\* The entry keeps the promise of a pull-through cache.
CratePromise == INSTANCE PullThrough WITH Clients <- Crates, MaxVersion <- MaxRelease,
  published <- release, asked <- crateAsked, answer <- crateAnswer
CrateKeepsPromise == CratePromise!PullThroughSpec
=============================================================================
