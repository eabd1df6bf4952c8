------------------------------- MODULE PkgCache -------------------------------
(***************************************************************************)
(* One entry of a package cache (pkg/proxies/pkgcache): a body and, beside *)
(* it, a sidecar with the upstream validators and the time they were       *)
(* confirmed.  Requests read both without a lock first, then serialise on  *)
(* the key's lock and ask upstream.  An insert of another key may evict    *)
(* the entry at any time: eviction holds the index mutex and not the key's *)
(* lock, so it runs between any two file operations of a request.          *)
(*                                                                         *)
(* A version stands for the bytes upstream serves for the URL at a time;   *)
(* the validators in a sidecar name the version they were sent with.       *)
(***************************************************************************)
EXTENDS Integers

CONSTANTS
  Clients,      \* requests for the URL, each made once
  MaxVersion,   \* a bound on the versions upstream publishes
  MaxCrashes,   \* a bound on the restarts of the daemon
  MaxStuck      \* a bound on the bodies that cannot be removed

NoClient == "none"

ASSUME PkgCacheAssumption ==
  MaxVersion \in Nat \ {0} /\ MaxCrashes \in Nat /\ MaxStuck \in Nat /\ NoClient \notin Clients

NoMeta == [v |-> 0, fresh |-> FALSE]   \* what readMeta makes of a missing sidecar
Partial == MaxVersion + 1              \* the bytes of a download that broke off

VARIABLES
  upstream,    \* the version upstream has now
  immutable,   \* req.Immutable: upstream never replaces it
  body,        \* the version on disk, 0 for none
  meta,        \* the sidecar: validators, and whether it is within the TTL
  indexed,     \* the entry is in c.entries
  evictAt,     \* where an eviction of the entry is, under c.mu
  keyLock,     \* who holds Lock(key)
  pkgAt,          \* where a request is
  kind,        \* "document" or "artifact"
  seen,        \* the version of the file the request has open
  seenMeta,    \* the sidecar it read
  got,         \* the version it downloads
  asked,       \* history: upstream's version when it came in
  answer,      \* its answer, as in PullThrough
  pkgCrashes, \* restarts so far
  stuck        \* removals that failed so far

file == <<body, meta, indexed, evictAt, stuck>>
requests == <<kind, seen, seenMeta, got, asked>>
pkgVars == <<upstream, immutable, file, keyLock, pkgAt, requests, answer, pkgCrashes>>

PkgPoints == {"idle", "open", "meta", "lock", "reopen", "remeta", "ask", "askFull", "stage", "copy",
           "commit", "writeMeta", "admit", "done"}
Metas == [v : 0..MaxVersion, fresh : BOOLEAN]

PkgTypeOK ==
  /\ upstream \in 1..MaxVersion /\ immutable \in BOOLEAN
  /\ body \in 0..MaxVersion /\ meta \in Metas /\ indexed \in BOOLEAN
  /\ evictAt \in {"idle", "body", "meta", "index"} /\ keyLock \in Clients \cup {NoClient}
  /\ pkgAt \in [Clients -> PkgPoints]
  /\ \A c \in Clients : pkgAt[c] \in PkgPoints \ {"idle", "open", "meta", "lock", "done"} => keyLock = c

PkgInit ==
  /\ upstream = 1 /\ immutable \in BOOLEAN /\ body = 0 /\ meta = NoMeta /\ indexed = FALSE
  /\ evictAt = "idle" /\ keyLock = NoClient /\ pkgAt = [c \in Clients |-> "idle"]
  /\ kind = [c \in Clients |-> "document"] /\ seen = [c \in Clients |-> 0]
  /\ seenMeta = [c \in Clients |-> NoMeta] /\ got = [c \in Clients |-> 0]
  /\ asked = [c \in Clients |-> 0] /\ answer = [c \in Clients |-> [kind |-> "none", v |-> 0]]
  /\ pkgCrashes = 0 /\ stuck = 0

Goes(c, p) == pkgAt' = [pkgAt EXCEPT ![c] = p]

\* The request returns, and with it the key's lock.
Reply(c, k, v) ==
  /\ Goes(c, "done") /\ answer' = [answer EXCEPT ![c] = [kind |-> k, v |-> v]]
  /\ keyLock' = IF keyLock = c THEN NoClient ELSE keyLock

\* The client has its answer; the entry is still being installed.
Answered(c, k, v) == answer' = [answer EXCEPT ![c] = [kind |-> k, v |-> v]] /\ UNCHANGED keyLock

Ask(c, k) ==
  /\ pkgAt[c] = "idle" /\ Goes(c, "open")
  /\ kind' = [kind EXCEPT ![c] = k] /\ asked' = [asked EXCEPT ![c] = upstream]
  /\ answer' = [answer EXCEPT ![c] = [kind |-> "pending", v |-> 0]]
  /\ UNCHANGED <<upstream, immutable, file, keyLock, seen, seenMeta, got, pkgCrashes>>

\* Cache.Open, its first half: a handle on the body.
Open(c) ==
  /\ pkgAt[c] \in {"open", "reopen"}
  /\ seen' = [seen EXCEPT ![c] = body]
  /\ Goes(c, IF pkgAt[c] = "open" THEN IF body = 0 THEN "lock" ELSE "meta"
                               ELSE IF body = 0 THEN "askFull" ELSE "remeta")
  /\ UNCHANGED <<upstream, immutable, file, keyLock, kind, seenMeta, got, asked, answer, pkgCrashes>>

\* decide: a hit is immutable, or within its TTL.
decide(m) == immutable \/ m.fresh

\* Its second half, readMeta; a hit is served from the open file.
readMeta(c) ==
  /\ pkgAt[c] \in {"meta", "remeta"}
  /\ seenMeta' = [seenMeta EXCEPT ![c] = meta]
  /\ IF decide(meta) THEN Reply(c, "cached", seen[c])
     ELSE Goes(c, IF pkgAt[c] = "meta" THEN "lock" ELSE "ask") /\ UNCHANGED <<answer, keyLock>>
  /\ UNCHANGED <<upstream, immutable, file, kind, seen, got, asked, pkgCrashes>>

Lock(c) ==
  /\ pkgAt[c] = "lock" /\ keyLock = NoClient /\ keyLock' = c /\ Goes(c, "reopen")
  /\ UNCHANGED <<upstream, immutable, file, requests, answer, pkgCrashes>>

\* What upstream cannot answer is answered from the file, or by the origin.
ServeStale(c) ==
  /\ \/ pkgAt[c] = "ask" /\ kind[c] = "document" /\ Reply(c, "cached", seen[c])
     \/ pkgAt[c] = "ask" /\ kind[c] = "artifact" /\ Goes(c, "askFull") /\ UNCHANGED <<answer, keyLock>>
     \/ pkgAt[c] = "askFull" /\ Reply(c, "origin", 0)
  /\ UNCHANGED <<upstream, immutable, file, requests, pkgCrashes>>

\* 304: upstream still has the version the validators name.  refreshMeta
\* stamps the sidecar; an artifact is then opened again, and fetched in full
\* when it was evicted meanwhile.
NotModified(c) ==
  /\ pkgAt[c] = "ask" /\ seenMeta[c].v = upstream
  /\ \E m \in {meta, [v |-> upstream, fresh |-> TRUE]} : meta' = m
  /\ IF kind[c] = "document" THEN Reply(c, "confirmed", seen[c])
     ELSE IF body # 0 THEN Reply(c, "confirmed", body)
     ELSE Goes(c, "askFull") /\ UNCHANGED <<answer, keyLock>>
  /\ UNCHANGED <<upstream, immutable, body, indexed, evictAt, stuck, requests, pkgCrashes>>

NotFound(c) ==
  /\ pkgAt[c] = "askFull" \/ (pkgAt[c] = "ask" /\ kind[c] = "document")
  /\ Reply(c, "notFound", 0)
  /\ UNCHANGED <<upstream, immutable, file, requests, pkgCrashes>>

\* 200.  A document is read whole before anything is kept; an artifact's
\* conditional answer is dropped for a second, full request.
Ok(c) ==
  /\ pkgAt[c] = "askFull" \/ (pkgAt[c] = "ask" /\ seenMeta[c].v # upstream)
  /\ IF pkgAt[c] = "ask" /\ kind[c] = "artifact" THEN Goes(c, "askFull") /\ UNCHANGED got
     ELSE Goes(c, "stage") /\ got' = [got EXCEPT ![c] = upstream]
  /\ UNCHANGED <<upstream, immutable, file, keyLock, kind, seen, seenMeta, asked, answer, pkgCrashes>>

\* Cache.Writer: without a temporary file the client is served all the same;
\* a HEAD returns here with its headers.
Writer(c) ==
  /\ pkgAt[c] = "stage"
  /\ \/ Goes(c, "copy") /\ UNCHANGED <<answer, keyLock>>
     \/ Reply(c, "confirmed", got[c])
  /\ UNCHANGED <<upstream, immutable, file, requests, pkgCrashes>>

\* The copy is complete: the client has it, whatever becomes of the entry.
Copied(c) ==
  /\ pkgAt[c] = "copy" /\ Goes(c, "commit") /\ Answered(c, "confirmed", got[c])
  /\ UNCHANGED <<upstream, immutable, file, requests, pkgCrashes>>

CopyBreaks_Installs(c) ==
  /\ pkgAt[c] = "copy" /\ Goes(c, "writeMeta") /\ body' = Partial /\ Answered(c, "broken", 0)
  /\ UNCHANGED <<upstream, immutable, meta, indexed, evictAt, stuck, requests, pkgCrashes>>

CopyBreaks_Hidden(c) ==
  /\ pkgAt[c] = "copy" /\ Reply(c, "confirmed", Partial)
  /\ UNCHANGED <<upstream, immutable, file, requests, pkgCrashes>>

\* Upstream breaks off, or the temporary file cannot be written: Abort.  An
\* artifact's client has a part of it; a document in memory is served.
CopyBreaks(c) ==
  /\ pkgAt[c] = "copy"
  /\ IF kind[c] = "artifact" THEN Reply(c, "broken", 0) ELSE Reply(c, "confirmed", got[c])
  /\ UNCHANGED <<upstream, immutable, file, requests, pkgCrashes>>

\* Commit renames the temporary file over the body.
Commit(c) ==
  /\ pkgAt[c] = "commit" /\ Goes(c, "writeMeta") /\ body' = got[c]
  /\ UNCHANGED <<upstream, immutable, meta, indexed, evictAt, stuck, keyLock, requests, answer, pkgCrashes>>

CommitFails_Stamps(c) ==
  /\ pkgAt[c] = "commit" /\ Goes(c, IF body # 0 THEN "writeMeta" ELSE "admit")
  /\ UNCHANGED <<upstream, immutable, file, keyLock, requests, answer, pkgCrashes>>

\* The rename fails (on Windows: somebody has the body open).  A body that is
\* there stays, with its own sidecar, and is indexed.
CommitFails(c) ==
  /\ pkgAt[c] = "commit"
  /\ IF body # 0 THEN Goes(c, "admit") /\ UNCHANGED keyLock
     ELSE Goes(c, "done") /\ keyLock' = NoClient
  /\ UNCHANGED <<upstream, immutable, file, requests, answer, pkgCrashes>>

\* writeMeta, best effort.
writeMeta(c) ==
  /\ pkgAt[c] = "writeMeta" /\ Goes(c, "admit")
  /\ \E m \in {meta, [v |-> got[c], fresh |-> TRUE], [v |-> 0, fresh |-> TRUE]} : meta' = m
  /\ UNCHANGED <<upstream, immutable, body, indexed, evictAt, stuck, keyLock, requests, answer, pkgCrashes>>

\* admit, under c.mu.
admit(c) ==
  /\ pkgAt[c] = "admit" /\ evictAt = "idle" /\ indexed' = TRUE
  /\ Goes(c, "done") /\ keyLock' = NoClient
  /\ UNCHANGED <<upstream, immutable, body, meta, evictAt, stuck, requests, answer, pkgCrashes>>

-----------------------------------------------------------------------------
\* evictLocked, on behalf of another key, finds the entry among its victims.
evictLocked ==
  /\ evictAt = "idle" /\ indexed /\ evictAt' = "body"
  /\ UNCHANGED <<upstream, immutable, body, meta, indexed, stuck, keyLock, pkgAt, requests, answer, pkgCrashes>>

\* A body that cannot be removed leaves the entry indexed.
EvictBody ==
  /\ evictAt = "body"
  /\ \/ body' = 0 /\ evictAt' = "meta" /\ UNCHANGED stuck
     \/ stuck < MaxStuck /\ stuck' = stuck + 1 /\ UNCHANGED body /\ evictAt' = "idle"
  /\ UNCHANGED <<upstream, immutable, meta, indexed, keyLock, pkgAt, requests, answer, pkgCrashes>>

EvictMeta ==
  /\ evictAt = "meta" /\ evictAt' = "index" /\ meta' \in {meta, NoMeta}
  /\ UNCHANGED <<upstream, immutable, body, indexed, stuck, keyLock, pkgAt, requests, answer, pkgCrashes>>

EvictIndex ==
  /\ evictAt = "index" /\ evictAt' = "idle" /\ indexed' = FALSE
  /\ UNCHANGED <<upstream, immutable, body, meta, stuck, keyLock, pkgAt, requests, answer, pkgCrashes>>

\* The TTL runs out.
Expire ==
  /\ meta.fresh /\ meta' = [meta EXCEPT !.fresh = FALSE]
  /\ UNCHANGED <<upstream, immutable, body, indexed, evictAt, stuck, keyLock, pkgAt, requests, answer, pkgCrashes>>

\* Upstream publishes (external).
Publish ==
  /\ ~immutable /\ upstream < MaxVersion /\ upstream' = upstream + 1
  /\ UNCHANGED <<immutable, file, keyLock, pkgAt, requests, answer, pkgCrashes>>

\* The daemon dies and comes back: scan removes temporary files and indexes
\* the bodies it finds.
PkgRestart ==
  /\ pkgCrashes < MaxCrashes /\ pkgCrashes' = pkgCrashes + 1
  /\ pkgAt' = [c \in Clients |-> IF pkgAt[c] = "idle" THEN "idle" ELSE "done"]
  /\ answer' = [c \in Clients |-> IF answer[c].kind = "pending" THEN [kind |-> "broken", v |-> 0] ELSE answer[c]]
  /\ keyLock' = NoClient /\ evictAt' = "idle" /\ indexed' = (body # 0)
  /\ UNCHANGED <<upstream, immutable, body, meta, stuck, requests>>

ClientStep(c) ==
  \/ Open(c) \/ readMeta(c) \/ Lock(c) \/ ServeStale(c) \/ NotModified(c) \/ NotFound(c) \/ Ok(c)
  \/ Writer(c) \/ Copied(c) \/ CopyBreaks(c) \/ Commit(c) \/ CommitFails(c) \/ writeMeta(c) \/ admit(c)

EvictStep == EvictBody \/ EvictMeta \/ EvictIndex

PkgNext ==
  \/ \E c \in Clients : ClientStep(c) \/ \E k \in {"document", "artifact"} : Ask(c, k)
  \/ evictLocked \/ EvictStep \/ Expire \/ Publish \/ PkgRestart

PkgFairness == WF_pkgVars(EvictStep) /\ \A c \in Clients : WF_pkgVars(ClientStep(c))

PkgSpec == PkgInit /\ [][PkgNext]_pkgVars /\ PkgFairness

-----------------------------------------------------------------------------
\* The validators beside a body never vouch for newer bytes than it holds:
\* else upstream would answer 304 and the old bytes pass for current ones.
MetaNeverAhead == body # 0 => meta.v <= body

\* Every body on disk is in the index or about to be: eviction and the byte
\* budget reach it, also when it was installed while its forerunner was evicted.
BodyIndexed == body # 0 => indexed \/ \E c \in Clients : pkgAt[c] \in {"writeMeta", "admit"}

\* Every request is answered and gives the key's lock back.
RequestEnds == \A c \in Clients : pkgAt[c] = "open" ~> pkgAt[c] = "done"

\* The entry keeps the cache's promise.
Promise == INSTANCE PullThrough WITH published <- upstream
KeepsPromise == Promise!PullThroughSpec
=============================================================================
