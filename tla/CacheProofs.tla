------------------------------ MODULE CacheProofs ------------------------------
(***************************************************************************)
(* The caches implement PullThrough, what is in them is whole, what they   *)
(* believe of themselves agrees with the disk, the images that are         *)
(* collected, mirrored and pulled are kept, and the state of each is of    *)
(* its type, for every number of requests, versions, keys, blocks, blobs,  *)
(* layers, failed removals and restarts, and for every budget and          *)
(* watermark.                                                              *)
(***************************************************************************)
EXTENDS MCHost, WellFoundedInduction, FiniteSetTheorems, TLAPS

-----------------------------------------------------------------------------
(* CargoEntry.  Whoever is past the lock holds it, has an answer pending,   *)
(* and has read or fetched nothing newer than upstream; the sidecar never   *)
(* runs ahead of the body.                                                  *)
CrateWaiting == {"body", "side", "lock"} \cup Holding

CrateTyped ==
  /\ release \in 1..MaxRelease /\ crateBody \in 0..MaxRelease
  /\ sidecar \in [v : 0..MaxRelease, fresh : BOOLEAN]
  /\ crateAt \in [Crates -> {"idle", "done"} \cup CrateWaiting]
  /\ readBody \in [Crates -> 0..MaxRelease] /\ fetched \in [Crates -> 0..MaxRelease]
  /\ readSide \in [Crates -> [v : 0..MaxRelease, fresh : BOOLEAN]]
  /\ crateAsked \in [Crates -> 0..MaxRelease]
  /\ crateAnswer \in [Crates -> CratePromise!Answers]

CrateKinds ==
  \A c \in Crates :
    /\ crateAt[c] = "idle" => crateAnswer[c].kind = "none"
    /\ crateAt[c] \in CrateWaiting => crateAnswer[c].kind = "pending"
    /\ crateAsked[c] <= release /\ readBody[c] <= release

CrateHeld ==
  \A c \in Crates :
    /\ crateAt[c] \in Holding => lockFor = c
    /\ crateAt[c] = "side" => readBody[c] # 0
    /\ crateAt[c] = "ask" => readBody[c] = crateBody /\ readSide[c].v <= crateBody
    /\ crateAt[c] \in {"writeBody", "writeSide"} =>
         fetched[c] \in crateAsked[c]..release /\ fetched[c] # 0 /\ crateBody <= fetched[c]
    /\ crateAt[c] = "writeSide" => crateBody = fetched[c]

CrateInv ==
  CrateTyped /\ CrateKinds /\ CrateHeld /\ crateBody <= release /\ sidecar.v <= crateBody

(* What may be given to a request: a version that upstream has published,   *)
(* and a confirmed one is not older than what upstream had when it asked.   *)
CrateMay(c, a) ==
  /\ a \in CratePromise!Answers /\ a.kind \notin {"none", "pending"}
  /\ a.kind \in {"cached", "confirmed"} => a.v <= release
  /\ a.kind = "confirmed" => a.v >= crateAsked[c]

CrateAnswered ==
  /\ UNCHANGED <<release, crateAsked>>
  /\ \A c \in Crates : crateAnswer'[c] # crateAnswer[c] =>
       crateAnswer[c].kind = "pending" /\ CrateMay(c, crateAnswer'[c])

(* Which records answer a request.                                          *)
LEMMA AnswersAre ==
  /\ \A n \in 1..MaxRelease, k \in {"cached", "confirmed"} : [kind |-> k, v |-> n] \in CratePromise!Answers
  /\ \A k \in {"none", "pending", "notFound", "origin", "broken"} : [kind |-> k, v |-> 0] \in CratePromise!Answers
<1>1. ASSUME NEW n \in 1..MaxRelease, NEW k \in {"cached", "confirmed"}
      PROVE  [kind |-> k, v |-> n] \in CratePromise!Answers
  BY DEF CratePromise!Answers
<1>2. ASSUME NEW k \in {"none", "pending", "notFound", "origin", "broken"}
      PROVE  [kind |-> k, v |-> 0] \in CratePromise!Answers
  BY DEF CratePromise!Answers
<1> QED BY <1>1, <1>2

(* A version in the right range may be given to a request.                  *)
LEMMA CrateGives ==
  ASSUME CrateTyped, NEW c \in Crates
  PROVE  /\ \A n \in 1..release : CrateMay(c, [kind |-> "cached", v |-> n])
         /\ \A n \in 1..release : n >= crateAsked[c] => CrateMay(c, [kind |-> "confirmed", v |-> n])
         /\ \A k \in {"origin", "notFound"} : CrateMay(c, [kind |-> k, v |-> 0])
<1>1. release \in Nat /\ \A n \in 1..release : n \in 1..MaxRelease
  BY CargoEntryAssumption DEF CrateTyped
<1>2. ASSUME NEW n \in 1..release PROVE CrateMay(c, [kind |-> "cached", v |-> n])
  <2>1. [kind |-> "cached", v |-> n] \in CratePromise!Answers
    BY <1>1, AnswersAre
  <2> QED BY <1>1, <2>1 DEF CrateMay
<1>3. ASSUME NEW n \in 1..release, n >= crateAsked[c] PROVE CrateMay(c, [kind |-> "confirmed", v |-> n])
  <2>1. [kind |-> "confirmed", v |-> n] \in CratePromise!Answers
    BY <1>1, AnswersAre
  <2> QED BY <1>1, <1>3, <2>1 DEF CrateMay
<1>4. ASSUME NEW k \in {"origin", "notFound"} PROVE CrateMay(c, [kind |-> k, v |-> 0])
  BY AnswersAre DEF CrateMay
<1> QED BY <1>2, <1>3, <1>4

(* The answer to one request keeps the invariant and the promise.           *)
LEMMA CrateAnswer ==
  ASSUME CrateInv, NEW c \in Crates, crateAt[c] \in CrateWaiting,
         NEW k \in {"cached", "confirmed", "origin", "notFound"}, NEW v \in 0..MaxRelease,
         CrateMay(c, [kind |-> k, v |-> v]), Answers(c, k, v),
         UNCHANGED <<release, crateAsked>>
  PROVE  /\ CrateAnswered
         /\ crateAnswer' \in [Crates -> CratePromise!Answers]
         /\ \A d \in Crates : d # c => crateAt'[d] = crateAt[d] /\ crateAnswer'[d] = crateAnswer[d]
         /\ crateAt'[c] = "done"
         /\ \A d \in Crates : crateAt'[d] \in Holding => crateAt[d] \in Holding /\ lockFor' = d
         /\ crateAt' \in [Crates -> {"idle", "done"} \cup CrateWaiting]
  BY DEF CrateInv, CrateTyped, CrateKinds, CrateHeld, CrateMay, CrateAnswered, Answers, To, CrateWaiting, Holding

(* So it does with what only the holder of the lock may write.              *)
LEMMA CrateSettles ==
  ASSUME CrateInv, NEW c \in Crates, crateAt[c] \in CrateWaiting,
         NEW k \in {"cached", "confirmed", "origin", "notFound"}, NEW n \in 0..MaxRelease,
         CrateMay(c, [kind |-> k, v |-> n]), Answers(c, k, n),
         UNCHANGED <<release, crateAsked, readBody, readSide, fetched>>,
         crateBody' = crateBody \/ crateAt[c] \in Holding,
         crateBody' \in 0..MaxRelease, crateBody' <= release,
         sidecar' \in [v : 0..MaxRelease, fresh : BOOLEAN], sidecar'.v <= crateBody'
  PROVE  CrateInv' /\ CrateAnswered
<1>1. /\ CrateAnswered
      /\ crateAnswer' \in [Crates -> CratePromise!Answers]
      /\ \A d \in Crates : d # c => crateAt'[d] = crateAt[d] /\ crateAnswer'[d] = crateAnswer[d]
      /\ crateAt'[c] = "done"
      /\ \A d \in Crates : crateAt'[d] \in Holding => crateAt[d] \in Holding /\ lockFor' = d
      /\ crateAt' \in [Crates -> {"idle", "done"} \cup CrateWaiting]
  BY CrateAnswer
<1>2. CrateTyped'
  BY <1>1 DEF CrateInv, CrateTyped
<1>3. CrateKinds'
  BY <1>1 DEF CrateInv, CrateKinds, CrateWaiting, Holding
<1>4. \A d \in Crates : d # c /\ crateAt'[d] \in Holding => crateBody' = crateBody
  BY <1>1 DEF CrateInv, CrateHeld
<1>5. CrateHeld'
  BY <1>1, <1>4 DEF CrateInv, CrateHeld, Holding
<1> QED BY <1>1, <1>2, <1>3, <1>5 DEF CrateInv

(* Every step keeps the invariant, and is one of the promise or none.       *)
LEMMA CrateInvStep ==
  ASSUME CrateInv, CrateNext
  PROVE  /\ CrateInv'
         /\ \/ CrateAnswered
            \/ release' \in release + 1..MaxRelease /\ UNCHANGED <<crateAsked, crateAnswer>>
            \/ \E c \in Crates : CratePromise!PullThroughAsk(c)
<1> USE CargoEntryAssumption
<1>1. CASE Ages
  BY <1>1 DEF Ages, CrateInv, CrateTyped, CrateKinds, CrateHeld, CrateAnswered, crateReqs
<1>2. CASE Releases
  <2>1. release' \in release + 1..MaxRelease /\ UNCHANGED <<crateAsked, crateAnswer>>
    BY <1>2 DEF Releases, CrateInv, CrateTyped, crateReqs
  <2>2. CrateInv'
    BY <1>2 DEF Releases, CrateInv, CrateTyped, CrateKinds, CrateHeld, crateReqs, crateFiles
  <2> QED BY <2>1, <2>2
<1>3. CASE CrateDies
  <2>1. CrateAnswered /\ crateAnswer' \in [Crates -> CratePromise!Answers]
    BY <1>3, AnswersAre DEF CrateDies, CrateInv, CrateTyped, CrateAnswered, CrateMay, crateReqs
  <2>2. CrateInv'
    BY <1>3, <2>1 DEF CrateDies, CrateInv, CrateTyped, CrateKinds, CrateHeld, CrateWaiting, Holding, crateReqs, crateFiles
  <2> QED BY <2>1, <2>2
<1>4. ASSUME NEW c \in Crates, CrateRequest(c) PROVE CrateInv' /\ CratePromise!PullThroughAsk(c)
  <2>1. CratePromise!PullThroughAsk(c)
    BY <1>4 DEF CrateRequest, CratePromise!PullThroughAsk, CratePromise!Empty, CrateInv, CrateKinds
  <2>2. CrateInv'
    BY <1>4, AnswersAre DEF CrateRequest, To, CrateInv, CrateTyped, CrateKinds, CrateHeld, CrateWaiting, Holding, crateFiles
  <2> QED BY <2>1, <2>2
<1>5. ASSUME NEW c \in Crates, CrateStep(c) PROVE CrateInv' /\ CrateAnswered
  <2> USE DEF crateReqs, crateFiles
  <2>1. CASE readCacheBody(c)
    BY <2>1 DEF readCacheBody, To, CrateInv, CrateTyped, CrateKinds, CrateHeld, CrateAnswered, CrateWaiting, Holding
  <2>2. CASE readCacheSide(c)
    <3>1. CASE Answers(c, "cached", readBody[c])
      <4>1. CrateMay(c, [kind |-> "cached", v |-> readBody[c]]) /\ crateAt[c] \in CrateWaiting
        <5>1. readBody[c] \in 1..release /\ crateAt[c] \in CrateWaiting
          BY <2>2 DEF readCacheSide, CrateInv, CrateTyped, CrateKinds, CrateHeld, CrateWaiting
        <5> QED BY <5>1, CrateGives DEF CrateInv
      <4> QED BY <2>2, <3>1, <4>1, CrateSettles DEF readCacheSide, CrateInv, CrateTyped
    <3>2. CASE To(c, "lock") /\ UNCHANGED <<crateAnswer, lockFor>>
      BY <2>2, <3>2 DEF readCacheSide, To, CrateInv, CrateTyped, CrateKinds, CrateHeld, CrateAnswered, CrateWaiting, Holding
    <3> QED BY <2>2, <3>1, <3>2 DEF readCacheSide
  <2>3. CASE LockEntry(c)
    BY <2>3 DEF LockEntry, To, CrateInv, CrateTyped, CrateKinds, CrateHeld, CrateAnswered, CrateWaiting, Holding
  <2>4. CASE reread(c)
    <3>1. CASE crateBody # 0 /\ Answers(c, "cached", crateBody)
      <4>1. CrateMay(c, [kind |-> "cached", v |-> crateBody]) /\ crateAt[c] \in CrateWaiting
        <5>1. crateBody \in 1..release /\ crateAt[c] \in CrateWaiting
          BY <2>4, <3>1 DEF reread, CrateInv, CrateTyped, CrateWaiting, Holding
        <5> QED BY <5>1, CrateGives DEF CrateInv
      <4> QED BY <2>4, <3>1, <4>1, CrateAnswer DEF reread, CrateInv, CrateTyped, CrateKinds, CrateHeld, CrateWaiting, Holding
    <3>2. CASE To(c, "ask") /\ UNCHANGED <<crateAnswer, lockFor>>
      BY <2>4, <3>2 DEF reread, To, CrateInv, CrateTyped, CrateKinds, CrateHeld, CrateAnswered, CrateWaiting, Holding
    <3> QED BY <2>4, <3>1, <3>2 DEF reread
  <2>5. CASE UpstreamFails(c)
    <3>1. readBody[c] \in 0..release /\ 0..release \subseteq 0..MaxRelease
      BY DEF CrateInv, CrateTyped, CrateKinds
    <3>2. CASE readBody[c] # 0
      <4>1. CrateMay(c, [kind |-> "cached", v |-> readBody[c]])
        BY <3>1, <3>2, CrateGives DEF CrateInv, CrateTyped
      <4> QED BY <2>5, <3>2, <4>1, CrateSettles DEF UpstreamFails, CrateInv, CrateTyped, CrateWaiting, Holding
    <3>3. CASE readBody[c] = 0
      <4>1. CrateMay(c, [kind |-> "origin", v |-> 0])
        BY CrateGives DEF CrateInv
      <4> QED BY <2>5, <3>3, <4>1, CrateSettles
          DEF UpstreamFails, CrateInv, CrateTyped, CrateWaiting, Holding
    <3> QED BY <3>2, <3>3
  <2>6. CASE UpstreamGone(c)
    <3>0. CrateMay(c, [kind |-> "notFound", v |-> 0])
      BY CrateGives DEF CrateInv
    <3> QED BY <2>6, <3>0, CrateSettles DEF UpstreamGone, CrateInv, CrateTyped, CrateWaiting, Holding
  <2>7. CASE Unmodified(c)
    <3>0. CrateMay(c, [kind |-> "confirmed", v |-> readBody[c]])
      <4>1. readSide[c].v <= readBody[c] /\ readSide[c].v = release /\ readBody[c] # 0
        BY <2>7 DEF Unmodified, CrateInv, CrateHeld
      <4>2. readBody[c] \in 1..release /\ readBody[c] >= crateAsked[c]
        BY <4>1 DEF CrateInv, CrateTyped, CrateKinds
      <4> QED BY <4>2, CrateGives DEF CrateInv
    <3>1. sidecar'.v <= crateBody /\ sidecar' \in [v : 0..MaxRelease, fresh : BOOLEAN]
      <4>1. readSide[c].v <= crateBody /\ readSide[c].v \in 0..MaxRelease
        BY <2>7 DEF Unmodified, CrateInv, CrateTyped, CrateHeld
      <4>2. CASE sidecar' = sidecar
        BY <4>2 DEF CrateInv, CrateTyped
      <4>3. CASE sidecar' = [v |-> readSide[c].v, fresh |-> TRUE]
        BY <4>1, <4>3
      <4> QED BY <2>7, <4>2, <4>3 DEF Unmodified
    <3> QED BY <2>7, <3>0, <3>1, CrateSettles DEF Unmodified, CrateInv, CrateTyped, CrateWaiting, Holding
  <2>8. CASE Downloaded(c)
    BY <2>8 DEF Downloaded, To, CrateInv, CrateTyped, CrateKinds, CrateHeld, CrateAnswered, CrateWaiting, Holding
  <2>9. CASE writeCache(c)
    <3>0. CrateMay(c, [kind |-> "confirmed", v |-> fetched[c]])
      <4>1. fetched[c] \in 1..release /\ fetched[c] >= crateAsked[c]
        BY <2>9 DEF writeCache, CrateInv, CrateTyped, CrateHeld
      <4> QED BY <4>1, CrateGives DEF CrateInv
    <3>1. CASE crateBody' = fetched[c] /\ To(c, "writeSide") /\ UNCHANGED <<crateAnswer, lockFor>>
      BY <2>9, <3>1 DEF writeCache, To, CrateInv, CrateTyped, CrateKinds, CrateHeld, CrateAnswered, CrateWaiting, Holding
    <3>2. CASE crateBody' \in {crateBody, fetched[c]} /\ Answers(c, "confirmed", fetched[c])
      <4>1. crateBody' \in 0..MaxRelease /\ crateBody' <= release /\ sidecar.v <= crateBody'
        BY <2>9, <3>2 DEF writeCache, CrateInv, CrateTyped, CrateHeld
      <4> QED BY <2>9, <3>0, <3>2, <4>1, CrateSettles DEF writeCache, CrateInv, CrateTyped, CrateWaiting, Holding
    <3> QED BY <2>9, <3>1, <3>2 DEF writeCache
  <2>10. CASE writeSidecar(c)
    <3>0. CrateMay(c, [kind |-> "confirmed", v |-> fetched[c]])
      <4>1. fetched[c] \in 1..release /\ fetched[c] >= crateAsked[c]
        BY <2>10 DEF writeSidecar, CrateInv, CrateTyped, CrateHeld
      <4> QED BY <4>1, CrateGives DEF CrateInv
    <3>1. sidecar'.v <= crateBody /\ sidecar' \in [v : 0..MaxRelease, fresh : BOOLEAN]
      <4>1. crateBody = fetched[c] /\ fetched[c] \in 0..MaxRelease
        BY <2>10 DEF writeSidecar, CrateInv, CrateTyped, CrateHeld
      <4>2. CASE sidecar' = sidecar
        BY <4>2 DEF CrateInv, CrateTyped
      <4>3. CASE sidecar' = [v |-> fetched[c], fresh |-> TRUE]
        BY <4>1, <4>3
      <4> QED BY <2>10, <4>2, <4>3 DEF writeSidecar
    <3> QED BY <2>10, <3>0, <3>1, CrateSettles DEF writeSidecar, CrateInv, CrateTyped, CrateWaiting, Holding
  <2> QED BY <1>5, <2>1, <2>2, <2>3, <2>4, <2>5, <2>6, <2>7, <2>8, <2>9, <2>10 DEF CrateStep
<1> QED BY <1>1, <1>2, <1>3, <1>4, <1>5 DEF CrateNext

-----------------------------------------------------------------------------
(* PkgCache.  As above, but an eviction may take the body from under a      *)
(* request that holds the key's lock: what it has open is then all there    *)
(* is, and the sidecar still does not run ahead of that.                    *)
PkgBefore == {"open", "meta", "lock"}
PkgFetching == {"stage", "copy", "commit"}
PkgHolding == {"reopen", "remeta", "ask", "askFull", "writeMeta", "admit"} \cup PkgFetching
PkgWaiting == PkgBefore \cup {"reopen", "remeta", "ask", "askFull", "stage", "copy"}

PkgTyped ==
  /\ upstream \in 1..MaxVersion /\ body \in 0..MaxVersion /\ meta \in Metas
  /\ pkgAt \in [Clients -> PkgPoints]
  /\ seen \in [Clients -> 0..MaxVersion] /\ got \in [Clients -> 0..MaxVersion]
  /\ seenMeta \in [Clients -> Metas] /\ asked \in [Clients -> 0..MaxVersion]
  /\ answer \in [Clients -> Promise!Answers]

PkgKinds ==
  \A c \in Clients :
    /\ pkgAt[c] = "idle" => answer[c].kind = "none"
    /\ pkgAt[c] \in PkgWaiting => answer[c].kind = "pending"
    /\ asked[c] <= upstream /\ seen[c] <= upstream

PkgHeld ==
  \A c \in Clients :
    /\ pkgAt[c] \in PkgHolding => keyLock = c
    /\ pkgAt[c] \in {"meta", "remeta", "ask"} => seen[c] # 0
    /\ pkgAt[c] \in {"remeta", "ask"} => body \in {0, seen[c]} /\ meta.v <= seen[c]
    /\ pkgAt[c] = "ask" => seenMeta[c].v <= seen[c]
    /\ pkgAt[c] \in PkgFetching \cup {"writeMeta"} => got[c] # 0 /\ got[c] \in asked[c]..upstream
    /\ pkgAt[c] \in PkgFetching => meta.v <= got[c]
    /\ pkgAt[c] = "writeMeta" => body \in {0, got[c]}

PkgFiles == body <= upstream /\ meta.v <= upstream /\ MetaNeverAhead

PkgInv == PkgTyped /\ PkgKinds /\ PkgHeld /\ PkgFiles

PkgMay(c, a) ==
  /\ a \in Promise!Answers /\ a.kind \notin {"none", "pending"}
  /\ a.kind \in {"cached", "confirmed"} => a.v <= upstream
  /\ a.kind = "confirmed" => a.v >= asked[c]

PkgAnswered ==
  /\ UNCHANGED <<upstream, asked>>
  /\ \A c \in Clients : answer'[c] # answer[c] =>
       answer[c].kind = "pending" /\ PkgMay(c, answer'[c])

(* Which records answer a request.                                          *)
LEMMA PkgAnswersAre ==
  /\ \A n \in 1..MaxVersion, k \in {"cached", "confirmed"} : [kind |-> k, v |-> n] \in Promise!Answers
  /\ \A k \in {"none", "pending", "notFound", "origin", "broken"} : [kind |-> k, v |-> 0] \in Promise!Answers
<1>1. ASSUME NEW n \in 1..MaxVersion, NEW k \in {"cached", "confirmed"}
      PROVE  [kind |-> k, v |-> n] \in Promise!Answers
  BY DEF Promise!Answers
<1>2. ASSUME NEW k \in {"none", "pending", "notFound", "origin", "broken"}
      PROVE  [kind |-> k, v |-> 0] \in Promise!Answers
  BY DEF Promise!Answers
<1> QED BY <1>1, <1>2

(* A version in the right range may be given to a request.                  *)
LEMMA PkgGives ==
  ASSUME PkgTyped, NEW c \in Clients
  PROVE  /\ \A n \in 1..upstream : PkgMay(c, [kind |-> "cached", v |-> n])
         /\ \A n \in 1..upstream : n >= asked[c] => PkgMay(c, [kind |-> "confirmed", v |-> n])
         /\ \A k \in {"origin", "notFound", "broken"} : PkgMay(c, [kind |-> k, v |-> 0])
<1>1. upstream \in Nat /\ \A n \in 1..upstream : n \in 1..MaxVersion
  BY PkgCacheAssumption DEF PkgTyped
<1>2. ASSUME NEW n \in 1..upstream PROVE PkgMay(c, [kind |-> "cached", v |-> n])
  <2>1. [kind |-> "cached", v |-> n] \in Promise!Answers
    BY <1>1, PkgAnswersAre
  <2> QED BY <1>1, <2>1 DEF PkgMay
<1>3. ASSUME NEW n \in 1..upstream, n >= asked[c] PROVE PkgMay(c, [kind |-> "confirmed", v |-> n])
  <2>1. [kind |-> "confirmed", v |-> n] \in Promise!Answers
    BY <1>1, PkgAnswersAre
  <2> QED BY <1>1, <1>3, <2>1 DEF PkgMay
<1>4. ASSUME NEW k \in {"origin", "notFound", "broken"} PROVE PkgMay(c, [kind |-> k, v |-> 0])
  BY PkgAnswersAre DEF PkgMay
<1> QED BY <1>2, <1>3, <1>4

(* The answer to one request keeps the promise.                             *)
LEMMA PkgAnswer ==
  ASSUME PkgInv, NEW c \in Clients, pkgAt[c] \in PkgWaiting,
         NEW k, NEW n, PkgMay(c, [kind |-> k, v |-> n]),
         answer' = [answer EXCEPT ![c] = [kind |-> k, v |-> n]],
         UNCHANGED <<upstream, asked>>
  PROVE  /\ PkgAnswered /\ answer' \in [Clients -> Promise!Answers]
         /\ \A d \in Clients : d # c => answer'[d] = answer[d]
  BY DEF PkgInv, PkgTyped, PkgKinds, PkgMay, PkgAnswered

(* A request that returns keeps the invariant, with what the holder of the  *)
(* key's lock may write.                                                    *)
LEMMA PkgSettles ==
  ASSUME PkgInv, NEW c \in Clients, pkgAt[c] \in PkgWaiting,
         NEW k, NEW n, PkgMay(c, [kind |-> k, v |-> n]), Reply(c, k, n),
         UNCHANGED <<upstream, asked, seen, got, body>>,
         seenMeta' \in [Clients -> Metas], \A d \in Clients \ {c} : seenMeta'[d] = seenMeta[d],
         meta' = meta \/ pkgAt[c] \in PkgHolding,
         meta' \in Metas, meta'.v <= upstream, MetaNeverAhead'
  PROVE  PkgInv' /\ PkgAnswered
<1>1. /\ PkgAnswered /\ answer' \in [Clients -> Promise!Answers]
      /\ \A d \in Clients : d # c => answer'[d] = answer[d]
  BY PkgAnswer DEF Reply
<1>2. /\ pkgAt' \in [Clients -> PkgPoints] /\ pkgAt'[c] = "done"
      /\ \A d \in Clients : d # c => pkgAt'[d] = pkgAt[d]
      /\ \A d \in Clients : d # c /\ pkgAt[d] \in PkgHolding => keyLock' = d /\ meta' = meta
  BY DEF Reply, Goes, PkgInv, PkgTyped, PkgHeld, PkgPoints
<1>3. PkgTyped'
  BY <1>1, <1>2 DEF PkgInv, PkgTyped
<1>4. PkgKinds'
  BY <1>1, <1>2 DEF PkgInv, PkgKinds, PkgWaiting, PkgBefore
<1>5. PkgHeld'
  <2> SUFFICES ASSUME NEW d \in Clients PROVE PkgHeld!(d)'
    BY DEF PkgHeld
  <2>1. CASE d = c
    BY <1>2, <2>1 DEF PkgHolding, PkgFetching
  <2>2. CASE d # c
    BY <1>2, <2>2 DEF PkgInv, PkgHeld, PkgHolding, PkgFetching
  <2> QED BY <2>1, <2>2
<1> QED BY <1>1, <1>3, <1>4, <1>5 DEF PkgInv, PkgFiles

(* A step of a request that gives no answer keeps the invariant.            *)
LEMMA PkgQuietStep ==
  ASSUME PkgInv, NEW c \in Clients,
         \/ Open(c) \/ Lock(c) \/ Ok(c) \/ Commit(c) \/ CommitFails(c) \/ writeMeta(c) \/ admit(c)
  PROVE  PkgInv' /\ PkgAnswered
<1> USE PkgCacheAssumption
    DEF PkgInv, PkgTyped, PkgKinds, PkgHeld, PkgFiles, PkgAnswered, MetaNeverAhead, PkgPoints,
        PkgBefore, PkgWaiting, PkgHolding, PkgFetching, Goes, file, requests
<1>1. CASE Open(c)
  BY <1>1 DEF Open
<1>2. CASE Lock(c)
  BY <1>2 DEF Lock
<1>3. CASE Ok(c)
  BY <1>3 DEF Ok
<1>4. CASE Commit(c)
  BY <1>4 DEF Commit
<1>5. CASE CommitFails(c)
  BY <1>5 DEF CommitFails
<1>6. CASE writeMeta(c)
  <2>1. PICK m \in {meta, [v |-> got[c], fresh |-> TRUE], [v |-> 0, fresh |-> TRUE]} : meta' = m
    BY <1>6 DEF writeMeta
  <2>2. meta' \in Metas /\ meta'.v <= upstream /\ (body # 0 => meta'.v <= body)
    <3>1. got[c] \in 0..MaxVersion /\ got[c] <= upstream /\ body \in {0, got[c]} /\ upstream \in Nat
      BY <1>6 DEF writeMeta
    <3>2. CASE m = meta
      BY <2>1, <3>2
    <3>3. CASE m = [v |-> got[c], fresh |-> TRUE]
      BY <2>1, <3>1, <3>3 DEF Metas
    <3>4. CASE m = [v |-> 0, fresh |-> TRUE]
      BY <2>1, <3>1, <3>4 DEF Metas
    <3> QED BY <3>2, <3>3, <3>4
  <2> QED BY <1>6, <2>2 DEF writeMeta
<1>7. CASE admit(c)
  BY <1>7 DEF admit
<1> QED BY <1>1, <1>2, <1>3, <1>4, <1>5, <1>6, <1>7

(* A step that may answer keeps the invariant and the promise.              *)
LEMMA PkgAnswerStep ==
  ASSUME PkgInv, NEW c \in Clients,
         \/ readMeta(c) \/ ServeStale(c) \/ NotModified(c) \/ NotFound(c)
         \/ Writer(c) \/ Copied(c) \/ CopyBreaks(c)
  PROVE  PkgInv' /\ PkgAnswered
<1> USE PkgCacheAssumption DEF file, requests
<1>a. PkgTyped /\ MetaNeverAhead /\ meta.v <= upstream /\ meta \in Metas /\ seenMeta \in [Clients -> Metas]
  BY DEF PkgInv, PkgFiles, PkgTyped
<1>1. CASE readMeta(c)
  <2>0. pkgAt[c] \in PkgWaiting /\ seen[c] \in 1..upstream
    BY <1>1 DEF readMeta, PkgInv, PkgTyped, PkgKinds, PkgHeld, PkgWaiting, PkgBefore
  <2>1. CASE Reply(c, "cached", seen[c])
    <3>1. PkgMay(c, [kind |-> "cached", v |-> seen[c]])
      BY <1>a, <2>0, PkgGives
    <3>2. seenMeta' \in [Clients -> Metas] /\ \A d \in Clients \ {c} : seenMeta'[d] = seenMeta[d]
      BY <1>1, <1>a DEF readMeta
    <3>3. MetaNeverAhead'
      BY <1>1, <1>a DEF readMeta, MetaNeverAhead
    <3> QED BY <1>1, <1>a, <2>0, <2>1, <3>1, <3>2, <3>3, PkgSettles DEF readMeta
  <2>2. CASE Goes(c, IF pkgAt[c] = "meta" THEN "lock" ELSE "ask") /\ UNCHANGED <<answer, keyLock>>
    BY <1>1, <2>2 DEF readMeta, Goes, PkgInv, PkgTyped, PkgKinds, PkgHeld, PkgFiles, PkgAnswered, MetaNeverAhead,
       PkgPoints, PkgBefore, PkgWaiting, PkgHolding, PkgFetching
  <2> QED BY <1>1, <2>1, <2>2 DEF readMeta
<1>2. CASE ServeStale(c)
  <2>0. pkgAt[c] \in PkgWaiting /\ MetaNeverAhead'
    BY <1>2, <1>a DEF ServeStale, PkgWaiting, MetaNeverAhead
  <2>1. CASE pkgAt[c] = "ask" /\ Reply(c, "cached", seen[c])
    <3>1. seen[c] \in 1..upstream
      BY <2>1 DEF PkgInv, PkgTyped, PkgKinds, PkgHeld
    <3>2. PkgMay(c, [kind |-> "cached", v |-> seen[c]])
      BY <1>a, <3>1, PkgGives
    <3> QED BY <1>2, <1>a, <2>0, <2>1, <3>2, PkgSettles DEF ServeStale
  <2>2. CASE pkgAt[c] = "ask" /\ Goes(c, "askFull") /\ UNCHANGED <<answer, keyLock>>
    BY <1>2, <2>2 DEF ServeStale, Goes, PkgInv, PkgTyped, PkgKinds, PkgHeld, PkgFiles, PkgAnswered, MetaNeverAhead,
       PkgPoints, PkgBefore, PkgWaiting, PkgHolding, PkgFetching
  <2>3. CASE Reply(c, "origin", 0)
    <3>1. PkgMay(c, [kind |-> "origin", v |-> 0])
      BY <1>a, PkgGives
    <3> QED BY <1>2, <1>a, <2>0, <2>3, <3>1, PkgSettles DEF ServeStale
  <2> QED BY <1>2, <2>1, <2>2, <2>3 DEF ServeStale
<1>3. CASE NotModified(c)
  <2>1. pkgAt[c] = "ask" /\ pkgAt[c] \in PkgWaiting /\ pkgAt[c] \in PkgHolding
    BY <1>3 DEF NotModified, PkgWaiting, PkgHolding
  <2>2. seen[c] = upstream /\ body \in {0, seen[c]} /\ upstream >= asked[c] /\ upstream \in 1..upstream
    BY <1>3, <2>1 DEF NotModified, PkgInv, PkgTyped, PkgKinds, PkgHeld, Metas
  <2>3. meta' \in Metas /\ meta'.v <= upstream
    <3>1. CASE meta' = meta
      BY <1>a, <3>1
    <3>2. CASE meta' = [v |-> upstream, fresh |-> TRUE]
      BY <1>a, <3>2 DEF Metas, PkgTyped
    <3> QED BY <1>3, <3>1, <3>2 DEF NotModified
  <2>4. MetaNeverAhead'
    BY <1>3, <2>2, <2>3 DEF NotModified, MetaNeverAhead
  <2>5. PkgMay(c, [kind |-> "confirmed", v |-> upstream])
    BY <1>a, <2>2, PkgGives
  <2>6. CASE Reply(c, "confirmed", upstream)
    BY <1>3, <1>a, <2>1, <2>3, <2>4, <2>5, <2>6, PkgSettles DEF NotModified
  <2>7. CASE Goes(c, "askFull") /\ UNCHANGED <<answer, keyLock>>
    <3>1. \A d \in Clients : d # c => pkgAt[d] \notin PkgHolding
      BY <2>1 DEF PkgInv, PkgHeld
    <3> QED BY <1>3, <2>1, <2>3, <2>4, <2>7, <3>1 DEF NotModified, Goes, PkgInv, PkgTyped, PkgKinds, PkgHeld, PkgFiles,
          PkgAnswered, PkgPoints, PkgBefore, PkgWaiting, PkgHolding, PkgFetching
  <2> QED BY <1>3, <2>2, <2>6, <2>7 DEF NotModified
<1>4. CASE NotFound(c)
  <2>1. PkgMay(c, [kind |-> "notFound", v |-> 0]) /\ pkgAt[c] \in PkgWaiting /\ MetaNeverAhead'
    BY <1>4, <1>a, PkgGives DEF NotFound, PkgWaiting, MetaNeverAhead
  <2> QED BY <1>4, <1>a, <2>1, PkgSettles DEF NotFound
<1>5. ASSUME pkgAt[c] \in {"stage", "copy"}
      PROVE  PkgMay(c, [kind |-> "confirmed", v |-> got[c]]) /\ pkgAt[c] \in PkgWaiting
  <2>1. got[c] \in 1..upstream /\ got[c] >= asked[c]
    BY <1>5 DEF PkgInv, PkgTyped, PkgHeld, PkgFetching
  <2> QED BY <1>5, <1>a, <2>1, PkgGives DEF PkgWaiting
<1>6. CASE Writer(c)
  <2>1. CASE Reply(c, "confirmed", got[c])
    <3>1. MetaNeverAhead'
      BY <1>6, <1>a DEF Writer, MetaNeverAhead
    <3> QED BY <1>6, <1>a, <1>5, <2>1, <3>1, PkgSettles DEF Writer
  <2>2. CASE Goes(c, "copy") /\ UNCHANGED <<answer, keyLock>>
    BY <1>6, <2>2 DEF Writer, Goes, PkgInv, PkgTyped, PkgKinds, PkgHeld, PkgFiles, PkgAnswered, MetaNeverAhead,
       PkgPoints, PkgBefore, PkgWaiting, PkgHolding, PkgFetching
  <2> QED BY <1>6, <2>1, <2>2 DEF Writer
<1>7. CASE Copied(c)
  <2>1. /\ PkgAnswered /\ answer' \in [Clients -> Promise!Answers]
        /\ \A d \in Clients : d # c => answer'[d] = answer[d]
    BY <1>7, <1>5, PkgAnswer DEF Copied, Answered
  <2> QED BY <1>7, <2>1 DEF Copied, Answered, Goes, PkgInv, PkgTyped, PkgKinds, PkgHeld, PkgFiles, MetaNeverAhead,
       PkgPoints, PkgBefore, PkgWaiting, PkgHolding, PkgFetching
<1>8. CASE CopyBreaks(c)
  <2>1. PkgMay(c, [kind |-> "broken", v |-> 0]) /\ MetaNeverAhead'
    BY <1>8, <1>a, PkgGives DEF CopyBreaks, MetaNeverAhead
  <2>2. CASE Reply(c, "broken", 0)
    BY <1>8, <1>a, <1>5, <2>1, <2>2, PkgSettles DEF CopyBreaks
  <2>3. CASE Reply(c, "confirmed", got[c])
    BY <1>8, <1>a, <1>5, <2>1, <2>3, PkgSettles DEF CopyBreaks
  <2> QED BY <1>8, <2>2, <2>3 DEF CopyBreaks
<1> QED BY <1>1, <1>2, <1>3, <1>4, <1>6, <1>7, <1>8

(* Every step keeps the invariant, and is one of the promise or none.       *)
LEMMA PkgInvStep ==
  ASSUME PkgInv, PkgNext
  PROVE  /\ PkgInv'
         /\ \/ PkgAnswered
            \/ upstream' \in upstream + 1..MaxVersion /\ UNCHANGED <<asked, answer>>
            \/ \E c \in Clients : Promise!PullThroughAsk(c)
<1> USE PkgCacheAssumption DEF file, requests
<1>1. ASSUME NEW c \in Clients, ClientStep(c) PROVE PkgInv' /\ PkgAnswered
  BY <1>1, PkgQuietStep, PkgAnswerStep DEF ClientStep
<1>2. ASSUME NEW c \in Clients, NEW k \in {"document", "artifact"}, Ask(c, k)
      PROVE  PkgInv' /\ Promise!PullThroughAsk(c)
  <2>1. Promise!PullThroughAsk(c)
    BY <1>2 DEF Ask, Promise!PullThroughAsk, Promise!Empty, PkgInv, PkgKinds
  <2>2. PkgInv'
    BY <1>2, PkgAnswersAre DEF Ask, Goes, PkgInv, PkgTyped, PkgKinds, PkgHeld, PkgFiles, MetaNeverAhead,
       PkgPoints, PkgBefore, PkgWaiting, PkgHolding, PkgFetching
  <2> QED BY <2>1, <2>2
<1>3. CASE evictLocked \/ EvictIndex
  BY <1>3 DEF evictLocked, EvictIndex, PkgInv, PkgTyped, PkgKinds, PkgHeld, PkgFiles, PkgAnswered, MetaNeverAhead
<1>4. CASE EvictBody
  BY <1>4 DEF EvictBody, PkgInv, PkgTyped, PkgKinds, PkgHeld, PkgFiles, PkgAnswered, MetaNeverAhead
<1>5. CASE EvictMeta \/ Expire
  <2>1. meta' \in Metas /\ (meta'.v = meta.v \/ meta'.v = 0)
    <3>1. meta \in Metas
      BY DEF PkgInv, PkgTyped
    <3>2. CASE EvictMeta
      <4>1. NoMeta \in Metas /\ NoMeta.v = 0
        BY DEF NoMeta, Metas
      <4>2. meta' = meta \/ meta' = NoMeta
        BY <3>2 DEF EvictMeta
      <4> QED BY <3>1, <4>1, <4>2
    <3>3. CASE Expire
      BY <3>1, <3>3 DEF Expire, Metas
    <3> QED BY <1>5, <3>2, <3>3
  <2>2. UNCHANGED <<upstream, body, keyLock, pkgAt, seen, seenMeta, got, asked, answer>>
    BY <1>5 DEF EvictMeta, Expire
  <2>3. meta'.v \in Nat /\ meta.v \in Nat /\ meta'.v <= meta.v
    BY <2>1 DEF Metas, PkgInv, PkgTyped
  <2> QED BY <2>1, <2>2, <2>3 DEF PkgInv, PkgTyped, PkgKinds, PkgHeld, PkgFiles, PkgAnswered, MetaNeverAhead
<1>6. CASE Publish
  <2>1. upstream' \in upstream + 1..MaxVersion /\ UNCHANGED <<asked, answer>>
    BY <1>6 DEF Publish, PkgInv, PkgTyped
  <2>2. PkgInv'
    BY <1>6 DEF Publish, PkgInv, PkgTyped, PkgKinds, PkgHeld, PkgFiles, MetaNeverAhead, Metas
  <2> QED BY <2>1, <2>2
<1>7. CASE PkgRestart
  <2>1. PkgAnswered /\ answer' \in [Clients -> Promise!Answers]
    BY <1>7, PkgAnswersAre DEF PkgRestart, PkgInv, PkgTyped, PkgAnswered, PkgMay
  <2>2. PkgInv'
    BY <1>7, <2>1 DEF PkgRestart, PkgInv, PkgTyped, PkgKinds, PkgHeld, PkgFiles, MetaNeverAhead, PkgPoints, PkgBefore, PkgWaiting, PkgHolding,
       PkgFetching
  <2> QED BY <2>1, <2>2
<1> QED BY <1>1, <1>2, <1>3, <1>4, <1>5, <1>6, <1>7 DEF PkgNext, EvictStep

-----------------------------------------------------------------------------
EntriesInv == (focus = "pkgcache" => PkgInv) /\ (focus = "crates" => CrateInv)

(* The step of a package entry is one of its promise, and keeps it.         *)
LEMMA PkgRefines ==
  ASSUME focus = "pkgcache" => PkgInv, [HostNext]_<<focus, hostVars>>
  PROVE  /\ (focus = "pkgcache" => PkgInv)'
         /\ [Promise!PullThroughNext]_<<upstream, asked, answer>>
<1>1. focus' = focus
  BY DEF HostNext
<1>2. (focus = "pkgcache" /\ PkgNext) \/ UNCHANGED pkgVars
  BY DEF HostNext, HostMoves, HostFrozen, hostVars
<1>3. CASE UNCHANGED pkgVars
  BY <1>1, <1>3 DEF pkgVars, file, requests, PkgInv, PkgTyped, PkgKinds, PkgHeld, PkgFiles, MetaNeverAhead
<1>4. CASE focus = "pkgcache" /\ PkgNext
  <2>1. ASSUME PkgAnswered PROVE Promise!PullThroughNext
    BY <2>1 DEF PkgAnswered, PkgMay, Promise!PullThroughNext, Promise!PullThroughAnswer, Promise!Allowed
  <2>2. ASSUME upstream' \in upstream + 1..MaxVersion, UNCHANGED <<asked, answer>>
        PROVE  Promise!PullThroughNext
    <3>1. upstream' \in {n \in 1..MaxVersion : n > upstream}
      BY <1>4, <2>2, PkgCacheAssumption DEF PkgInv, PkgTyped
    <3> QED BY <2>2, <3>1 DEF Promise!PullThroughNext, Promise!PullThroughPublish
  <2>3. ASSUME \E c \in Clients : Promise!PullThroughAsk(c) PROVE Promise!PullThroughNext
    BY <2>3 DEF Promise!PullThroughNext
  <2> QED BY <1>1, <1>4, <2>1, <2>2, <2>3, PkgInvStep
<1> QED BY <1>2, <1>3, <1>4

(* So is the step of a crate's entry.                                       *)
LEMMA CrateRefines ==
  ASSUME focus = "crates" => CrateInv, [HostNext]_<<focus, hostVars>>
  PROVE  /\ (focus = "crates" => CrateInv)'
         /\ [CratePromise!PullThroughNext]_<<release, crateAsked, crateAnswer>>
<1>1. focus' = focus
  BY DEF HostNext
<1>2. (focus = "crates" /\ CrateNext) \/ UNCHANGED crateVars
  BY DEF HostNext, HostMoves, HostFrozen, hostVars
<1>3. CASE UNCHANGED crateVars
  BY <1>1, <1>3 DEF crateVars, crateFiles, crateReqs, CrateInv, CrateTyped, CrateKinds, CrateHeld
<1>4. CASE focus = "crates" /\ CrateNext
  <2>1. ASSUME CrateAnswered PROVE CratePromise!PullThroughNext
    BY <2>1 DEF CrateAnswered, CrateMay, CratePromise!PullThroughNext, CratePromise!PullThroughAnswer,
       CratePromise!Allowed
  <2>2. ASSUME release' \in release + 1..MaxRelease, UNCHANGED <<crateAsked, crateAnswer>>
        PROVE  CratePromise!PullThroughNext
    <3>1. release' \in {n \in 1..MaxRelease : n > release}
      BY <1>4, <2>2, CargoEntryAssumption DEF CrateInv, CrateTyped
    <3> QED BY <2>2, <3>1 DEF CratePromise!PullThroughNext, CratePromise!PullThroughPublish
  <2>3. ASSUME \E c \in Crates : CratePromise!PullThroughAsk(c) PROVE CratePromise!PullThroughNext
    BY <2>3 DEF CratePromise!PullThroughNext
  <2> QED BY <1>1, <1>4, <2>1, <2>2, <2>3, CrateInvStep
<1> QED BY <1>2, <1>3, <1>4

(* The two stores start as the promise does.                                *)
LEMMA EntriesStart ==
  ASSUME HostInit
  PROVE  EntriesInv /\ Promise!PullThroughInit /\ CratePromise!PullThroughInit
<1>1. PkgInv
  BY PkgAnswersAre, PkgCacheAssumption DEF HostInit, PkgInit, NoMeta, Metas, PkgInv, PkgTyped, PkgKinds, PkgHeld,
     PkgFiles, MetaNeverAhead, PkgPoints, PkgBefore, PkgWaiting, PkgHolding, PkgFetching
<1>2. CrateInv
  BY AnswersAre, CargoEntryAssumption DEF HostInit, CrateInit, NoSidecar, CrateInv, CrateTyped, CrateKinds,
     CrateHeld, CrateWaiting, Holding
<1>3. Promise!PullThroughInit
  BY DEF HostInit, PkgInit, Promise!PullThroughInit, Promise!Empty
<1>4. CratePromise!PullThroughInit
  BY DEF HostInit, CrateInit, CratePromise!PullThroughInit, CratePromise!Empty
<1> QED BY <1>1, <1>2, <1>3, <1>4 DEF EntriesInv

(* The package entry and the crate's entry implement the pull-through       *)
(* cache, for every number of requests, versions, evictions, restarts and   *)
(* failed writes: whoever is answered gets a published version, whole, and  *)
(* a confirmed one is at least what upstream had when the request came.     *)
THEOREM CachesImplementPullThrough == HostSpec => CachesKeepPromise
<1>1. focus \in HostParts /\ HostInit =>
        EntriesInv /\ Promise!PullThroughInit /\ CratePromise!PullThroughInit
  BY EntriesStart
<1>2. EntriesInv /\ [HostNext]_<<focus, hostVars>> => EntriesInv'
  BY PkgRefines, CrateRefines DEF EntriesInv
<1>3. EntriesInv /\ [HostNext]_<<focus, hostVars>> => [Promise!PullThroughNext]_(Promise!promised)
  BY PkgRefines DEF EntriesInv, Promise!promised
<1>4. EntriesInv /\ [HostNext]_<<focus, hostVars>> => [CratePromise!PullThroughNext]_(CratePromise!promised)
  BY CrateRefines DEF EntriesInv, CratePromise!promised
<1> QED BY <1>1, <1>2, <1>3, <1>4, PTL
    DEF HostSpec, HostStart, CachesKeepPromise, KeepsPromise, CrateKeepsPromise, Promise!PullThroughSpec, CratePromise!PullThroughSpec

-----------------------------------------------------------------------------
(* A set of numbers has a least one, so that a fact about a number may be   *)
(* proved from the same fact about the number before it.                    *)
LEMMA HasLeast ==
  ASSUME NEW S, S \subseteq Nat, S # {}
  PROVE  \E x \in S : \A y \in S : x <= y
<1> DEFINE Less == {ss \in Nat \X Nat : ss[1] < ss[2]}
<1>1. IsWellFoundedOn(Less, Nat)
  BY NatLessThanWellFounded DEF OpToRel
<1>2. PICK x \in S : \A y \in S : ~(<<y, x>> \in Less)
  <2> HIDE DEF Less
  <2> QED BY <1>1, WFMin
<1>3. ASSUME NEW y \in S PROVE x <= y
  <2>1. <<y, x>> \in Nat \X Nat /\ ~(<<y, x>> \in Less)
    BY <1>2
  <2>2. ~(<<y, x>>[1] < <<y, x>>[2])
    BY <2>1
  <2> QED BY <2>2
<1> QED BY <1>3

(* A collection that has the empty set, and has a finite set if it has what *)
(* remains of it without any one of its elements, has every finite set.     *)
LEMMA BySize ==
  ASSUME NEW T, IsFiniteSet(T), NEW P,
         {} \in P, \A s \in SUBSET T : s # {} /\ (\A x \in s : s \ {x} \in P) => s \in P
  PROVE  \A s \in SUBSET T : s \in P
<1> DEFINE Sizes == {n \in Nat : \E s \in SUBSET T : s \notin P /\ Cardinality(s) = n}
<1>1. ASSUME Sizes # {} PROVE FALSE
  <2>1. PICK n \in Sizes : \A m \in Sizes : n <= m
    <3>1. Sizes \subseteq Nat
      OBVIOUS
    <3> HIDE DEF Sizes
    <3> QED BY <1>1, <3>1, HasLeast
  <2>2. PICK s \in SUBSET T : s \notin P /\ Cardinality(s) = n
    OBVIOUS
  <2>3. PICK x \in s : s \ {x} \notin P
    BY <2>2
  <2>4. s \ {x} \in SUBSET T /\ s \ {x} \notin P
    BY <2>2, <2>3
  <2>5. Cardinality(s \ {x}) = n - 1 /\ n - 1 \in Nat
    <3>1. IsFiniteSet(s) /\ IsFiniteSet(s \ {x})
      BY FS_Subset
    <3>2. Cardinality(s \ {x}) = Cardinality(s) - 1
      BY <2>3, <3>1, FS_RemoveElement
    <3>3. Cardinality(s \ {x}) \in Nat
      BY <3>1, FS_CardinalityType
    <3> QED BY <2>2, <3>2, <3>3
  <2>6. n - 1 \in Sizes
    BY <2>4, <2>5
  <2>7. n \in Nat
    OBVIOUS
  <2> HIDE DEF Sizes
  <2> QED BY <2>1, <2>6, <2>7
<1>2. ASSUME NEW s \in SUBSET T, s \notin P PROVE FALSE
  <2>1. Cardinality(s) \in Sizes
    BY <1>2, FS_Subset, FS_CardinalityType
  <2> QED BY <1>1, <2>1
<1> QED BY <1>2

-----------------------------------------------------------------------------
(* What FoldSet computes: the sums over the subsets of a set, each from the *)
(* sum without one of its elements.                                         *)
Pick(s) == CHOOSE x \in s : TRUE

SumsUp(g, f, T) ==
  \A s \in SUBSET T : g[s] = IF s = {} THEN 0 ELSE g[s \ {Pick(s)}] + f[Pick(s)]

LEMMA PickIn == ASSUME NEW s, s # {} PROVE Pick(s) \in s
  BY DEF Pick

(* SumOf is the last entry of such a table ...                              *)
LEMMA SumIs ==
  ASSUME NEW f, NEW T
  PROVE  \E g : /\ g = CHOOSE h : h = [s \in SUBSET T |-> IF s = {} THEN 0 ELSE h[s \ {Pick(s)}] + f[Pick(s)]]
                /\ SumOf(f, T) = g[T]
<1> DEFINE g == CHOOSE h : h = [s \in SUBSET T |-> IF s = {} THEN 0 ELSE h[s \ {Pick(s)}] + f[Pick(s)]]
<1>1. SumOf(f, T) = g[T]
  BY DEF SumOf, FoldSet, MapThenFoldSet, Pick
<1> QED BY <1>1

(* A fold takes an element from each set and combines it with the rest.     *)
Picks(pick, T) == \A s \in SUBSET T : s # {} => pick[s] \in s
MapsInto(step, T, V) == \A s \in SUBSET T : \A v \in V : step[<<s, v>>] \in V
FoldsUp(g, T, zero, pick, step) ==
  \A s \in SUBSET T : g[s] = IF s = {} THEN zero ELSE step[<<s, g[s \ {pick[s]}]>>]

(* What is folded over the subsets of a finite set, whatever element is      *)
(* taken from each of them, can be tabulated.                               *)
LEMMA FoldTable ==
  ASSUME NEW T, IsFiniteSet(T), NEW V, NEW zero \in V, NEW pick, NEW step, Picks(pick, T), MapsInto(step, T, V)
  PROVE  \E g \in [SUBSET T -> V] : FoldsUp(g, T, zero, pick, step)
<1> DEFINE Upto(n) == {s \in SUBSET T : Cardinality(s) <= n}
           Fits(g, n) == \A s \in Upto(n) : g[s] = IF s = {} THEN zero ELSE step[<<s, g[s \ {pick[s]}]>>]
           Without == {n \in Nat : ~\E g \in [SUBSET T -> V] : Fits(g, n)}
<1>1. ASSUME NEW s \in SUBSET T, s # {}
      PROVE  /\ pick[s] \in s /\ s \ {pick[s]} \in SUBSET T
             /\ Cardinality(s \ {pick[s]}) = Cardinality(s) - 1 /\ Cardinality(s) \in Nat
  <2>1. pick[s] \in s
    BY <1>1 DEF Picks
  <2>2. IsFiniteSet(s)
    BY FS_Subset
  <2> QED BY <2>1, <2>2, FS_RemoveElement, FS_CardinalityType
<1>2. \A s \in SUBSET T : Cardinality(s) \in Nat /\ (Cardinality(s) = 0 => s = {})
  BY FS_Subset, FS_CardinalityType, FS_EmptySet
<1>3. ASSUME Without # {} PROVE FALSE
  <2>1. PICK n \in Without : \A m \in Without : n <= m
    <3>1. Without \subseteq Nat
      OBVIOUS
    <3> HIDE DEF Without
    <3> QED BY <1>3, <3>1, HasLeast
  <2>2. n \in Nat /\ ~\E g \in [SUBSET T -> V] : Fits(g, n)
    OBVIOUS
  <2>3. n # 0
    <3>1. Fits([s \in SUBSET T |-> zero], 0)
      BY <1>2
    <3>2. [s \in SUBSET T |-> zero] \in [SUBSET T -> V]
      OBVIOUS
    <3> HIDE DEF Fits
    <3> QED BY <2>2, <3>1, <3>2
  <2>4. PICK g \in [SUBSET T -> V] : Fits(g, n - 1)
    <3>1. n - 1 \in Nat /\ ~(n <= n - 1)
      BY <2>2, <2>3
    <3>2. n - 1 \notin Without
      <4> HIDE DEF Without
      <4> QED BY <2>1, <3>1
    <3> QED BY <3>1, <3>2
  <2> DEFINE h == [s \in SUBSET T |-> IF s = {} THEN zero ELSE step[<<s, g[s \ {pick[s]}]>>]]
  <2>5. h \in [SUBSET T -> V]
    <3> SUFFICES ASSUME NEW s \in SUBSET T, s # {} PROVE step[<<s, g[s \ {pick[s]}]>>] \in V
      OBVIOUS
    <3>1. s \ {pick[s]} \in SUBSET T
      OBVIOUS
    <3>2. g[s \ {pick[s]}] \in V
      BY <3>1
    <3> QED BY <3>2 DEF MapsInto
  <2>6. \A s \in Upto(n - 1) : h[s] = g[s]
    BY <2>4
  <2>7. Fits(h, n)
    <3> SUFFICES ASSUME NEW s \in Upto(n), s # {} PROVE h[s] = step[<<s, h[s \ {pick[s]}]>>]
      BY <1>2
    <3>1. s \ {pick[s]} \in Upto(n - 1)
      BY <1>1, <2>2
    <3>2. h[s] = step[<<s, g[s \ {pick[s]}]>>]
      OBVIOUS
    <3> HIDE DEF h, Upto
    <3> QED BY <2>6, <3>1, <3>2
  <2> HIDE DEF h, Fits
  <2> QED BY <2>2, <2>5, <2>7
<1>4. Cardinality(T) \in Nat /\ \A s \in SUBSET T : s \in Upto(Cardinality(T))
  BY FS_Subset, FS_CardinalityType
<1>5. PICK g \in [SUBSET T -> V] : Fits(g, Cardinality(T))
  BY <1>3, <1>4
<1> QED BY <1>4, <1>5 DEF FoldsUp

(* ... which exists, since the set is finite ...                            *)
LEMMA TableExists ==
  ASSUME NEW f, NEW T, IsFiniteSet(T), \A k \in T : f[k] \in Nat
  PROVE  \E g \in [SUBSET T -> Nat] : SumsUp(g, f, T)
<1> DEFINE pick == [s \in SUBSET T |-> Pick(s)]
           step == [p \in (SUBSET T) \X Nat |-> IF p[1] = {} THEN 0 ELSE p[2] + f[Pick(p[1])]]
<1>1. ASSUME NEW s \in SUBSET T, s # {} PROVE pick[s] = Pick(s) /\ Pick(s) \in s
  BY <1>1, PickIn
<1>2. \A s \in SUBSET T, v \in Nat : s # {} => step[<<s, v>>] = v + f[Pick(s)]
  OBVIOUS
<1>3. MapsInto(step, T, Nat)
  <2> SUFFICES ASSUME NEW s \in SUBSET T, NEW v \in Nat, s # {} PROVE v + f[Pick(s)] \in Nat
    BY DEF MapsInto
  <2> QED BY PickIn
<1>4. Picks(pick, T)
  BY <1>1 DEF Picks
<1> HIDE DEF pick, step
<1>5. PICK g \in [SUBSET T -> Nat] : FoldsUp(g, T, 0, pick, step)
  BY <1>3, <1>4, FoldTable
<1>6. ASSUME NEW s \in SUBSET T, s # {} PROVE g[s] = g[s \ {Pick(s)}] + f[Pick(s)]
  <2>1. g[s \ {Pick(s)}] \in Nat
    OBVIOUS
  <2> QED BY <1>1, <1>2, <1>5, <1>6, <2>1 DEF FoldsUp
<1> QED BY <1>5, <1>6 DEF SumsUp, FoldsUp

(* ... and says the same as the one of a larger set.                        *)
LEMMA TablesAgree ==
  ASSUME NEW f, NEW U, NEW T \in SUBSET U, IsFiniteSet(T), NEW g, NEW h, SumsUp(g, f, T), SumsUp(h, f, U)
  PROVE  g[T] = h[T]
<1> DEFINE P == {s \in SUBSET T : g[s] = h[s]}
<1>1. {} \in P
  BY DEF SumsUp
<1>2. ASSUME NEW s \in SUBSET T, s # {}, \A x \in s : s \ {x} \in P PROVE s \in P
  <2>1. Pick(s) \in s
    BY <1>2, PickIn
  <2>2. g[s \ {Pick(s)}] = h[s \ {Pick(s)}]
    BY <1>2, <2>1
  <2>3. s \in SUBSET U
    OBVIOUS
  <2> QED BY <1>2, <2>2, <2>3 DEF SumsUp
<1> HIDE DEF P
<1>3. \A s \in SUBSET T : s \in P
  BY <1>1, <1>2, BySize
<1>4. T \in P
  BY <1>3
<1> QED BY <1>4 DEF P

(* So one table has the sum over every subset.                              *)
LEMMA SumTable ==
  ASSUME NEW f, NEW T, IsFiniteSet(T), \A k \in T : f[k] \in Nat
  PROVE  \E g \in [SUBSET T -> Nat] : SumsUp(g, f, T) /\ \A s \in SUBSET T : SumOf(f, s) = g[s]
<1>1. PICK g \in [SUBSET T -> Nat] : SumsUp(g, f, T)
  BY TableExists
<1>2. ASSUME NEW s \in SUBSET T PROVE SumOf(f, s) = g[s]
  <2> DEFINE R(h) == [r \in SUBSET s |-> IF r = {} THEN 0 ELSE h[r \ {Pick(r)}] + f[Pick(r)]]
  <2>1. IsFiniteSet(s) /\ \A k \in s : f[k] \in Nat
    BY FS_Subset
  <2>2. PICK h \in [SUBSET s -> Nat] : SumsUp(h, f, s)
    BY <2>1, TableExists
  <2>3. h = R(h)
    BY <2>2 DEF SumsUp
  <2>4. PICK c : c = (CHOOSE d : d = R(d)) /\ SumOf(f, s) = c[s]
    BY SumIs
  <2>5. c = R(c)
    <3> HIDE DEF R
    <3> QED BY <2>3, <2>4
  <2>6. SumsUp(c, f, s)
    <3> SUFFICES ASSUME NEW r \in SUBSET s PROVE c[r] = IF r = {} THEN 0 ELSE c[r \ {Pick(r)}] + f[Pick(r)]
      BY DEF SumsUp
    <3>1. c[r] = R(c)[r]
      BY <2>5
    <3> QED BY <3>1
  <2>7. c[s] = g[s]
    BY <1>1, <2>1, <2>6, TablesAgree
  <2> QED BY <2>4, <2>7
<1> QED BY <1>1, <1>2

(* A sum is a number, and the element that is taken from it first does not  *)
(* matter.                                                                  *)
LEMMA SumPlus ==
  ASSUME NEW f, NEW T, IsFiniteSet(T), \A k \in T : f[k] \in Nat
  PROVE  /\ \A s \in SUBSET T : SumOf(f, s) \in Nat /\ \A x \in s : SumOf(f, s) = SumOf(f, s \ {x}) + f[x]
         /\ SumOf(f, {}) = 0
<1>1. PICK g \in [SUBSET T -> Nat] : SumsUp(g, f, T) /\ \A s \in SUBSET T : SumOf(f, s) = g[s]
  BY SumTable
<1> DEFINE P == {s \in SUBSET T : \A x \in s : g[s] = g[s \ {x}] + f[x]}
<1>2. {} \in P
  OBVIOUS
<1>3. ASSUME NEW s \in SUBSET T, s # {}, \A x \in s : s \ {x} \in P PROVE s \in P
  <2> SUFFICES ASSUME NEW x \in s PROVE g[s] = g[s \ {x}] + f[x]
    OBVIOUS
  <2> DEFINE y == Pick(s)
  <2>1. y \in s /\ g[s] = g[s \ {y}] + f[y]
    BY <1>1, <1>3, PickIn DEF SumsUp
  <2> HIDE DEF y
  <2>2. CASE x = y
    BY <2>1, <2>2
  <2>3. CASE x # y
    <3>1. g[s \ {y}] = g[(s \ {y}) \ {x}] + f[x]
      BY <1>3, <2>1, <2>3
    <3>2. g[s \ {x}] = g[(s \ {x}) \ {y}] + f[y]
      BY <1>3, <2>1, <2>3
    <3>3. (s \ {x}) \ {y} = (s \ {y}) \ {x}
      OBVIOUS
    <3>4. g[(s \ {y}) \ {x}] \in Nat /\ f[x] \in Nat /\ f[y] \in Nat
      BY <1>1, <2>1
    <3>5. g[s] = g[(s \ {y}) \ {x}] + f[x] + f[y]
      BY <2>1, <3>1
    <3>6. g[s \ {x}] = g[(s \ {y}) \ {x}] + f[y]
      BY <3>2, <3>3
    <3> HIDE DEF P
    <3> QED BY <3>4, <3>5, <3>6
  <2> QED BY <2>2, <2>3
<1>4. \A s \in SUBSET T : s \in P
  <2> HIDE DEF P
  <2> QED BY <1>2, <1>3, BySize
<1>5. SumOf(f, {}) = 0
  BY <1>1 DEF SumsUp
<1> QED BY <1>1, <1>4, <1>5

(* Two functions that agree on a set have the same sum over it.             *)
LEMMA SumSame ==
  ASSUME NEW f, NEW h, NEW T, IsFiniteSet(T), \A k \in T : f[k] \in Nat /\ h[k] = f[k]
  PROVE  SumOf(h, T) = SumOf(f, T)
<1> DEFINE P == {s \in SUBSET T : SumOf(h, s) = SumOf(f, s)}
<1>1. {} \in P
  BY SumPlus
<1>2. ASSUME NEW s \in SUBSET T, s # {}, \A x \in s : s \ {x} \in P PROVE s \in P
  <2>1. PICK x \in s : TRUE
    BY <1>2
  <2>2. SumOf(h, s) = SumOf(h, s \ {x}) + h[x] /\ SumOf(f, s) = SumOf(f, s \ {x}) + f[x]
    BY <2>1, SumPlus
  <2> QED BY <1>2, <2>1, <2>2
<1> HIDE DEF P
<1>3. \A s \in SUBSET T : s \in P
  BY <1>1, <1>2, BySize
<1>4. T \in P
  BY <1>3
<1> QED BY <1>4 DEF P

(* The sum over two sets that share nothing.                                *)
LEMMA SumSplit ==
  ASSUME NEW f, NEW T, IsFiniteSet(T), \A k \in T : f[k] \in Nat, NEW A \in SUBSET T
  PROVE  SumOf(f, T) = SumOf(f, A) + SumOf(f, T \ A)
<1> DEFINE P == {s \in SUBSET A : SumOf(f, s \cup (T \ A)) = SumOf(f, s) + SumOf(f, T \ A)}
<1>0. IsFiniteSet(A) /\ SumOf(f, {}) = 0 /\ \A s \in SUBSET T : SumOf(f, s) \in Nat
  BY FS_Subset, SumPlus
<1>1. {} \in P
  <2>1. {} \cup (T \ A) = T \ A
    OBVIOUS
  <2> QED BY <1>0, <2>1
<1>2. ASSUME NEW s \in SUBSET A, s # {}, \A x \in s : s \ {x} \in P PROVE s \in P
  <2>1. PICK x \in s : TRUE
    BY <1>2
  <2>2. (s \cup (T \ A)) \ {x} = (s \ {x}) \cup (T \ A)
    BY <2>1
  <2>3. /\ SumOf(f, s) = SumOf(f, s \ {x}) + f[x]
        /\ SumOf(f, s \cup (T \ A)) = SumOf(f, (s \cup (T \ A)) \ {x}) + f[x]
    <3>1. s \in SUBSET T /\ s \cup (T \ A) \in SUBSET T /\ x \in s \cup (T \ A)
      OBVIOUS
    <3> QED BY <2>1, <3>1, SumPlus
  <2>4. SumOf(f, (s \ {x}) \cup (T \ A)) = SumOf(f, s \ {x}) + SumOf(f, T \ A)
    BY <1>2, <2>1
  <2>5. SumOf(f, s \ {x}) \in Nat /\ SumOf(f, T \ A) \in Nat /\ f[x] \in Nat
    BY <1>0
  <2>6. SumOf(f, s \cup (T \ A)) = SumOf(f, s \ {x}) + SumOf(f, T \ A) + f[x]
    BY <2>2, <2>3, <2>4
  <2>7. SumOf(f, s \cup (T \ A)) = SumOf(f, s) + SumOf(f, T \ A)
    BY <2>3, <2>5, <2>6
  <2> QED BY <2>7
<1>3. A \in P
  <2> HIDE DEF P
  <2> QED BY <1>0, <1>1, <1>2, BySize
<1>4. A \cup (T \ A) = T
  OBVIOUS
<1> QED BY <1>3, <1>4

-----------------------------------------------------------------------------
(* The order of use: what Dropped leaves of it.                             *)
LEMMA MaxIn == ASSUME NEW n \in Nat, NEW r \in SUBSET (1..n), r # {} PROVE Max(r) \in r
<1> DEFINE Below == {n - x : x \in r}
<1>1. Below \subseteq Nat /\ Below # {}
  <2>1. \A x \in r : n - x \in Nat
    OBVIOUS
  <2> QED BY <2>1
<1>2. PICK b \in Below : \A y \in Below : b <= y
  <2> HIDE DEF Below
  <2> QED BY <1>1, HasLeast
<1>3. PICK x \in r : b = n - x
  OBVIOUS
<1>4. ASSUME NEW y \in r PROVE x >= y
  <2>1. n - y \in Below /\ x \in 1..n /\ y \in 1..n
    OBVIOUS
  <2>2. n - x <= n - y
    BY <1>2, <1>3, <2>1
  <2> QED BY <2>1, <2>2
<1> QED BY <1>4 DEF Max

LEMMA DroppedIs ==
  ASSUME NEW s, NEW out
  PROVE  \E c : /\ c = CHOOSE h : h = [r \in SUBSET DOMAIN s |->
                     IF r = {} THEN <<>>
                     ELSE IF s[Max(r)] \in out THEN h[r \ {Max(r)}] ELSE Append(h[r \ {Max(r)}], s[Max(r)])]
                /\ Dropped(s, out) = c[DOMAIN s]
<1> DEFINE g == CHOOSE h : h = [r \in SUBSET DOMAIN s |->
                     IF r = {} THEN <<>>
                     ELSE IF s[Max(r)] \in out THEN h[r \ {Max(r)}] ELSE Append(h[r \ {Max(r)}], s[Max(r)])]
<1>1. Dropped(s, out) = g[DOMAIN s]
  BY DEF Dropped, FoldLeft, MapThenFoldSet
<1> QED BY <1>1

LEMMA AppendedSet ==
  ASSUME NEW K, NEW t \in Seq(K), NEW x \in K
  PROVE  Append(t, x) \in Seq(K) /\ ToSet(Append(t, x)) = ToSet(t) \cup {x}
<1>1. Append(t, x) \in Seq(K) /\ DOMAIN t = 1..Len(t) /\ DOMAIN Append(t, x) = 1..(Len(t) + 1) /\ Len(t) \in Nat
  OBVIOUS
<1>2. /\ \A i \in 1..Len(t) : Append(t, x)[i] = t[i]
      /\ Append(t, x)[Len(t) + 1] = x
  OBVIOUS
<1>3. \A i \in 1..(Len(t) + 1) : i \in 1..Len(t) \/ i = Len(t) + 1
  BY <1>1
<1>4. \A i : i \in 1..Len(t) \/ i = Len(t) + 1 => i \in 1..(Len(t) + 1)
  BY <1>1
<1> DEFINE u == Append(t, x)  m == Len(t)
<1>5. ToSet(t) = {t[i] : i \in 1..m} /\ ToSet(u) = {u[i] : i \in 1..(m + 1)}
  BY <1>1 DEF ToSet
<1>6. /\ u \in Seq(K)
      /\ \A i \in 1..m : u[i] = t[i]
      /\ u[m + 1] = x
      /\ \A i : i \in 1..(m + 1) <=> (i \in 1..m \/ i = m + 1)
  BY <1>1, <1>2, <1>3, <1>4
<1> HIDE DEF u, m
<1>7. u \in Seq(K) /\ ToSet(u) = ToSet(t) \cup {x}
  BY <1>5, <1>6
<1> QED BY <1>7 DEF u

LEMMA AppendedOnce ==
  ASSUME NEW K, NEW t \in Seq(K), NEW x \in K, IsInjective(t), x \notin ToSet(t)
  PROVE  IsInjective(Append(t, x))
<1> DEFINE u == Append(t, x)  m == Len(t)
<1>1. /\ m \in Nat /\ DOMAIN t = 1..m /\ DOMAIN u = 1..(m + 1)
      /\ \A i \in 1..m : u[i] = t[i]
      /\ u[m + 1] = x
  OBVIOUS
<1> HIDE DEF u, m
<1>2. \A i \in 1..m : t[i] # x
  BY <1>1 DEF ToSet
<1>3. ASSUME NEW i \in 1..(m + 1), NEW j \in 1..(m + 1), u[i] = u[j] PROVE i = j
  <2>1. (i \in 1..m \/ i = m + 1) /\ (j \in 1..m \/ j = m + 1)
    BY <1>1
  <2>2. CASE i \in 1..m /\ j \in 1..m
    BY <1>1, <1>3, <2>2 DEF IsInjective
  <2> QED BY <1>1, <1>2, <1>3, <2>1, <2>2
<1>4. IsInjective(u)
  BY <1>1, <1>3 DEF IsInjective
<1> QED BY <1>4 DEF u

(* What is left of the order holds what was in it and is not dropped, and   *)
(* each but once when each was in it once.                                  *)
LEMMA DroppedKeeps ==
  ASSUME NEW K, NEW s \in Seq(K), NEW out
  PROVE  /\ Dropped(s, out) \in Seq(K) /\ ToSet(Dropped(s, out)) = ToSet(s) \ out
         /\ IsInjective(s) => IsInjective(Dropped(s, out))
<1> DEFINE T == DOMAIN s
           R(h) == [r \in SUBSET T |->
                     IF r = {} THEN <<>>
                     ELSE IF s[Max(r)] \in out THEN h[r \ {Max(r)}] ELSE Append(h[r \ {Max(r)}], s[Max(r)])]
<1>1. T = 1..Len(s) /\ Len(s) \in Nat /\ IsFiniteSet(T) /\ \A i \in T : s[i] \in K
  <2>1. T = 1..Len(s) /\ Len(s) \in Nat /\ \A i \in T : s[i] \in K
    OBVIOUS
  <2> QED BY <2>1, FS_Interval
<1>2. \A r \in SUBSET T : r # {} => Max(r) \in r
  BY <1>1, MaxIn
<1>3. \E h \in [SUBSET T -> Seq(K)] : h = R(h)
  <2> DEFINE pick == [r \in SUBSET T |-> Max(r)]
             step == [p \in (SUBSET T) \X Seq(K) |->
                        IF p[1] = {} \/ s[Max(p[1])] \in out THEN p[2] ELSE Append(p[2], s[Max(p[1])])]
  <2>1. Picks(pick, T)
    BY <1>2 DEF Picks
  <2>2. MapsInto(step, T, Seq(K))
    <3> SUFFICES ASSUME NEW r \in SUBSET T, NEW v \in Seq(K), r # {} PROVE Append(v, s[Max(r)]) \in Seq(K)
      BY DEF MapsInto
    <3>1. s[Max(r)] \in K
      BY <1>1, <1>2
    <3> QED BY <3>1
  <2>3. \A r \in SUBSET T : \A v \in Seq(K) : r # {} =>
          step[<<r, v>>] = IF s[Max(r)] \in out THEN v ELSE Append(v, s[Max(r)])
    OBVIOUS
  <2>4. \A r \in SUBSET T : pick[r] = Max(r)
    OBVIOUS
  <2>5. <<>> \in Seq(K)
    OBVIOUS
  <2> HIDE DEF pick, step
  <2>6. PICK h \in [SUBSET T -> Seq(K)] : FoldsUp(h, T, <<>>, pick, step)
    <3> HIDE DEF T
    <3> QED BY <1>1, <2>1, <2>2, <2>5, FoldTable
  <2>7. ASSUME NEW r \in SUBSET T PROVE h[r] = R(h)[r]
    <3>1. r \ {Max(r)} \in SUBSET T
      OBVIOUS
    <3>2. h[r \ {Max(r)}] \in Seq(K)
      BY <3>1
    <3> QED BY <2>3, <2>4, <2>6, <3>2 DEF FoldsUp
  <2>8. h = R(h)
    <3> DEFINE q == R(h)
    <3>1. DOMAIN q = SUBSET T /\ q = [r \in SUBSET T |-> q[r]]
      OBVIOUS
    <3>2. \A r \in SUBSET T : h[r] = q[r]
      BY <2>7
    <3> HIDE DEF q
    <3>3. h = q
      BY <3>1, <3>2
    <3> QED BY <3>3 DEF q
  <2> QED BY <2>8
<1>4. PICK c : c = (CHOOSE h : h = R(h)) /\ Dropped(s, out) = c[T]
  BY DroppedIs
<1>5. c = R(c)
  <2> HIDE DEF R
  <2> QED BY <1>3, <1>4
<1>6. \A r \in SUBSET T : c[r] = R(c)[r]
  BY <1>5
<1> DEFINE P == {r \in SUBSET T : /\ c[r] \in Seq(K) /\ ToSet(c[r]) = {s[i] : i \in r} \ out
                                  /\ IsInjective(s) => IsInjective(c[r])}
<1>7. {} \in P
  <2>1. c[{}] = <<>>
    BY <1>6
  <2>2. <<>> \in Seq(K) /\ ToSet(<<>>) = {} /\ IsInjective(<<>>)
    BY DEF ToSet, IsInjective
  <2> QED BY <2>1, <2>2
<1>8. ASSUME NEW r \in SUBSET T, r # {}, \A x \in r : r \ {x} \in P PROVE r \in P
  <2> DEFINE m == Max(r)  v == c[r \ {m}]
  <2>1. m \in r /\ s[m] \in K
    BY <1>1, <1>2, <1>8
  <2>2. /\ v \in Seq(K) /\ ToSet(v) = {s[i] : i \in r \ {m}} \ out
        /\ IsInjective(s) => IsInjective(v)
    BY <1>8, <2>1
  <2>3. c[r] = IF s[m] \in out THEN v ELSE Append(v, s[m])
    BY <1>6, <1>8
  <2>4. IsInjective(s) => s[m] \notin {s[i] : i \in r \ {m}}
    <3> HIDE DEF m
    <3> QED BY <2>1 DEF IsInjective
  <2> HIDE DEF m, v
  <2>5. CASE s[m] \in out
    BY <2>1, <2>2, <2>3, <2>5
  <2>6. CASE s[m] \notin out
    <3>1. Append(v, s[m]) \in Seq(K) /\ ToSet(Append(v, s[m])) = ToSet(v) \cup {s[m]}
      BY <2>1, <2>2, AppendedSet
    <3>2. IsInjective(s) => IsInjective(Append(v, s[m]))
      BY <2>1, <2>2, <2>4, AppendedOnce
    <3>3. c[r] = Append(v, s[m])
      BY <2>3, <2>6
    <3>4. ToSet(c[r]) = {s[i] : i \in r} \ out
      BY <2>1, <2>2, <2>6, <3>1, <3>3
    <3> QED BY <3>1, <3>2, <3>3, <3>4
  <2> QED BY <2>5, <2>6
<1>9. T \in P
  <2> HIDE DEF P
  <2>1. \A r \in SUBSET T : r \in P
    BY <1>1, <1>7, <1>8, BySize
  <2> QED BY <2>1
<1> QED BY <1>4, <1>9 DEF ToSet

-----------------------------------------------------------------------------
(* ModuleCache.  A file becomes whole by a rename alone, and the temporary  *)
(* file behind it is the renaming request's own, and read to its end.       *)
RenamesWhole == \A f \in Fetches : modAt[f] = "rename" => modGot[f] = Whole

ModInv == ModuleTypeOK /\ CachedIsWhole /\ TempsOwned /\ RenamesWhole

LEMMA ModInvStep == ModInv /\ ModuleNext => ModInv'
<1> SUFFICES ASSUME ModInv, ModuleNext PROVE ModInv'
  OBVIOUS
<1> USE ModuleCacheAssumption
    DEF ModInv, ModuleTypeOK, CachedIsWhole, TempsOwned, RenamesWhole, Turns, Returns, Locked, Downloading, modFiles, modPruner,
        NoFetch, Absent, Whole, Part, Orphan
<1>1. ASSUME NEW f \in Fetches, handle(f) PROVE ModInv'
  BY <1>1 DEF handle
<1>2. ASSUME NEW f \in Fetches, Stat(f) PROVE ModInv'
  BY <1>2 DEF Stat
<1>3. ASSUME NEW f \in Fetches, ServeFile(f) PROVE ModInv'
  BY <1>3 DEF ServeFile
<1>4. ASSUME NEW f \in Fetches, getInflightMutex(f) PROVE ModInv'
  BY <1>4 DEF getInflightMutex
<1>5. ASSUME NEW f \in Fetches, upstreamGet(f) PROVE ModInv'
  BY <1>5 DEF upstreamGet
<1>6. ASSUME NEW f \in Fetches, MkdirAll(f) PROVE ModInv'
  BY <1>6 DEF MkdirAll
<1>7. ASSUME NEW f \in Fetches, CreateTemp(f) PROVE ModInv'
  BY <1>7 DEF CreateTemp
<1>8. ASSUME NEW f \in Fetches, TeeDone(f) PROVE ModInv'
  BY <1>8 DEF TeeDone
<1>9. ASSUME NEW f \in Fetches, TeeFails(f) PROVE ModInv'
  BY <1>9 DEF TeeFails
<1>10. ASSUME NEW f \in Fetches, Rename(f) PROVE ModInv'
  BY <1>10 DEF Rename
<1>11. CASE Prune
  BY <1>11 DEF Prune
<1>12. CASE PruneRemoves
  BY <1>12 DEF PruneRemoves
<1>13. CASE removeEmptyDirs
  BY <1>13 DEF removeEmptyDirs
<1>14. CASE StopProxy \/ BodyDrained
  BY <1>14 DEF StopProxy, BodyDrained
<1>15. CASE CleanupFetch
  BY <1>15 DEF CleanupFetch
<1>16. CASE ModCrash
  BY <1>16 DEF ModCrash
<1> QED BY <1>1, <1>2, <1>3, <1>4, <1>5, <1>6, <1>7, <1>8, <1>9, <1>10, <1>11, <1>12, <1>13, <1>14, <1>15, <1>16
    DEF ModuleNext, FetchStep

-----------------------------------------------------------------------------
(* ActionsCache.  Tokens are handed out in order, so that a new one is      *)
(* nobody's; what streams, is finalized or saved belongs to one handed out  *)
(* before; and the two maps name the same uploads.                          *)
HandedOut(t) == pendingOf[t].runner # NoSaver

Pendings == [runner : Savers \cup {NoSaver}, blocks : SUBSET Blocks, order : BOOLEAN, failed : BOOLEAN]

ActionsTyped ==
  /\ boundJob \in [Savers -> {"tracked", "bound", "dropped", "forgotten"}]
  /\ byKey \in [Savers -> Tokens \cup {NoToken}]
  /\ pendingOf \in [Tokens -> Pendings]
  /\ sending \in [Tokens -> SUBSET Blocks] /\ creating \subseteq Savers
  /\ uploads \subseteq Tokens /\ finalizing \subseteq Tokens \ uploads
  /\ acManifest \in Tokens \cup {NoToken} /\ inIndex \in Tokens \cup {NoToken}

InOrder == \E n \in 0..MaxTokens : \A t \in Tokens : HandedOut(t) <=> t <= n

UntakenIsBare ==
  \A t \in Tokens : ~HandedOut(t) =>
    /\ pendingOf[t] = NoPending /\ sending[t] = {}
    /\ t \notin uploads \cup finalizing /\ t # acManifest /\ t # inIndex

KeysOwned ==
  /\ \A r \in Savers : byKey[r] # NoToken => byKey[r] \in uploads /\ pendingOf[byKey[r]].runner = r
  /\ \A t \in uploads : byKey[pendingOf[t].runner] = t

ActionsInv == ActionsTyped /\ InOrder /\ UntakenIsBare /\ KeysOwned /\ SavedWhole

(* Blocks that are sent again are still the archive's.                      *)
LEMMA StaysAll == ASSUME NEW X, NEW Y, X \subseteq Y, Y \subseteq X PROVE Y = X
  OBVIOUS

(* The token that is reserved is the first that is free.                    *)
LEMMA FreshToken ==
  ASSUME ActionsInv, NEW t \in Tokens, t = Cardinality(EntryUsed) + 1
  PROVE  ~HandedOut(t) /\ \A u \in Tokens : HandedOut(u) <=> u <= t - 1
<1>1. PICK n \in 0..MaxTokens : \A u \in Tokens : HandedOut(u) <=> u <= n
  BY DEF ActionsInv, InOrder
<1>2. \A u \in Tokens : u \in EntryUsed <=> HandedOut(u)
  <2>1. ASSUME NEW u \in Tokens, HandedOut(u) PROVE pendingOf[u] # NoPending
    <3>1. NoPending.runner = NoSaver
      BY DEF NoPending
    <3> QED BY <2>1, <3>1 DEF HandedOut
  <2>2. ASSUME NEW u \in Tokens, ~HandedOut(u) PROVE pendingOf[u] = NoPending
    BY <2>2 DEF ActionsInv, UntakenIsBare
  <2> QED BY <2>1, <2>2 DEF EntryUsed
<1>3. EntryUsed = 1..n
  BY <1>1, <1>2, ActionsCacheAssumption DEF EntryUsed, Tokens
<1>4. Cardinality(EntryUsed) = n
  BY <1>3, FS_Interval, ActionsCacheAssumption
<1> QED BY <1>1, <1>4, ActionsCacheAssumption DEF Tokens

(* What a step makes of a pending upload is one.                            *)
LEMMA PendingsMade ==
  ASSUME NEW u \in Pendings, NEW b \in Blocks
  PROVE  /\ [u EXCEPT !.order = TRUE] \in Pendings /\ [u EXCEPT !.failed = TRUE] \in Pendings
         /\ [u EXCEPT !.blocks = @ \cup {b}] \in Pendings
  BY DEF Pendings

LEMMA ActionsInvStep == ActionsInv /\ ActionsNext => ActionsInv'
<1> SUFFICES ASSUME ActionsInv, ActionsNext PROVE ActionsInv'
  OBVIOUS
<1>0. NoToken \notin Tokens
  BY DEF NoToken, Tokens
<1> USE ActionsCacheAssumption, <1>0
    DEF ActionsInv, ActionsTyped, InOrder, UntakenIsBare, KeysOwned, SavedWhole, HandedOut, acMaps, acStore
<1>1. ASSUME NEW r \in Savers, Bind(r) PROVE ActionsInv'
  BY <1>1 DEF Bind
<1>2. ASSUME NEW r \in Savers, Forget(r) PROVE ActionsInv'
  BY <1>2 DEF Forget
<1>3. ASSUME NEW r \in Savers, createEntry(r) PROVE ActionsInv'
  BY <1>3 DEF createEntry
<1>4. ASSUME NEW r \in Savers, finalizeEntry(r) PROVE ActionsInv'
  BY <1>4 DEF finalizeEntry
<1>5. ASSUME NEW r \in Savers, NEW t \in Tokens, Reserve(r, t) PROVE ActionsInv'
  <2>1. ~HandedOut(t) /\ \A u \in Tokens : HandedOut(u) <=> u <= t - 1
    BY <1>5, FreshToken DEF Reserve
  <2>2. InOrder'
    <3>1. \A u \in Tokens : HandedOut(u)' <=> u <= t
      BY <1>5, <2>1 DEF Reserve, FreshTokens, Tokens
    <3>2. t \in 0..MaxTokens
      BY DEF Tokens
    <3> QED BY <3>1, <3>2
  <2>3. ActionsTyped'
    BY <1>5, <2>1 DEF Reserve, FreshTokens, Pendings
  <2>4. UntakenIsBare'
    BY <1>5, <2>1 DEF Reserve, FreshTokens
  <2>5. KeysOwned'
    BY <1>5, <2>1 DEF Reserve, FreshTokens
  <2>6. SavedWhole'
    BY <1>5, <2>1 DEF Reserve, FreshTokens
  <2> QED BY <2>2, <2>3, <2>4, <2>5, <2>6
<1>6. ASSUME NEW t \in Tokens, parseBlockList(t) PROVE ActionsInv'
  <2>1. pendingOf' = [pendingOf EXCEPT ![t].order = TRUE] /\ HandedOut(t)
    BY <1>6 DEF parseBlockList
  <2>2. \A u \in Tokens : /\ pendingOf'[u].runner = pendingOf[u].runner /\ pendingOf'[u].blocks = pendingOf[u].blocks
                          /\ ~HandedOut(u) => pendingOf'[u] = pendingOf[u]
    BY <2>1
  <2>3. ActionsTyped'
    <3>1. [pendingOf[t] EXCEPT !.order = TRUE] \in Pendings
      <4>1. pendingOf[t] \in Pendings
        OBVIOUS
      <4> QED BY <4>1 DEF Pendings
    <3> QED BY <1>6, <2>1, <3>1 DEF parseBlockList
  <2> QED BY <1>6, <2>2, <2>3 DEF parseBlockList
<1>7. ASSUME NEW t \in Tokens, finalizeRefuses(t) PROVE ActionsInv'
  BY <1>7 DEF finalizeRefuses
<1>8. ASSUME NEW t \in Tokens, putManifest(t) PROVE ActionsInv'
  BY <1>8 DEF putManifest, committed
<1>9. ASSUME NEW t \in Tokens, expire(t) PROVE ActionsInv'
  BY <1>9 DEF expire, Pendings
<1>10. ASSUME NEW t \in Tokens, NEW b \in Blocks, serveUpload(t, b) PROVE ActionsInv'
  BY <1>10 DEF serveUpload
<1>11. ASSUME NEW t \in Tokens, NEW b \in Blocks, storeBlock(t, b) PROVE ActionsInv'
  <2>1. HandedOut(t) /\ UNCHANGED <<boundJob, uploads, byKey, creating, finalizing, acManifest, inIndex>>
        /\ sending' = [sending EXCEPT ![t] = @ \ {b}]
    BY <1>11 DEF storeBlock
  <2>2. PICK u \in Pendings : /\ pendingOf' = [pendingOf EXCEPT ![t] = u] /\ u.runner = pendingOf[t].runner
                             /\ pendingOf[t].blocks \subseteq u.blocks
    <3>1. pendingOf[t] \in Pendings
      OBVIOUS
    <3>2. CASE pendingOf' = [pendingOf EXCEPT ![t].blocks = @ \cup {b}]
      <4>1. [pendingOf[t] EXCEPT !.blocks = @ \cup {b}] \in Pendings
        BY <3>1, PendingsMade
      <4> QED BY <3>1, <3>2, <4>1 DEF Pendings
    <3>3. CASE pendingOf' = [pendingOf EXCEPT ![t].failed = TRUE]
      <4>1. [pendingOf[t] EXCEPT !.failed = TRUE] \in Pendings
        BY <3>1, PendingsMade
      <4> QED BY <3>1, <3>3, <4>1 DEF Pendings
    <3> QED BY <1>11, <3>2, <3>3 DEF storeBlock
  <2>3. ActionsTyped'
    BY <2>1, <2>2
  <2>4. SavedWhole'
    <3>1. \A v \in Tokens : pendingOf'[v].blocks \subseteq Blocks
      BY <2>3 DEF Pendings
    <3>2. \A v \in Tokens : pendingOf[v].blocks \subseteq pendingOf'[v].blocks
      BY <2>2
    <3>3. \A v \in {acManifest, inIndex} \ {NoToken} : v \in Tokens /\ pendingOf[v].blocks = Blocks
      OBVIOUS
    <3>4. UNCHANGED <<acManifest, inIndex>>
      BY <2>1
    <3> SUFFICES ASSUME NEW v \in {acManifest, inIndex} \ {NoToken} PROVE pendingOf'[v].blocks = Blocks
      BY <3>4
    <3>5. v \in Tokens /\ pendingOf[v].blocks = Blocks
      BY <3>3
    <3>6. Blocks \subseteq pendingOf'[v].blocks /\ pendingOf'[v].blocks \subseteq Blocks
      BY <3>1, <3>2, <3>5
    <3> HIDE DEF ActionsInv
    <3> QED BY <3>6, StaysAll
  <2> QED BY <2>1, <2>2, <2>3, <2>4
<1>12. CASE evict
  BY <1>12 DEF evict
<1>13. CASE getDownloadURL
  BY <1>13 DEF getDownloadURL
<1> QED BY <1>1, <1>2, <1>3, <1>4, <1>5, <1>6, <1>7, <1>8, <1>9, <1>10, <1>11, <1>12, <1>13 DEF ActionsNext

-----------------------------------------------------------------------------
(* CacheDownload.  The bytes still to send begin where the sent ones end,   *)
(* counted from the start of the blob that is next.                         *)
SizeOf(i) == IF i \in DOMAIN layers THEN layers[i] ELSE 0

Archive == layers \in Seq(0..MaxLayer) /\ Len(layers) <= MaxLayers

(* Where the blobs begin: the definition by recursion has a solution.       *)
Begins(f, n) == \A i \in 0..n : f[i] = IF i = 0 THEN 0 ELSE f[i - 1] + SizeOf(i)

LEMMA SizesAre == ASSUME Archive, NEW i \in Nat PROVE SizeOf(i) \in Nat
  BY CacheDownloadAssumption DEF Archive, SizeOf

LEMMA StartsExist ==
  ASSUME Archive, NEW n \in Nat
  PROVE  \E f \in [0..n -> Nat] : Begins(f, n)
<1> DEFINE Without == {m \in Nat : ~\E f \in [0..m -> Nat] : Begins(f, m)}
<1>1. ASSUME Without # {} PROVE FALSE
  <2>1. PICK m \in Without : \A k \in Without : m <= k
    <3>1. Without \subseteq Nat
      OBVIOUS
    <3> HIDE DEF Without
    <3> QED BY <1>1, <3>1, HasLeast
  <2>a. m \in Nat
    OBVIOUS
  <2>2. CASE m = 0
    <3>1. [i \in 0..0 |-> 0] \in [0..0 -> Nat] /\ Begins([i \in 0..0 |-> 0], 0)
      BY DEF Begins
    <3> QED BY <2>1, <2>2, <3>1
  <2>3. CASE m # 0
    <3>1. m - 1 \in Nat /\ m - 1 \notin Without
      <4> HIDE DEF Without
      <4> QED BY <2>a, <2>1, <2>3
    <3>2. PICK f \in [0..(m - 1) -> Nat] : Begins(f, m - 1)
      BY <3>1
    <3> DEFINE g == [i \in 0..m |-> IF i = m THEN f[m - 1] + SizeOf(m) ELSE f[i]]
    <3>3. g \in [0..m -> Nat]
      <4>1. SizeOf(m) \in Nat /\ \A i \in 0..m : i # m => i \in 0..(m - 1)
        BY <2>a, SizesAre
      <4> QED BY <2>a, <3>1, <3>2, <4>1
    <3>4. Begins(g, m)
      <4> SUFFICES ASSUME NEW i \in 0..m PROVE g[i] = IF i = 0 THEN 0 ELSE g[i - 1] + SizeOf(i)
        BY DEF Begins
      <4>1. CASE i = m
        BY <2>a, <2>3, <3>1, <4>1
      <4>2. CASE i # m
        <5>1. i \in 0..(m - 1) /\ i - 1 # m
          BY <2>a, <4>2
        <5>2. f[i] = IF i = 0 THEN 0 ELSE f[i - 1] + SizeOf(i)
          BY <3>2, <5>1 DEF Begins
        <5>3. i # 0 => i - 1 \in 0..m
          BY <2>a
        <5> QED BY <4>2, <5>1, <5>2, <5>3
      <4> QED BY <4>1, <4>2
    <3> HIDE DEF g
    <3> QED BY <2>1, <3>3, <3>4
  <2> QED BY <2>2, <2>3
<1> QED BY <1>1

LEMMA StartsAre ==
  ASSUME Archive
  PROVE  StartOf \in [0..MaxLayers -> Nat] /\ Begins(StartOf, MaxLayers)
<1> DEFINE F(f) == [i \in 0..MaxLayers |->
                      IF i = 0 THEN 0 ELSE f[i - 1] + (IF i \in DOMAIN layers THEN layers[i] ELSE 0)]
<1>1. PICK f \in [0..MaxLayers -> Nat] : Begins(f, MaxLayers)
  BY StartsExist, CacheDownloadAssumption
<1>2. f = F(f)
  BY <1>1 DEF Begins, SizeOf
<1>3. StartOf = CHOOSE h : h = F(h)
  BY DEF StartOf
<1>4. StartOf = F(StartOf)
  <2> HIDE DEF F
  <2> QED BY <1>2, <1>3
<1>5. Begins(StartOf, MaxLayers) /\ DOMAIN StartOf = 0..MaxLayers
  BY <1>4 DEF Begins, SizeOf
<1>6. \A i \in 0..MaxLayers : StartOf[i] \in Nat
  <2> DEFINE Bad == {i \in 0..MaxLayers : StartOf[i] \notin Nat}
  <2>1. ASSUME Bad # {} PROVE FALSE
    <3>1. Bad \subseteq Nat
      OBVIOUS
    <3>2. PICK m \in Bad : \A k \in Bad : m <= k
      <4> HIDE DEF Bad
      <4> QED BY <2>1, <3>1, HasLeast
    <3>3. m # 0
      BY <1>5 DEF Begins
    <3>4. m - 1 \in 0..MaxLayers /\ ~(m <= m - 1)
      BY <3>3, CacheDownloadAssumption
    <3>5. StartOf[m - 1] \in Nat
      BY <3>2, <3>4
    <3>6. StartOf[m] = StartOf[m - 1] + SizeOf(m) /\ SizeOf(m) \in Nat
      BY <1>5, <3>3, SizesAre DEF Begins
    <3> QED BY <3>5, <3>6
  <2> QED BY <2>1
<1> QED BY <1>4, <1>5, <1>6

(* The archive ends with its last blob.                                     *)
LEMMA StartsEnd ==
  ASSUME Archive
  PROVE  EntrySize \in Nat /\ StartOf[Len(layers)] = EntrySize
<1>0. Len(layers) \in 0..MaxLayers /\ \A i \in 0..MaxLayers : i > Len(layers) => SizeOf(i) = 0
  BY DEF Archive, SizeOf
<1> DEFINE Off == {i \in Len(layers)..MaxLayers : StartOf[i] # StartOf[Len(layers)]}
<1>1. ASSUME Off # {} PROVE FALSE
  <2>1. Off \subseteq Nat
    BY <1>0
  <2>2. PICK m \in Off : \A k \in Off : m <= k
    <3> HIDE DEF Off
    <3> QED BY <1>1, <2>1, HasLeast
  <2>3. m > Len(layers) /\ m - 1 \in Len(layers)..MaxLayers /\ ~(m <= m - 1) /\ m \in 0..MaxLayers /\ m # 0
    <3>1. m \in Len(layers)..MaxLayers /\ m # Len(layers)
      OBVIOUS
    <3> HIDE DEF Off
    <3> QED BY <1>0, <3>1, CacheDownloadAssumption
  <2>4. StartOf[m - 1] = StartOf[Len(layers)]
    BY <2>2, <2>3
  <2>5. StartOf[m] = StartOf[m - 1] + SizeOf(m) /\ SizeOf(m) = 0
    BY <1>0, <2>3, StartsAre DEF Begins
  <2>6. StartOf[m - 1] \in Nat
    BY <1>0, <2>3, StartsAre
  <2> QED BY <2>4, <2>5, <2>6
<1>2. MaxLayers \in 0..MaxLayers /\ MaxLayers \in Len(layers)..MaxLayers
  BY <1>0, CacheDownloadAssumption
<1> QED BY <1>1, <1>2, StartsAre DEF EntrySize

Answerable ==
  range = <<NoBound, NoBound>> \/ EntrySize = 0 \/ Satisfiable(range[1], range[2], EntrySize)

DownloadInv ==
  /\ Archive /\ range \in Bounds \X Bounds
  /\ dlAt \in {"parse", "stream", "sent", "unsatisfiable", "aborted"}
  /\ layer \in 1..(Len(layers) + 1) /\ off \in Nat /\ left \in Nat /\ sent \in Seq(Nat)
  /\ dlAt = "parse" => layer = 1 /\ sent = <<>> /\ off = 0 /\ left = 0
  /\ dlAt \in {"stream", "sent"} =>
       /\ Answerable
       /\ Len(sent) + left = Wanted.to - Wanted.from + 1
       /\ \A i \in 1..Len(sent) : sent[i] = Wanted.from + i - 1
       /\ left > 0 => StartOf[layer - 1] + off = Wanted.from + Len(sent)
  /\ dlAt = "sent" => left = 0
  /\ RangeWithin

(* What is wanted lies within the archive.                                  *)
LEMMA WantedWithin ==
  ASSUME Archive, range \in Bounds \X Bounds, Answerable
  PROVE  Wanted.from \in Nat /\ Wanted.to \in Int /\ Wanted.to < EntrySize /\ Wanted.from <= Wanted.to + 1
<1>1. EntrySize \in Nat /\ range[1] \in Int /\ range[2] \in Int /\ range[1] >= NoBound /\ range[2] >= NoBound
  BY StartsEnd, CacheDownloadAssumption DEF Bounds, NoBound
<1> HIDE DEF EntrySize
<1> QED BY <1>1 DEF Answerable, Wanted, WholeEntry, parseRange, Satisfiable, Smaller, NoBound

(* As long as something is left to send there is a blob to send it from.    *)
LEMMA BlobsLast ==
  ASSUME DownloadInv, dlAt = "stream", left > 0
  PROVE  layer <= Len(layers)
<1> SUFFICES ASSUME layer = Len(layers) + 1 PROVE FALSE
  BY DEF DownloadInv, Archive
<1>1. EntrySize + off = Wanted.from + Len(sent) /\ EntrySize \in Nat
  BY StartsEnd DEF DownloadInv, Archive
<1>2. Wanted.to < EntrySize /\ Wanted.to \in Int /\ Wanted.from \in Nat
  BY WantedWithin DEF DownloadInv
<1> QED BY <1>1, <1>2 DEF DownloadInv

LEMMA DownloadInvStep == DownloadInv /\ [DownloadNext]_dlVars => DownloadInv'
<1> SUFFICES ASSUME DownloadInv, [DownloadNext]_dlVars PROVE DownloadInv'
  OBVIOUS
<1>0. UNCHANGED <<layers, range>>
  BY DEF DownloadNext, serveDownload, streamRange, openBlobFails, Streamed, dlVars
<1>a. /\ Archive' /\ EntrySize' = EntrySize /\ Answerable' = Answerable /\ Wanted' = Wanted /\ StartOf' = StartOf
      /\ range' \in Bounds \X Bounds
  BY <1>0 DEF DownloadInv, Archive, Answerable, Wanted, WholeEntry, EntrySize, StartOf
<1>b. Answerable => Wanted.from \in Nat /\ Wanted.to \in Int /\ Wanted.from <= Wanted.to + 1
  BY WantedWithin DEF DownloadInv
<1>c. StartOf[0] = 0 /\ Len(layers) \in Nat /\ Len(layers') = Len(layers)
  BY <1>0, StartsAre, CacheDownloadAssumption DEF Begins, DownloadInv, Archive
<1> HIDE DEF Answerable, Wanted, StartOf, EntrySize
<1>1. CASE serveDownload
  <2>1. CASE dlAt' = "unsatisfiable" /\ UNCHANGED <<off, left>>
    BY <1>1, <1>0, <1>a, <1>c, <2>1 DEF serveDownload, DownloadInv, RangeWithin
  <2>2. CASE Answerable /\ dlAt' = "stream" /\ off' = Wanted.from /\ left' = Wanted.to - Wanted.from + 1
    <3>1. layer' = 1 /\ sent' = <<>> /\ Len(sent') = 0
      BY <1>1 DEF serveDownload, DownloadInv
    <3> QED BY <1>0, <1>a, <1>b, <1>c, <2>2, <3>1 DEF DownloadInv, RangeWithin
  <2>3. EntrySize \in Nat
    BY StartsEnd DEF DownloadInv
  <2> QED BY <1>1, <2>1, <2>2, <2>3 DEF serveDownload, Answerable
<1>2. CASE streamRange
  <2>0. /\ dlAt = "stream" /\ left > 0 /\ layer \in 1..Len(layers) /\ layer' = layer + 1 /\ dlAt' = dlAt
        /\ layers[layer] \in Nat /\ layer \in 1..MaxLayers
    BY <1>2, CacheDownloadAssumption DEF streamRange, DownloadInv, Archive
  <2>1. StartOf[layer] = StartOf[layer - 1] + layers[layer] /\ StartOf[layer - 1] \in Nat /\ layer' - 1 = layer
    <3>1. SizeOf(layer) = layers[layer]
      BY <2>0 DEF SizeOf, DownloadInv, Archive
    <3>2. StartOf[layer] = StartOf[layer - 1] + SizeOf(layer)
      BY <2>0, StartsAre DEF Begins, DownloadInv
    <3>3. layer - 1 \in 0..MaxLayers /\ layer' - 1 = layer
      BY <2>0, CacheDownloadAssumption
    <3>4. StartOf[layer - 1] \in Nat
      BY <3>3, StartsAre DEF DownloadInv
    <3> QED BY <3>1, <3>2, <3>3, <3>4
  <2> DEFINE at == StartOf[layer - 1]
             next == StartOf[layer]
             size == layers[layer]
             from == Wanted.from
             to == Wanted.to
             n == Len(sent)
  <2>c. at \in Nat /\ size \in Nat /\ next = at + size
    BY <2>0, <2>1
  <2>a. /\ off \in Nat /\ left \in Nat /\ sent \in Seq(Nat) /\ Len(sent) \in Nat /\ Answerable /\ Wanted.from \in Nat
        /\ Len(sent) + left = Wanted.to - Wanted.from + 1
        /\ \A i \in 1..Len(sent) : sent[i] = Wanted.from + i - 1
        /\ StartOf[layer - 1] + off = Wanted.from + Len(sent)
    BY <1>b, <2>0 DEF DownloadInv
  <2>b. layer' \in 1..(Len(layers') + 1)
    BY <1>c, <2>0
  <2>2. CASE off >= layers[layer] /\ off' = off - layers[layer] /\ UNCHANGED <<sent, left>>
    <3>1. off' \in Nat /\ StartOf[layer] + off' = Wanted.from + Len(sent)
      <4>1. off \in Nat /\ n \in Nat /\ from \in Nat /\ at + off = from + n /\ off >= size /\ off' = off - size
        BY <2>2, <2>a
      <4> HIDE DEF at, next, size, from, n
      <4>2. off' \in Nat /\ next + off' = from + n
        BY <2>c, <4>1
      <4> QED BY <4>2 DEF next, from, n
    <3> QED BY <1>0, <1>a, <2>0, <2>1, <2>2, <2>a, <2>b, <3>1 DEF DownloadInv, RangeWithin
  <2>3. CASE /\ ~(off >= layers[layer])
             /\ sent' = sent \o [i \in 1..Take |-> StartOf[layer - 1] + off + i - 1]
             /\ left' = left - Take /\ off' = 0
    <3> DEFINE cut == [i \in 1..Take |-> StartOf[layer - 1] + off + i - 1]
    <3>1. Take \in 1..left /\ (left - Take > 0 => Take = layers[layer] - off)
      BY <2>0, <2>3 DEF Take, Smaller, DownloadInv
    <3>2. cut \in Seq(Nat) /\ Len(cut) = Take /\ \A i \in 1..Take : cut[i] = StartOf[layer - 1] + off + i - 1
      BY <2>1, <3>1 DEF DownloadInv
    <3> HIDE DEF cut
    <3>3. /\ sent' \in Seq(Nat) /\ Len(sent') = Len(sent) + Take
          /\ \A i \in 1..Len(sent') : sent'[i] = IF i <= Len(sent) THEN sent[i] ELSE cut[i - Len(sent)]
      BY <2>3, <3>1, <3>2 DEF DownloadInv, cut
    <3>4. \A i \in 1..Len(sent') : sent'[i] = Wanted.from + i - 1
      <4> SUFFICES ASSUME NEW i \in 1..Len(sent') PROVE sent'[i] = Wanted.from + i - 1
        OBVIOUS
      <4>1. CASE i <= Len(sent)
        <5>1. sent'[i] = sent[i] /\ i \in Nat /\ i >= 1
          BY <3>3, <4>1
        <5>2. i \in 1..Len(sent)
          BY <2>a, <4>1, <5>1
        <5> QED BY <2>a, <5>1, <5>2
      <4>2. CASE i > Len(sent)
        <5>1. i - Len(sent) \in 1..Take
          BY <2>a, <3>1, <3>3, <4>2
        <5>2. sent'[i] = at + off + (i - n) - 1
          BY <3>2, <3>3, <4>2, <5>1
        <5>3. at + off = from + n /\ at \in Nat /\ off \in Nat /\ from \in Nat /\ n \in Nat /\ i \in Nat
          BY <2>a, <2>c, <3>3, <3>1
        <5> HIDE DEF at, from, n
        <5>4. sent'[i] = from + i - 1
          BY <5>2, <5>3
        <5> QED BY <5>4 DEF from
      <4> QED BY <2>a, <3>1, <3>3, <4>1, <4>2
    <3>5. /\ off' \in Nat /\ left' \in Nat /\ Len(sent') + left' = Wanted.to - Wanted.from + 1
          /\ left' > 0 => StartOf[layer] + off' = Wanted.from + Len(sent')
      <4>1. /\ off \in Nat /\ left \in Nat /\ n \in Nat /\ from \in Nat /\ to \in Int /\ Take \in Nat
            /\ at + off = from + n /\ n + left = to - from + 1 /\ Take <= left /\ left' = left - Take
            /\ off' = 0 /\ Len(sent') = n + Take /\ (left - Take > 0 => Take = size - off)
        BY <1>b, <2>3, <2>a, <3>1, <3>3
      <4> HIDE DEF at, next, size, from, to, n
      <4>2. /\ off' \in Nat /\ left' \in Nat /\ Len(sent') + left' = to - from + 1
            /\ left' > 0 => next + off' = from + Len(sent')
        BY <2>c, <4>1
      <4> QED BY <4>2 DEF next, from, to
    <3> QED BY <1>0, <1>a, <2>0, <2>1, <2>a, <2>b, <3>3, <3>4, <3>5 DEF DownloadInv, RangeWithin
  <2> QED BY <1>2, <2>2, <2>3 DEF streamRange
<1>3. CASE openBlobFails
  <2>1. layer <= Len(layers)
    BY <1>3, BlobsLast DEF openBlobFails
  <2> QED BY <1>0, <1>3, <1>a, <1>c, <2>1 DEF openBlobFails, DownloadInv, RangeWithin
<1>4. CASE Streamed
  <2>1. left > 0 => layer <= Len(layers)
    BY <1>4, BlobsLast DEF Streamed
  <2> QED BY <1>0, <1>4, <1>a, <1>c, <2>1 DEF Streamed, DownloadInv, RangeWithin
<1>5. CASE UNCHANGED dlVars
  BY <1>0, <1>5, <1>a, <1>c DEF dlVars, DownloadInv, RangeWithin
<1> QED BY <1>1, <1>2, <1>3, <1>4, <1>5 DEF DownloadNext

LEMMA DownloadStarts == DownloadInit => DownloadInv
<1> SUFFICES ASSUME DownloadInit PROVE DownloadInv
  OBVIOUS
<1>1. PICK n \in 0..MaxLayers : layers \in [1..n -> 0..MaxLayer]
  BY DEF DownloadInit
<1>2. layers \in Seq(0..MaxLayer) /\ Len(layers) = n
  BY <1>1, CacheDownloadAssumption
<1> QED BY <1>2, CacheDownloadAssumption DEF DownloadInit, DownloadInv, Archive, RangeWithin

LEMMA DownloadKeeps == DownloadInv => RangeExact /\ RangeWithin
<1> SUFFICES ASSUME DownloadInv PROVE RangeExact
  BY DEF DownloadInv
<1>1. DOMAIN sent = 1..Len(sent) /\ Len(sent) \in Nat
  BY DEF DownloadInv
<1>2. Answerable => Wanted.from \in Nat /\ Wanted.to \in Int
  BY WantedWithin DEF DownloadInv
<1> QED BY <1>1, <1>2 DEF DownloadInv, RangeExact

-----------------------------------------------------------------------------
(* Every component starts in its invariant, and moves or stays as it is.    *)
LEMMA EntriesStartWhole == HostStart => ModInv /\ ActionsInv /\ DownloadInv /\ CrateInv
<1> SUFFICES ASSUME HostStart PROVE ModInv /\ ActionsInv /\ DownloadInv /\ CrateInv
  OBVIOUS
<1>1. ModInv
  BY ModuleCacheAssumption DEF HostStart, HostInit, ModuleInit, ModInv, ModuleTypeOK, CachedIsWhole, TempsOwned,
     RenamesWhole, Locked, Absent, Whole, Part
<1>2. ActionsInv
  <2>1. /\ pendingOf = [t \in Tokens |-> NoPending] /\ sending = [t \in Tokens |-> {}] /\ uploads = {}
        /\ byKey = [r \in Savers |-> NoToken] /\ creating = {} /\ finalizing = {}
        /\ acManifest = NoToken /\ inIndex = NoToken /\ boundJob = [r \in Savers |-> "tracked"]
    BY DEF HostStart, HostInit, ActionsInit
  <2>2. NoPending \in Pendings /\ NoPending.runner = NoSaver
    BY DEF NoPending, Pendings
  <2>3. InOrder
    <3>1. 0 \in 0..MaxTokens /\ \A t \in Tokens : ~HandedOut(t) /\ ~(t <= 0)
      BY <2>1, <2>2, ActionsCacheAssumption DEF HandedOut, Tokens
    <3> QED BY <3>1 DEF InOrder
  <2>4. NoToken \notin Tokens
    BY DEF NoToken, Tokens
  <2> QED BY <2>1, <2>2, <2>3, <2>4 DEF ActionsInv, ActionsTyped, UntakenIsBare, KeysOwned, SavedWhole
<1>3. DownloadInv
  BY DownloadStarts DEF HostStart, HostInit
<1>4. CrateInv
  BY AnswersAre, CargoEntryAssumption DEF HostStart, HostInit, CrateInit, NoSidecar, CrateInv, CrateTyped, CrateKinds,
     CrateHeld, CrateWaiting, Holding
<1> QED BY <1>1, <1>2, <1>3, <1>4

LEMMA EntriesKeepWhole ==
  ModInv /\ ActionsInv /\ DownloadInv /\ CrateInv /\ [HostNext]_<<focus, hostVars>> =>
    (ModInv /\ ActionsInv /\ DownloadInv /\ CrateInv)'
<1> SUFFICES ASSUME ModInv, ActionsInv, DownloadInv, CrateInv, [HostNext]_<<focus, hostVars>>
             PROVE  ModInv' /\ ActionsInv' /\ DownloadInv' /\ CrateInv'
  OBVIOUS
<1>1. [ModuleNext]_modVars /\ [ActionsNext]_acVars /\ [DownloadNext]_dlVars /\ [CrateNext]_crateVars
  BY DEF HostNext, HostFrozen, HostMoves, hostVars
<1>2. ModInv'
  <2>1. CASE UNCHANGED modVars
    BY <2>1 DEF modVars, modFiles, modPruner, ModInv, ModuleTypeOK, CachedIsWhole, TempsOwned, RenamesWhole
  <2> QED BY <1>1, <2>1, ModInvStep
<1>3. ActionsInv'
  <2>1. CASE UNCHANGED acVars
    BY <2>1 DEF acVars, acMaps, acStore, ActionsInv, ActionsTyped, InOrder, HandedOut, UntakenIsBare, KeysOwned, SavedWhole
  <2> QED BY <1>1, <2>1, ActionsInvStep
<1>4. DownloadInv'
  BY <1>1, DownloadInvStep
<1>5. CrateInv'
  <2>1. CASE UNCHANGED crateVars
    BY <2>1 DEF crateVars, crateFiles, crateReqs, CrateInv, CrateTyped, CrateKinds, CrateHeld
  <2> QED BY <1>1, <2>1, CrateInvStep
<1> QED BY <1>2, <1>3, <1>4, <1>5

(* What is in a cache is never half of what it stands for, over failed and  *)
(* overtaken uploads, prunes, restarts and evictions: a module file, an     *)
(* index file beside its validators, an archive that is found, and a range  *)
(* of one that is answered without an error.                                *)
THEOREM EntriesStayWhole == HostSpec => []EntriesWhole
<1>1. ModInv /\ ActionsInv /\ DownloadInv /\ CrateInv => EntriesWhole
  <2>1. ActionsInv => UploadsAgree
    <3> SUFFICES ASSUME ActionsInv PROVE UploadsAgree
      OBVIOUS
    <3>1. ASSUME NEW t \in uploads PROVE t # NoToken /\ \E r \in Savers : byKey[r] = t
      <4>1. t \in Tokens /\ pendingOf[t].runner \in Savers
        BY DEF ActionsInv, ActionsTyped, Pendings, UntakenIsBare, HandedOut
      <4>2. byKey[pendingOf[t].runner] = t
        BY DEF ActionsInv, KeysOwned
      <4> QED BY <4>1, <4>2 DEF Tokens, NoToken
    <3>2. \A r \in Savers : byKey[r] # NoToken => byKey[r] \in uploads
      BY DEF ActionsInv, KeysOwned
    <3> QED BY <3>1, <3>2 DEF UploadsAgree
  <2> QED BY <2>1, DownloadKeeps
      DEF EntriesWhole, ModInv, ActionsInv, CrateInv, SidecarNeverAhead
<1> QED BY <1>1, EntriesStartWhole, EntriesKeepWhole, PTL DEF HostSpec

-----------------------------------------------------------------------------
(* PkgIndex.  Every entry has its place in the order of use.                *)
Covers(size, used) == \A k \in IndexKeys : size[k] # 0 => k \in ToSet(used)

LEMMA SumWithin ==
  ASSUME NEW f \in [IndexKeys -> Nat], NEW A \in SUBSET IndexKeys, NEW B \in SUBSET A
  PROVE  SumOf(f, B) \in Nat /\ SumOf(f, A) \in Nat /\ SumOf(f, B) <= SumOf(f, A)
<1>1. IsFiniteSet(A) /\ \A k \in A : f[k] \in Nat
  BY FS_Subset, PkgIndexAssumption
<1>2. SumOf(f, A) = SumOf(f, B) + SumOf(f, A \ B)
  BY <1>1, SumSplit
<1>3. A \ B \in SUBSET A /\ A \in SUBSET A
  OBVIOUS
<1>4. SumOf(f, B) \in Nat /\ SumOf(f, A \ B) \in Nat /\ SumOf(f, A) \in Nat
  BY <1>1, <1>3, SumPlus
<1> DEFINE a == SumOf(f, A)  b == SumOf(f, B)  c == SumOf(f, A \ B)
<1>5. a = b + c /\ a \in Nat /\ b \in Nat /\ c \in Nat
  BY <1>2, <1>4
<1> HIDE DEF a, b, c
<1>6. b \in Nat /\ a \in Nat /\ b <= a
  BY <1>5
<1> QED BY <1>6 DEF a, b

(* The sum without the entries that are set to zero.                        *)
LEMMA SumCleared ==
  ASSUME NEW f \in [IndexKeys -> Nat], NEW A \in SUBSET IndexKeys
  PROVE  SumOf([k \in IndexKeys |-> IF k \in A THEN 0 ELSE f[k]], IndexKeys) = SumOf(f, IndexKeys) - SumOf(f, A)
<1> DEFINE h == [k \in IndexKeys |-> IF k \in A THEN 0 ELSE f[k]]
           R == IndexKeys \ A
<1>1. IsFiniteSet(IndexKeys) /\ IsFiniteSet(A) /\ IsFiniteSet(R)
  BY FS_Subset, PkgIndexAssumption
<1>2. SumOf(h, IndexKeys) = SumOf(h, A) + SumOf(h, R)
  <2>1. \A k \in IndexKeys : h[k] \in Nat
    OBVIOUS
  <2> HIDE DEF h
  <2> QED BY <1>1, <2>1, SumSplit
<1>3. SumOf(f, IndexKeys) = SumOf(f, A) + SumOf(f, R)
  <2>1. \A k \in IndexKeys : f[k] \in Nat
    OBVIOUS
  <2> QED BY <1>1, <2>1, SumSplit
<1>4. SumOf(h, R) = SumOf(f, R)
  <2>1. \A k \in R : f[k] \in Nat /\ h[k] = f[k]
    OBVIOUS
  <2> HIDE DEF h, R
  <2> QED BY <1>1, <2>1, SumSame
<1>5. SumOf(h, A) = 0
  <2> DEFINE P == {s \in SUBSET A : SumOf(h, s) = 0}
  <2>1. \A k \in A : h[k] = 0 /\ h[k] \in Nat
    OBVIOUS
  <2> HIDE DEF h
  <2>2. {} \in P
    BY <1>1, <2>1, SumPlus
  <2>3. ASSUME NEW s \in SUBSET A, s # {}, \A x \in s : s \ {x} \in P PROVE s \in P
    <3>1. PICK x \in s : TRUE
      BY <2>3
    <3>2. SumOf(h, s) = SumOf(h, s \ {x}) + h[x]
      BY <1>1, <2>1, <3>1, SumPlus
    <3>3. SumOf(h, s \ {x}) = 0 /\ h[x] = 0
      BY <2>1, <2>3, <3>1
    <3> QED BY <3>2, <3>3
  <2> HIDE DEF P
  <2>4. \A s \in SUBSET A : s \in P
    BY <1>1, <2>2, <2>3, BySize
  <2>5. A \in P
    BY <2>4
  <2> QED BY <2>5 DEF P
<1>6. SumOf(f, A) \in Nat /\ SumOf(f, R) \in Nat
  <2>1. R \in SUBSET IndexKeys
    OBVIOUS
  <2> QED BY <2>1, SumWithin
<1> DEFINE u == SumOf(f, A)  v == SumOf(f, R)  w == SumOf(f, IndexKeys)  x == SumOf(h, IndexKeys)
           y == SumOf(h, A)  z == SumOf(h, R)
<1>7. x = y + z /\ w = u + v /\ z = v /\ y = 0 /\ u \in Nat /\ v \in Nat
  BY <1>2, <1>3, <1>4, <1>5, <1>6
<1> HIDE DEF u, v, w, x, y, z
<1>8. x = w - u
  BY <1>7
<1> QED BY <1>8 DEF x, w, u

(* When an eviction stops above the budget, whatever entry is left could    *)
(* not be removed: the first one that it passed by had the total at the     *)
(* low-water mark, without the ones before it.                              *)
LEMMA EvictsEnough ==
  ASSUME NEW size \in [IndexKeys -> Nat], NEW tally, tally = SumOf(size, IndexKeys), NEW used \in Seq(IndexKeys),
         NEW stays \in SUBSET IndexKeys, Covers(size, used),
         tally - SumOf(size, evicted(size, tally, used, stays)) > Budget,
         NEW k \in IndexKeys, size[k] # 0, k \notin evicted(size, tally, used, stays)
  PROVE  k \in stays
<1> DEFINE out == evicted(size, tally, used, stays)
           Before(j) == {used[n] : n \in 1..(j - 1)} \ stays
           Enough == {j \in DOMAIN used : used[j] \notin stays /\ ~(tally - SumOf(size, Before(j)) > LowWater)}
<1>1. tally \in Nat /\ DOMAIN used = 1..Len(used) /\ Len(used) \in Nat /\ \A j \in DOMAIN used : used[j] \in IndexKeys
  BY SumWithin
<1>2. out \subseteq IndexKeys
  BY <1>1 DEF evicted
<1>3. tally > Budget
  <2>1. SumOf(size, out) \in Nat
    BY <1>2, SumWithin
  <2> DEFINE o == SumOf(size, out)
  <2>2. o \in Nat /\ tally - o > Budget
    BY <2>1
  <2> HIDE DEF o, out
  <2> QED BY <1>1, <2>2, PkgIndexAssumption
<1>4. out = {used[i] : i \in {j \in DOMAIN used :
              used[j] \notin stays /\ tally - SumOf(size, Before(j)) > LowWater}}
  <2>1. ~(tally <= Budget)
    BY <1>1, <1>3, PkgIndexAssumption
  <2> QED BY <2>1 DEF evicted
<1>5. PICK i \in DOMAIN used : used[i] = k
  BY DEF Covers, ToSet
<1>6. SUFFICES ASSUME k \notin stays PROVE FALSE
  OBVIOUS
<1>7. i \in Enough
  <2> HIDE DEF Before, out
  <2> QED BY <1>4, <1>5, <1>6 DEF out
<1>8. PICK j \in Enough : \A m \in Enough : j <= m
  <2>1. Enough \subseteq DOMAIN used /\ Enough # {}
    BY <1>7
  <2>2. Enough \subseteq Nat
    <3> HIDE DEF Enough
    <3> QED BY <1>1, <2>1
  <2> HIDE DEF Enough
  <2> QED BY <2>1, <2>2, HasLeast
<1>9. Before(j) \subseteq out
  <2> SUFFICES ASSUME NEW n \in 1..(j - 1), used[n] \notin stays PROVE used[n] \in out
    OBVIOUS
  <2>1. j \in 1..Len(used)
    BY <1>1
  <2>2. n \in DOMAIN used /\ ~(j <= n)
    BY <1>1, <2>1
  <2>3. n \notin Enough
    <3> HIDE DEF Enough
    <3> QED BY <1>8, <2>2
  <2>4. tally - SumOf(size, Before(n)) > LowWater
    BY <2>2, <2>3
  <2> HIDE DEF Before, out
  <2> QED BY <1>4, <2>2, <2>4
<1>10. SumOf(size, Before(j)) \in Nat /\ SumOf(size, out) \in Nat /\ SumOf(size, Before(j)) <= SumOf(size, out)
  <2> HIDE DEF Before, out
  <2> QED BY <1>2, <1>9, SumWithin
<1>11. ~(tally - SumOf(size, Before(j)) > LowWater)
  OBVIOUS
<1> DEFINE b == SumOf(size, Before(j))  o == SumOf(size, out)
<1>12. b \in Nat /\ o \in Nat /\ b <= o /\ ~(tally - b > LowWater) /\ tally - o > Budget
  BY <1>10, <1>11
<1> HIDE DEF b, o, out
<1> QED BY <1>1, <1>12, PkgIndexAssumption

(* The disk holds no more than the index counts, or than the body on its    *)
(* way into it.                                                             *)
PkgIndexInv ==
  /\ idxSize \in [IndexKeys -> Nat] /\ indexDisk \in [IndexKeys -> Nat] /\ installing \in [IndexKeys -> Nat]
  /\ idxUsed \in Seq(IndexKeys) /\ Covers(idxSize, idxUsed)
  /\ TotalExact /\ BudgetKept
  /\ \A k \in IndexKeys : indexDisk[k] <= IF installing[k] # 0 THEN installing[k] ELSE idxSize[k]

(* What enforceBudget leaves.                                               *)
Enforced(size, disk) ==
  /\ idxSize' \in [IndexKeys -> Nat] /\ indexDisk' \in [IndexKeys -> Nat]
  /\ idxUsed' \in Seq(IndexKeys) /\ Covers(idxSize, idxUsed)' /\ TotalExact' /\ BudgetKept'
  /\ \A k \in IndexKeys : \/ idxSize'[k] = 0 /\ indexDisk'[k] = 0
                          \/ idxSize'[k] = size[k] /\ indexDisk'[k] = disk[k]

LEMMA BudgetEnforced ==
  ASSUME NEW size \in [IndexKeys -> Nat], NEW tally, tally = SumOf(size, IndexKeys), NEW used \in Seq(IndexKeys),
         Covers(size, used), NEW disk \in [IndexKeys -> Nat], enforceBudget(size, tally, used, disk)
  PROVE  Enforced(size, disk)
<1>1. PICK stays \in SUBSET {k \in IndexKeys : disk[k] # 0 /\ tally > Budget} :
        LET out == evicted(size, tally, used, stays) IN
        /\ idxSize' = [k \in IndexKeys |-> IF k \in out THEN 0 ELSE size[k]]
        /\ idxTotal' = tally - SumOf(size, out)
        /\ idxUsed' = Dropped(used, out)
        /\ indexDisk' = [k \in IndexKeys |-> IF k \in out THEN 0 ELSE disk[k]]
        /\ unmovable' = stays
  BY DEF enforceBudget
<1> DEFINE out == evicted(size, tally, used, stays)
<1>2. /\ idxSize' = [k \in IndexKeys |-> IF k \in out THEN 0 ELSE size[k]]
      /\ idxTotal' = tally - SumOf(size, out)
      /\ idxUsed' = Dropped(used, out)
      /\ indexDisk' = [k \in IndexKeys |-> IF k \in out THEN 0 ELSE disk[k]]
      /\ unmovable' = stays
  BY <1>1
<1>3. out \subseteq IndexKeys /\ stays \in SUBSET IndexKeys
  <2>1. \A j \in DOMAIN used : used[j] \in IndexKeys
    OBVIOUS
  <2> QED BY <2>1 DEF evicted
<1>4. ASSUME tally - SumOf(size, out) > Budget, NEW k \in IndexKeys, size[k] # 0, k \notin out PROVE k \in stays
  BY <1>3, <1>4, EvictsEnough
<1> HIDE DEF out
<1>5. idxUsed' \in Seq(IndexKeys) /\ ToSet(idxUsed') = ToSet(used) \ out
  BY <1>2, DroppedKeeps
<1>6. Covers(idxSize, idxUsed)'
  BY <1>2, <1>5 DEF Covers
<1>7. TotalExact'
  BY <1>2, <1>3, SumCleared DEF TotalExact
<1>8. BudgetKept'
  BY <1>2, <1>4 DEF BudgetKept
<1> QED BY <1>2, <1>5, <1>6, <1>7, <1>8 DEF Enforced

LEMMA RenewedKeeps ==
  ASSUME idxUsed \in Seq(IndexKeys), NEW k \in IndexKeys
  PROVE  Renewed(k) \in Seq(IndexKeys) /\ ToSet(Renewed(k)) = ToSet(idxUsed) \cup {k}
<1>1. Dropped(idxUsed, {k}) \in Seq(IndexKeys) /\ ToSet(Dropped(idxUsed, {k})) = ToSet(idxUsed) \ {k}
  BY DroppedKeeps
<1> DEFINE t == Dropped(idxUsed, {k})
<1>2. t \in Seq(IndexKeys) /\ ToSet(t) = ToSet(idxUsed) \ {k} /\ Renewed(k) = Append(t, k)
  BY <1>1 DEF Renewed
<1> HIDE DEF t
<1>3. Append(t, k) \in Seq(IndexKeys) /\ ToSet(Append(t, k)) = ToSet(t) \cup {k}
  BY <1>2, AppendedSet
<1> QED BY <1>2, <1>3

(* Replacing one entry changes the sum by the difference.                   *)
LEMMA SumReplaced ==
  ASSUME NEW f \in [IndexKeys -> Nat], NEW k \in IndexKeys, NEW n \in Nat
  PROVE  SumOf([f EXCEPT ![k] = n], IndexKeys) = (SumOf(f, IndexKeys) - f[k]) + n
<1> DEFINE h == [f EXCEPT ![k] = n]  R == IndexKeys \ {k}
<1>1. IsFiniteSet(IndexKeys) /\ IsFiniteSet(R)
  BY FS_Subset, PkgIndexAssumption
<1>2. /\ \A j \in IndexKeys : f[j] \in Nat /\ h[j] \in Nat
      /\ \A j \in R : f[j] \in Nat /\ h[j] = f[j]
      /\ h[k] = n
  OBVIOUS
<1> HIDE DEF h
<1>3. SumOf(h, IndexKeys) = SumOf(h, R) + h[k] /\ SumOf(f, IndexKeys) = SumOf(f, R) + f[k]
  BY <1>1, <1>2, SumPlus
<1>4. SumOf(h, R) = SumOf(f, R)
  <2> HIDE DEF R
  <2> QED BY <1>1, <1>2, SumSame
<1>5. SumOf(f, R) \in Nat
  BY SumWithin
<1> DEFINE u == SumOf(f, R)  v == SumOf(f, IndexKeys)  w == SumOf(h, IndexKeys)  x == f[k]
<1>6. w = u + n /\ v = u + x /\ u \in Nat /\ x \in Nat
  BY <1>2, <1>3, <1>4, <1>5
<1> HIDE DEF u, v, w, x
<1>7. w = (v - x) + n
  BY <1>6
<1> QED BY <1>7 DEF u, v, w, x, h

LEMMA PkgIndexInvStep == PkgIndexInv /\ [IndexNext]_idxVars => PkgIndexInv'
<1> SUFFICES ASSUME PkgIndexInv, [IndexNext]_idxVars PROVE PkgIndexInv'
  OBVIOUS
<1>0. /\ idxSize \in [IndexKeys -> Nat] /\ indexDisk \in [IndexKeys -> Nat] /\ installing \in [IndexKeys -> Nat]
      /\ idxUsed \in Seq(IndexKeys) /\ Covers(idxSize, idxUsed)
      /\ TotalExact /\ BudgetKept
      /\ \A k \in IndexKeys : indexDisk[k] <= IF installing[k] # 0 THEN installing[k] ELSE idxSize[k]
  BY DEF PkgIndexInv
<1>1. ASSUME NEW k \in IndexKeys, NEW s \in 1..MaxSize, Install(k, s) PROVE PkgIndexInv'
  <2>1. /\ installing[k] = 0 /\ installing' = [installing EXCEPT ![k] = s] /\ indexDisk' = [indexDisk EXCEPT ![k] = s]
        /\ idxSize' = idxSize /\ idxTotal' = idxTotal /\ idxUsed' = idxUsed /\ unmovable' = unmovable
    BY <1>1 DEF Install
  <2>2. s \in Nat /\ s # 0
    BY PkgIndexAssumption
  <2>3. TotalExact' /\ BudgetKept' /\ Covers(idxSize, idxUsed)'
    BY <1>0, <2>1 DEF TotalExact, BudgetKept, Covers
  <2> QED BY <1>0, <2>1, <2>2, <2>3 DEF PkgIndexInv
<1>2. ASSUME NEW k \in IndexKeys, admitEntry(k) PROVE PkgIndexInv'
  <2> DEFINE size == [idxSize EXCEPT ![k] = installing[k]]
             tally == (idxTotal - idxSize[k]) + installing[k]
             used == Renewed(k)
  <2>1. /\ installing[k] # 0 /\ installing' = [installing EXCEPT ![k] = 0]
        /\ enforceBudget(size, tally, used, indexDisk)
    BY <1>2 DEF admitEntry
  <2>2. size \in [IndexKeys -> Nat] /\ tally = SumOf(size, IndexKeys)
    <3>1. idxTotal = SumOf(idxSize, IndexKeys) /\ installing[k] \in Nat
      BY <1>0 DEF TotalExact
    <3>2. SumOf(size, IndexKeys) = (SumOf(idxSize, IndexKeys) - idxSize[k]) + installing[k]
      BY <1>0, <3>1, SumReplaced
    <3> QED BY <1>0, <3>1, <3>2
  <2>3. used \in Seq(IndexKeys) /\ Covers(size, used)
    BY <1>0, RenewedKeeps DEF Covers
  <2>4. \A j \in IndexKeys : size[j] = IF j = k THEN installing[k] ELSE idxSize[j]
    BY <1>0
  <2>5. installing' \in [IndexKeys -> Nat] /\ \A j \in IndexKeys : installing'[j] = IF j = k THEN 0 ELSE installing[j]
    BY <1>0, <2>1
  <2> HIDE DEF size, tally, used
  <2>6. /\ idxSize' \in [IndexKeys -> Nat] /\ indexDisk' \in [IndexKeys -> Nat]
        /\ idxUsed' \in Seq(IndexKeys) /\ Covers(idxSize, idxUsed)' /\ TotalExact' /\ BudgetKept'
        /\ \A j \in IndexKeys : \/ idxSize'[j] = 0 /\ indexDisk'[j] = 0
                                \/ idxSize'[j] = size[j] /\ indexDisk'[j] = indexDisk[j]
    <3>1. Enforced(size, indexDisk)
      BY <1>0, <2>1, <2>2, <2>3, BudgetEnforced
    <3> QED BY <3>1 DEF Enforced
  <2>7. ASSUME NEW j \in IndexKeys
        PROVE  indexDisk'[j] <= IF installing'[j] # 0 THEN installing'[j] ELSE idxSize'[j]
    <3>1. CASE idxSize'[j] = 0 /\ indexDisk'[j] = 0
      BY <2>5, <3>1
    <3>2. CASE idxSize'[j] = size[j] /\ indexDisk'[j] = indexDisk[j]
      <4>1. indexDisk[j] <= IF installing[j] # 0 THEN installing[j] ELSE idxSize[j]
        BY <1>0
      <4> QED BY <2>1, <2>4, <2>5, <3>2, <4>1
    <3> QED BY <2>6, <3>1, <3>2
  <2> QED BY <2>5, <2>6, <2>7 DEF PkgIndexInv
<1>3. ASSUME NEW k \in IndexKeys, touchEntry(k) PROVE PkgIndexInv'
  <2>1. /\ idxUsed' = Renewed(k)
        /\ idxSize' = idxSize /\ idxTotal' = idxTotal /\ indexDisk' = indexDisk
        /\ installing' = installing /\ unmovable' = unmovable
    BY <1>3 DEF touchEntry
  <2>2. idxUsed' \in Seq(IndexKeys) /\ Covers(idxSize, idxUsed)'
    BY <1>0, <2>1, RenewedKeeps DEF Covers
  <2>3. TotalExact' /\ BudgetKept'
    BY <1>0, <2>1 DEF TotalExact, BudgetKept
  <2> QED BY <1>0, <2>1, <2>2, <2>3 DEF PkgIndexInv
<1>4. ASSUME NEW used \in Orders, scan(used) PROVE PkgIndexInv'
  <2>1. /\ ToSet(used) = {k \in IndexKeys : indexDisk[k] # 0} /\ installing' = [k \in IndexKeys |-> 0]
        /\ enforceBudget(indexDisk, SumOf(indexDisk, IndexKeys), used, indexDisk)
    BY <1>4 DEF scan
  <2>2. used \in Seq(IndexKeys)
    <3>1. Cardinality(IndexKeys) \in Nat
      BY FS_CardinalityType, PkgIndexAssumption
    <3>2. PICK n \in 0..Cardinality(IndexKeys) : used \in [1..n -> IndexKeys]
      BY DEF Orders
    <3> QED BY <3>1, <3>2
  <2>3. Covers(indexDisk, used)
    BY <2>1 DEF Covers
  <2>4. /\ idxSize' \in [IndexKeys -> Nat] /\ indexDisk' \in [IndexKeys -> Nat]
        /\ idxUsed' \in Seq(IndexKeys) /\ Covers(idxSize, idxUsed)' /\ TotalExact' /\ BudgetKept'
        /\ \A j \in IndexKeys : \/ idxSize'[j] = 0 /\ indexDisk'[j] = 0
                                \/ idxSize'[j] = indexDisk[j] /\ indexDisk'[j] = indexDisk[j]
    <3>1. Enforced(indexDisk, indexDisk)
      BY <1>0, <2>1, <2>2, <2>3, BudgetEnforced
    <3> QED BY <3>1 DEF Enforced
  <2>5. ASSUME NEW j \in IndexKeys
        PROVE  indexDisk'[j] <= IF installing'[j] # 0 THEN installing'[j] ELSE idxSize'[j]
    <3>1. installing'[j] = 0 /\ indexDisk'[j] = idxSize'[j] /\ idxSize'[j] \in Nat
      BY <2>1, <2>4
    <3> QED BY <3>1
  <2> QED BY <2>1, <2>4, <2>5 DEF PkgIndexInv
<1>5. ASSUME UNCHANGED idxVars PROVE PkgIndexInv'
  BY <1>0, <1>5 DEF idxVars, PkgIndexInv, TotalExact, BudgetKept, Covers
<1> QED BY <1>1, <1>2, <1>3, <1>4, <1>5 DEF IndexNext

LEMMA PkgIndexStarts == IndexInit => PkgIndexInv
<1> SUFFICES ASSUME IndexInit PROVE PkgIndexInv
  OBVIOUS
<1> DEFINE none == [k \in IndexKeys |-> 0]
<1>1. none \in [IndexKeys -> Nat] /\ none = [k \in IndexKeys |-> IF k \in IndexKeys THEN 0 ELSE none[k]]
  OBVIOUS
<1>2. idxSize = none /\ indexDisk = none /\ installing = none /\ idxTotal = 0 /\ idxUsed = <<>>
  BY DEF IndexInit
<1>3. \A k \in IndexKeys : none[k] = 0
  OBVIOUS
<1> HIDE DEF none
<1>4. SumOf(none, IndexKeys) = 0
  <2>1. SumOf(none, IndexKeys) \in Nat
    BY <1>1, SumWithin
  <2>2. SumOf(none, IndexKeys) = SumOf(none, IndexKeys) - SumOf(none, IndexKeys)
    <3>1. SumOf([k \in IndexKeys |-> IF k \in IndexKeys THEN 0 ELSE none[k]], IndexKeys)
            = SumOf(none, IndexKeys) - SumOf(none, IndexKeys)
      BY <1>1, SumCleared
    <3> QED BY <1>1, <3>1
  <2> QED BY <2>1, <2>2
<1>5. <<>> \in Seq(IndexKeys)
  OBVIOUS
<1> QED BY <1>2, <1>3, <1>1, <1>4, <1>5 DEF PkgIndexInv, TotalExact, BudgetKept, Covers

-----------------------------------------------------------------------------
(* PkgCache.  While an eviction has removed the body and not yet the entry, *)
(* a body that is there again was put there by a request that has not come  *)
(* to index it.                                                             *)
UnderInstall == \E c \in Clients : pkgAt[c] \in {"writeMeta", "admit"}

ReinstalledIsClaimed == evictAt \in {"meta", "index"} /\ body # 0 => UnderInstall

IndexedInv == PkgInv /\ BodyIndexed /\ ReinstalledIsClaimed

LEMMA IndexedInvStep == IndexedInv /\ [PkgNext]_pkgVars => IndexedInv'
<1> SUFFICES ASSUME IndexedInv, [PkgNext]_pkgVars PROVE IndexedInv'
  OBVIOUS
<1>1. PkgInv'
  <2>1. CASE UNCHANGED pkgVars
    BY <2>1 DEF IndexedInv, pkgVars, file, requests, PkgInv, PkgTyped, PkgKinds, PkgHeld, PkgFiles, MetaNeverAhead
  <2> QED BY <2>1, PkgInvStep DEF IndexedInv
<1>2. /\ pkgAt \in [Clients -> PkgPoints]
      /\ body # 0 => indexed \/ UnderInstall
      /\ evictAt \in {"meta", "index"} /\ body # 0 => UnderInstall
  BY DEF IndexedInv, PkgInv, PkgTyped, BodyIndexed, ReinstalledIsClaimed, UnderInstall
<1>3. SUFFICES /\ body' # 0 => indexed' \/ UnderInstall'
               /\ evictAt' \in {"meta", "index"} /\ body' # 0 => UnderInstall'
  BY <1>1 DEF IndexedInv, BodyIndexed, ReinstalledIsClaimed, UnderInstall
<1> USE DEF file, requests
<1>4. ASSUME NEW c \in Clients, Commit(c) PROVE UnderInstall'
  BY <1>2, <1>4 DEF Commit, Goes, UnderInstall
<1>5. ASSUME NEW c \in Clients, admit(c) PROVE indexed' /\ evictAt' = "idle"
  BY <1>5 DEF admit
<1>6. ASSUME NEW c \in Clients,
             \/ Open(c) \/ readMeta(c) \/ Lock(c) \/ ServeStale(c) \/ NotModified(c) \/ NotFound(c) \/ Ok(c)
             \/ Writer(c) \/ Copied(c) \/ CopyBreaks(c) \/ CommitFails(c) \/ writeMeta(c)
      PROVE  UNCHANGED <<body, indexed, evictAt>> /\ (UnderInstall => UnderInstall')
  <2>1. UNCHANGED <<body, indexed, evictAt>>
    BY <1>6 DEF Open, readMeta, Lock, ServeStale, NotModified, NotFound, Ok, Writer, Copied, CopyBreaks,
       CommitFails, writeMeta
  <2>2. /\ pkgAt[c] \in {"writeMeta", "admit"} => pkgAt' = [pkgAt EXCEPT ![c] = "admit"]
        /\ \E p : pkgAt' = [pkgAt EXCEPT ![c] = p]
    <3>1. CASE Open(c) \/ readMeta(c) \/ Lock(c) \/ ServeStale(c)
      BY <3>1 DEF Open, readMeta, Lock, ServeStale, Goes, Reply
    <3>2. CASE NotModified(c) \/ NotFound(c) \/ Ok(c) \/ Writer(c)
      BY <3>2 DEF NotModified, NotFound, Ok, Writer, Goes, Reply
    <3>3. CASE Copied(c) \/ CopyBreaks(c) \/ CommitFails(c) \/ writeMeta(c)
      BY <3>3 DEF Copied, CopyBreaks, CommitFails, writeMeta, Goes, Reply
    <3> QED BY <1>6, <3>1, <3>2, <3>3
  <2>3. ASSUME NEW d \in Clients, pkgAt[d] \in {"writeMeta", "admit"} PROVE pkgAt'[d] \in {"writeMeta", "admit"}
    BY <1>2, <2>2, <2>3
  <2> QED BY <2>1, <2>3 DEF UnderInstall
<1>7. ASSUME NEW c \in Clients, ClientStep(c)
      PROVE  /\ body' # 0 => indexed' \/ UnderInstall'
             /\ evictAt' \in {"meta", "index"} /\ body' # 0 => UnderInstall'
  BY <1>2, <1>4, <1>5, <1>6, <1>7 DEF ClientStep
<1>8. CASE \/ \E c \in Clients, k \in {"document", "artifact"} : Ask(c, k)
           \/ Expire \/ Publish \/ UNCHANGED pkgVars
  <2>1. UNCHANGED <<body, indexed, evictAt>>
    BY <1>8 DEF Ask, Expire, Publish, pkgVars
  <2>2. ASSUME NEW d \in Clients, pkgAt[d] \in {"writeMeta", "admit"} PROVE pkgAt'[d] = pkgAt[d]
    BY <1>2, <1>8, <2>2 DEF Ask, Goes, Expire, Publish, pkgVars
  <2> QED BY <1>2, <2>1, <2>2 DEF UnderInstall
<1>9. CASE evictLocked \/ EvictStep
  BY <1>2, <1>9 DEF evictLocked, EvictStep, EvictBody, EvictMeta, EvictIndex, UnderInstall
<1>10. CASE PkgRestart
  BY <1>10 DEF PkgRestart
<1> QED BY <1>7, <1>8, <1>9, <1>10 DEF PkgNext

-----------------------------------------------------------------------------
(* CargoProxy.                                                              *)
CargoInv == ConfigAgrees /\ NoUnreadWhileDraining

LEMMA CargoInvStep == CargoInv /\ [CargoNext]_cargoVars => CargoInv'
<1> SUFFICES ASSUME CargoInv, [CargoNext]_cargoVars PROVE CargoInv'
  OBVIOUS
<1> USE DEF cfgVars, dogVars, srvVars
<1>1. ConfigAgrees'
  <2>1. CASE UNCHANGED cfgVars
    BY <2>1 DEF CargoInv, ConfigAgrees
  <2>2. CASE ProbeFails \/ ProbeAnswered
    <3>1. PICK a \in BOOLEAN : setConfigActive(a) \/ UNCHANGED cfgVars
      BY <2>2 DEF ProbeFails, ProbeAnswered
    <3>2. ASSUME cfgFile' = a, configActive' = a PROVE ConfigAgrees'
      BY <3>2 DEF ConfigAgrees
    <3>3. UNCHANGED cfgVars \/ (cfgFile' = a /\ configActive' = a) \/ UNCHANGED <<cfgFile, configActive>>
      BY <3>1 DEF setConfigActive, writeContainerConfigLocked
    <3>4. ASSUME UNCHANGED <<cfgFile, configActive>> PROVE ConfigAgrees'
      BY <3>4 DEF CargoInv, ConfigAgrees
    <3> QED BY <3>2, <3>3, <3>4
  <2>3. CASE runWatchdog \/ Wedge \/ Unwedge \/ StopCargo \/ CargoStopStep \/ UNCHANGED cargoVars
    BY <2>1, <2>3 DEF runWatchdog, Wedge, Unwedge, StopCargo, CargoStopStep, DogJoined, Shutdown, Drain, ForceClose,
       CargoShutdownReturns, cargoVars
  <2>4. CASE \E c \in Conns : Accept(c) \/ trackConn(c) \/ ReadRequest(c) \/ Handled(c)
    BY <2>1, <2>4 DEF Accept, trackConn, ReadRequest, Handled
  <2> QED BY <2>2, <2>3, <2>4 DEF CargoNext, DogStep
<1>2. NoUnreadWhileDraining'
  <2>1. CASE UNCHANGED <<unread, cargoStopAt>>
    BY <2>1 DEF CargoInv, NoUnreadWhileDraining
  <2>2. CASE DogStep \/ Wedge \/ Unwedge \/ UNCHANGED cargoVars
    BY <2>1, <2>2 DEF DogStep, runWatchdog, ProbeFails, ProbeAnswered, Wedge, Unwedge, cargoVars
  <2>3. CASE StopCargo \/ CargoStopStep
    BY <2>3 DEF StopCargo, CargoStopStep, DogJoined, Shutdown, Drain, ForceClose, CargoShutdownReturns, CargoInv,
       NoUnreadWhileDraining
  <2>4. CASE \E c \in Conns : Accept(c) \/ trackConn(c) \/ ReadRequest(c) \/ Handled(c)
    BY <2>4 DEF Accept, trackConn, ReadRequest, Handled, CargoInv, NoUnreadWhileDraining
  <2> QED BY <2>2, <2>3, <2>4 DEF CargoNext
<1> QED BY <1>1, <1>2 DEF CargoInv

-----------------------------------------------------------------------------
LEMMA CachesStart == HostStart => IndexedInv /\ PkgIndexInv /\ CargoInv
<1> SUFFICES ASSUME HostStart PROVE IndexedInv /\ PkgIndexInv /\ CargoInv
  OBVIOUS
<1>1. IndexedInv
  <2>1. PkgInv
    BY PkgAnswersAre, PkgCacheAssumption DEF HostStart, HostInit, PkgInit, NoMeta, Metas, PkgInv, PkgTyped, PkgKinds,
       PkgHeld, PkgFiles, MetaNeverAhead, PkgPoints, PkgBefore, PkgWaiting, PkgHolding, PkgFetching
  <2> QED BY <2>1 DEF HostStart, HostInit, PkgInit, IndexedInv, BodyIndexed, ReinstalledIsClaimed
<1>2. PkgIndexInv
  BY PkgIndexStarts DEF HostStart, HostInit
<1>3. CargoInv
  BY DEF HostStart, HostInit, CargoInit, CargoInv, ConfigAgrees, NoUnreadWhileDraining
<1> QED BY <1>1, <1>2, <1>3

LEMMA CachesKeep ==
  IndexedInv /\ PkgIndexInv /\ CargoInv /\ [HostNext]_<<focus, hostVars>> => (IndexedInv /\ PkgIndexInv /\ CargoInv)'
<1> SUFFICES ASSUME IndexedInv, PkgIndexInv, CargoInv, [HostNext]_<<focus, hostVars>>
             PROVE  IndexedInv' /\ PkgIndexInv' /\ CargoInv'
  OBVIOUS
<1>1. [PkgNext]_pkgVars /\ [IndexNext]_idxVars /\ [CargoNext]_cargoVars
  BY DEF HostNext, HostFrozen, HostMoves, hostVars
<1> QED BY <1>1, IndexedInvStep, PkgIndexInvStep, CargoInvStep

(* What a cache believes of itself agrees with what is on the disk, for     *)
(* every number of requests and keys and any budget, over evictions that    *)
(* come between the steps of an install or cannot remove a body, failed     *)
(* writes and restarts: the validators vouch for no newer bytes than the    *)
(* body has, every body is indexed or about to be, the running total is the *)
(* sum of the entries and exceeds the budget only with bodies that cannot   *)
(* be removed, and the flag says what the mounted config says.              *)
THEOREM CachesStayConsistent == HostSpec => []CachesConsistent
<1>1. IndexedInv /\ PkgIndexInv /\ CargoInv => CachesConsistent
  <2>1. PkgIndexInv => NeverUnderestimates
    BY DEF PkgIndexInv, NeverUnderestimates
  <2> QED BY <2>1 DEF CachesConsistent, IndexedInv, PkgInv, PkgFiles, PkgIndexInv, CargoInv
<1> QED BY <1>1, CachesStart, CachesKeep, PTL DEF HostSpec

-----------------------------------------------------------------------------
(* MacImage.  What is in the partial img is whole layers, and what the     *)
(* image boots with was written before its first layer was.                 *)
ImageTyped ==
  /\ tag \in Nat \ {0} /\ manifest \in Nat /\ sidecars \in Nat
  /\ partial \in Seq(Nat) /\ base \in Seq(Nat)

Solid(img) == \A i \in 1..Len(img) : img[i] # 0

PartialGrows ==
  /\ Solid(partial) /\ Len(partial) <= Layers
  /\ imgAt \in {"sidecars", "open", "layer", "rename"} => manifest # 0
  /\ imgAt \in {"open", "layer", "rename"} => sidecars # 0
  /\ imgAt = "layer" => Len(partial) < Layers
  /\ imgAt = "rename" => Len(partial) = Layers

BaseStays ==
  /\ Solid(base)
  /\ Len(base) # 0 => Len(base) = Layers /\ sidecars # 0
  /\ imgAt \in {"manifest", "sidecars", "open", "layer", "rename"} => Len(base) = 0

Provisioned ==
  /\ imgAt \in {"consolidate", "mark"} => daemons
  /\ marker => daemons
  /\ ReadyIsProvisioned

ImageInv == ImageTyped /\ PartialGrows /\ BaseStays /\ Provisioned

LEMMA ImageStarts == MacImageInit => ImageInv
  BY MacImageAssumption DEF MacImageAssumption, MacImageInit, ImageInv, ImageTyped, PartialGrows, BaseStays, Provisioned, Solid, ReadyIsProvisioned

LEMMA EmptyIs == ASSUME NEW img \in Seq(Nat) PROVE img = <<>> <=> Len(img) = 0
OBVIOUS

LEMMA LayerAdded ==
  ASSUME NEW img \in Seq(Nat), Solid(img), NEW m \in Nat, m # 0
  PROVE  Append(img, m) \in Seq(Nat) /\ Solid(Append(img, m)) /\ Len(Append(img, m)) = Len(img) + 1
  BY DEF Solid

LEMMA ImageInvStep == ImageInv /\ [MacImageNext]_macImageVars => ImageInv'
<1> SUFFICES ASSUME ImageInv, [MacImageNext]_macImageVars PROVE ImageInv'
  OBVIOUS
<1> USE MacImageAssumption DEF MacImageAssumption
<1>0. /\ Len(base) = 0 <=> base = <<>>
      /\ Len(partial) = 0 <=> partial = <<>>
      /\ Len(partial) \in Nat /\ Len(base) \in Nat
  BY EmptyIs DEF ImageInv, ImageTyped
<1> USE DEF ImageInv, ImageTyped, PartialGrows, BaseStays, Provisioned, ReadyIsProvisioned, ImgTo, ImgSame, imgPull
<1>1. ASSUME EnsureMacOSVMDisk PROVE ImageInv'
  BY <1>0, <1>1 DEF EnsureMacOSVMDisk
<1>2. ASSUME fetchManifest PROVE ImageInv'
  BY <1>0, <1>2 DEF fetchManifest
<1>3. ASSUME writeSidecars PROVE ImageInv'
  BY <1>0, <1>3 DEF writeSidecars
<1>4. ASSUME openPartial PROVE ImageInv'
  <2>1. Solid(<<>>) /\ <<>> \in Seq(Nat) /\ Len(<<>>) = 0
    BY DEF Solid
  <2>2. CASE Len(partial) = Layers
    <3>1. base' = partial /\ partial' = <<>> /\ imgAt' = "inject" /\ imgAt = "open"
      BY <1>0, <1>4, <2>2 DEF openPartial
    <3>2. UNCHANGED <<tag, manifest, sidecars, daemons, marker>>
      BY <1>4 DEF openPartial
    <3> QED BY <2>1, <2>2, <3>1, <3>2 DEF Solid
  <2>3. CASE Len(partial) # Layers
    <3>1. UNCHANGED <<base, partial>> /\ imgAt' = "layer" /\ imgAt = "open"
      BY <1>0, <1>4, <2>3 DEF openPartial
    <3> QED BY <1>0, <1>4, <2>3, <3>1 DEF openPartial, Solid
  <2> QED BY <2>2, <2>3
<1>5. ASSUME pullAndDecompressDiskLayer PROVE ImageInv'
  <2>1. imgAt = "layer" /\ UNCHANGED <<tag, manifest, sidecars, base, daemons, marker>>
    BY <1>5 DEF pullAndDecompressDiskLayer
  <2>2. CASE partial' = Append(partial, manifest) /\ imgAt' = (IF Len(partial') = Layers THEN "rename" ELSE "layer")
    <3>1. partial' \in Seq(Nat) /\ Solid(partial') /\ Len(partial') = Len(partial) + 1
      BY <2>1, <2>2, LayerAdded
    <3> QED BY <1>0, <2>1, <2>2, <3>1 DEF Solid
  <2>3. CASE UNCHANGED partial /\ imgAt' \in {"failed", "layer"}
    BY <1>0, <2>1, <2>3 DEF Solid
  <2> QED BY <1>5, <2>2, <2>3 DEF pullAndDecompressDiskLayer
<1>6. ASSUME renamePartial PROVE ImageInv'
  <2>1. Solid(<<>>) /\ <<>> \in Seq(Nat) /\ Len(<<>>) = 0
    BY DEF Solid
  <2> QED BY <1>0, <1>6, <2>1 DEF renamePartial, Solid
<1>7. ASSUME injectLaunchDaemons PROVE ImageInv'
  BY <1>0, <1>7 DEF injectLaunchDaemons, Solid
<1>8. ASSUME RestartDaemon PROVE ImageInv'
  BY <1>0, <1>8 DEF RestartDaemon, Pulling, Solid
<1>9. ASSUME PushTag PROVE ImageInv'
  BY <1>0, <1>9 DEF PushTag, Solid
<1>10. ASSUME UNCHANGED macImageVars PROVE ImageInv'
  BY <1>0, <1>10 DEF macImageVars, Solid
<1> QED BY <1>1, <1>2, <1>3, <1>4, <1>5, <1>6, <1>7, <1>8, <1>9, <1>10
    DEF MacImageNext, MacImageStep, ImageReady

LEMMA ImageKeeps == ImageInv => ImageWhole /\ ReadyIsProvisioned
<1> SUFFICES ASSUME ImageInv PROVE ImageWhole
  BY DEF ImageInv, Provisioned
<1>1. base \in Seq(Nat) /\ (base # <<>> => Len(base) # 0)
  BY EmptyIs DEF ImageInv, ImageTyped
<1> QED BY <1>1 DEF ImageInv, BaseStays, Solid, ImageWhole

(* The partial img only grows, until it is the image.                      *)
LEMMA LayersStay ==
  ImageInv /\ [MacImageNext]_macImageVars => [Len(partial') >= Len(partial) \/ base' = partial]_macImageVars
<1> SUFFICES ASSUME ImageInv, MacImageNext, base' # partial PROVE Len(partial') >= Len(partial)
  OBVIOUS
<1>1. partial \in Seq(Nat) /\ Len(partial) \in Nat /\ manifest \in Nat
  BY DEF ImageInv, ImageTyped
<1>2. UNCHANGED partial \/ partial' = Append(partial, manifest)
  BY DEF MacImageNext, MacImageStep, EnsureMacOSVMDisk, fetchManifest, writeSidecars, openPartial,
         pullAndDecompressDiskLayer, renamePartial, injectLaunchDaemons, RestartDaemon, PushTag, ImageReady,
         macImageVars, imgPull
<1> QED BY <1>1, <1>2

-----------------------------------------------------------------------------
(* CacheImages.  A mirror that nothing disturbed has its lease, and what it *)
(* has copied is in the namespace, where the manifest leads to it: by its   *)
(* own lease, or by the record or the lease that it leans on.               *)
MirrorsTyped ==
  /\ mirAt \in [Mirrors -> {"new", "lease", "copy", "record", "release", "done"}]
  /\ mirTodo \in [Mirrors -> SUBSET Blobs] /\ buckets \subseteq Blobs
  /\ held \in [Mirrors -> SUBSET Blobs]
  /\ \A m \in leaning : m \in Mirrors /\ mirAt[m] \in {"copy", "record"}
  /\ trusted => cached

Leads(m) == Manifest \in held[m] \/ (m \in leaning /\ Rooted)

Copies(m) ==
  /\ m \in mirLease
  /\ Blobs \ mirTodo[m] \subseteq buckets
  /\ mirAt[m] = "record" => mirTodo[m] = {}
  /\ mirTodo[m] = Blobs \/ (Manifest \notin mirTodo[m] /\ Leads(m))
  /\ m \in leaning => Rooted

Undisturbed == \A m \in Mirrors \ mirUnsafe : mirAt[m] \in {"copy", "record"} => Copies(m)

MirrorInv == MirrorsTyped /\ Undisturbed /\ MirrorWhole

LEMMA MirrorStarts == CacheInit => MirrorInv
  BY DEF CacheInit, MirrorInv, MirrorsTyped, Undisturbed, MirrorWhole

(* What has been copied is not collected.                                   *)
LEMMA Collected ==
  ASSUME MirrorsTyped, NEW m \in Mirrors, Copies(m)
  PROVE  Blobs \ mirTodo[m] \subseteq buckets \cap KeptByGC
<1> DEFINE roots == (IF cached THEN {Manifest} ELSE {}) \cup UNION {held[k] : k \in Mirrors}
<1>1. CASE mirTodo[m] = Blobs
  BY <1>1
<1>2. CASE Manifest \notin mirTodo[m] /\ Leads(m)
  <2>1. Manifest \in buckets
    BY <1>2, CacheImagesAssumption DEF Copies
  <2>2. Manifest \in roots
    BY <1>2 DEF Leads, Rooted
  <2>3. KeptByGC = roots \cup Blobs
    BY <2>1, <2>2 DEF KeptByGC, Reach
  <2> QED BY <2>3 DEF Copies
<1> QED BY <1>1, <1>2 DEF Copies

LEMMA RecordLeaves ==
  ASSUME MirrorInv, RecordGoes, UNCHANGED <<mirAt, mirTodo, mirLease, leaning, buckets>>
  PROVE  MirrorInv'
<1>1. MirrorsTyped' /\ MirrorWhole'
  BY DEF MirrorInv, MirrorsTyped, MirrorWhole, RecordGoes
<1>2. ASSUME NEW k \in Mirrors, k \notin mirUnsafe', mirAt'[k] \in {"copy", "record"} PROVE Copies(k)'
  <2>1. Copies(k)
    BY <1>2 DEF RecordGoes, Disturbs, MirrorInv, Undisturbed
  <2>2. Rooted' \/ k \notin leaning
    BY <1>2 DEF RecordGoes, Disturbs
  <2> QED BY <2>1, <2>2 DEF RecordGoes, Copies, Leads
<1> QED BY <1>1, <1>2 DEF MirrorInv, Undisturbed

LEMMA MirrorInvStep == MirrorInv /\ [CacheNext]_cacheVars => MirrorInv'
<1> SUFFICES ASSUME MirrorInv, [CacheNext]_cacheVars PROVE MirrorInv'
  OBVIOUS
<1> USE CacheImagesAssumption DEF MirrorInv, MirrorsTyped, Undisturbed, MirrorWhole, MirTo, mirVars, nsVars, repairVars
<1>1. ASSUME NEW m \in Mirrors, MirrorImageToCache(m) PROVE MirrorInv'
  BY <1>1 DEF MirrorImageToCache, Copies, Leads, Rooted
<1>2. ASSUME NEW m \in Mirrors, beginMirrorLease(m) PROVE MirrorInv'
  BY <1>2 DEF beginMirrorLease, Copies, Leads, Rooted
<1>3. ASSUME NEW m \in Mirrors, NEW b \in Blobs, copyContentRef(m, b) PROVE MirrorInv'
  <2>1. CASE writeContentRef(m, b)
    BY <1>3, <2>1 DEF copyContentRef, writeContentRef, Copies, Leads, Rooted
  <2>2. CASE refreshContentLabels(m, b)
    BY <1>3, <2>2 DEF copyContentRef, refreshContentLabels, Copies, Leads, Rooted
  <2> QED BY <1>3, <2>1, <2>2 DEF copyContentRef
<1>4. ASSUME NEW m \in Mirrors, CopyFails(m) PROVE MirrorInv'
  BY <1>4 DEF CopyFails, EndsCopying, Copies, Leads, Rooted
<1>5. ASSUME NEW m \in Mirrors, CreateRecord(m) PROVE MirrorInv'
  <2>1. m \in mirUnsafe \/ buckets = Blobs
    BY <1>5 DEF CreateRecord, Copies
  <2>2. MirrorsTyped' /\ MirrorWhole'
    BY <1>5, <2>1 DEF CreateRecord, EndsCopying
  <2>3. ASSUME NEW k \in Mirrors, k \notin mirUnsafe', mirAt'[k] \in {"copy", "record"} PROVE Copies(k)'
    <3>1. k # m /\ mirAt'[k] = mirAt[k] /\ k \notin mirUnsafe
      BY <1>5, <2>3 DEF CreateRecord, EndsCopying
    <3>2. Copies(k) /\ (k \in leaning' <=> k \in leaning) /\ Rooted' /\ UNCHANGED <<mirTodo, mirLease, held, buckets>>
      BY <1>5, <2>3, <3>1 DEF CreateRecord, EndsCopying, Rooted
    <3> QED BY <3>1, <3>2 DEF Copies, Leads
  <2> QED BY <2>2, <2>3
<1>6. ASSUME NEW m \in Mirrors, ReleaseLease(m) PROVE MirrorInv'
  <2>1. MirrorsTyped' /\ MirrorWhole'
    BY <1>6 DEF ReleaseLease, LetGo
  <2>2. ASSUME NEW k \in Mirrors, k \notin mirUnsafe', mirAt'[k] \in {"copy", "record"} PROVE Copies(k)'
    <3>1. k # m /\ mirAt'[k] = mirAt[k] /\ k \notin mirUnsafe /\ UNCHANGED <<mirTodo, leaning, buckets>>
      BY <1>6, <2>2 DEF ReleaseLease, Disturbs
    <3>2. Copies(k)
      BY <2>2, <3>1
    <3>3. held'[k] = held[k] /\ k \in mirLease'
      BY <1>6, <3>1, <3>2 DEF ReleaseLease, LetGo, Copies
    <3>4. Rooted' \/ k \notin leaning
      <4>1. CASE Disturbs({})
        BY <2>2, <4>1 DEF Disturbs
      <4>2. CASE UNCHANGED held
        BY <1>6, <3>2, <4>2 DEF ReleaseLease, Copies, Rooted
      <4> QED BY <1>6, <4>1, <4>2 DEF ReleaseLease
    <3> QED BY <3>1, <3>2, <3>3, <3>4 DEF Copies, Leads
  <2> QED BY <2>1, <2>2
<1>7. ASSUME ContainerdGC PROVE MirrorInv'
  <2>1. buckets' = buckets \cap KeptByGC /\ UNCHANGED <<mirVars, cached, trusted>>
    BY <1>7 DEF ContainerdGC
  <2>2. MirrorWhole'
    <3>1. cached /\ trusted => KeptByGC = Reach({Manifest} \cup UNION {held[k] : k \in Mirrors}) /\ Manifest \in buckets
      BY DEF KeptByGC
    <3>2. cached /\ trusted => Blobs \subseteq KeptByGC
      BY <3>1 DEF Reach
    <3> QED BY <2>1, <3>2
  <2>3. ASSUME NEW k \in Mirrors, k \notin mirUnsafe, mirAt[k] \in {"copy", "record"} PROVE Copies(k)'
    <3>1. Copies(k) /\ Blobs \ mirTodo[k] \subseteq buckets \cap KeptByGC
      BY <2>3, Collected
    <3>2. Rooted' = Rooted
      BY <2>1 DEF Rooted
    <3> QED BY <2>1, <3>1, <3>2 DEF Copies, Leads
  <2> QED BY <2>1, <2>2, <2>3
<1>8. ASSUME RecordEvicted \/ CleanupImages PROVE MirrorInv'
  BY <1>8, RecordLeaves DEF RecordEvicted, CleanupImages
<1>9. ASSUME CleanupLeases PROVE MirrorInv'
  BY <1>9 DEF CleanupLeases, LetGo, Disturbs, Overlapped, Copies, Leads, Rooted
<1>10. ASSUME CleanupContent PROVE MirrorInv'
  BY <1>10 DEF CleanupContent, Overlapped, Copies, Leads, Rooted
<1>11. ASSUME RepairStep PROVE MirrorInv'
  <2>1. CASE RepairBrokenChains
    BY <2>1, RecordLeaves DEF RepairBrokenChains
  <2>2. CASE SweepBrokenImageChains \/ PlanBrokenChains
    BY <2>2 DEF SweepBrokenImageChains, PlanBrokenChains, Copies, Leads, Rooted
  <2> QED BY <1>11, <2>1, <2>2 DEF RepairStep
<1>12. ASSUME NEW m \in Mirrors, LeaseExpires(m) PROVE MirrorInv'
  BY <1>12 DEF LeaseExpires, LetGo, Disturbs, Overlapped, Copies, Leads, Rooted
<1>13. ASSUME CachePrune \/ Unpack \/ SnapshotLost \/ InUse \/ UNCHANGED cacheVars PROVE MirrorInv'
  BY <1>13 DEF CachePrune, Unpack, SnapshotLost, InUse, cacheVars, Copies, Leads, Rooted
<1> QED BY <1>1, <1>2, <1>3, <1>4, <1>5, <1>6, <1>7, <1>8, <1>9, <1>10, <1>11, <1>12, <1>13 DEF CacheNext, MirrorStep

-----------------------------------------------------------------------------
(* ImageGC.  What a plan keeps of a listing.                                *)
LEMMA LeftIs ==
  ASSUME NEW K, NEW s \in Seq(K), NEW out
  PROVE  LeftOf(s, out) \in Seq(K) /\ Range(LeftOf(s, out)) = Range(s) \ out
<1>1. LeftOf(s, out) = Dropped(s, out)
  BY DEF LeftOf, Dropped
<1> QED BY <1>1, DroppedKeeps DEF Range, ToSet

LEMMA MinIn == ASSUME NEW r, r \subseteq Nat, r # {} PROVE Min(r) \in r
<1>1. PICK x \in r : \A y \in r : x <= y
  BY HasLeast
<1> QED BY <1>1 DEF Min

LEMMA PartRange ==
  ASSUME NEW K, NEW s \in Seq(K), NEW n \in 1..Len(s)
  PROVE  SubSeq(s, 1, n) \in Seq(K) /\ Range(SubSeq(s, 1, n)) \subseteq Range(s)
<1>1. /\ SubSeq(s, 1, n) \in Seq(K) /\ Len(SubSeq(s, 1, n)) = n
      /\ \A i \in 1..n : SubSeq(s, 1, n)[i] = s[i]
  OBVIOUS
<1> DEFINE t == SubSeq(s, 1, n)
<1>2. DOMAIN t = 1..n /\ DOMAIN s = 1..Len(s) /\ (\A i \in 1..n : i \in 1..Len(s) /\ t[i] = s[i])
  BY <1>1
<1> HIDE DEF t
<1>3. Range(t) \subseteq Range(s)
  BY <1>2 DEF Range
<1> QED BY <1>1, <1>3 DEF t

LEMMA TailRange ==
  ASSUME NEW K, NEW s \in Seq(K), s # <<>>
  PROVE  Tail(s) \in Seq(K) /\ Range(Tail(s)) \subseteq Range(s) /\ Head(s) \in K
<1>1. /\ Tail(s) \in Seq(K) /\ Len(s) \in Nat /\ Len(s) > 0 /\ Len(Tail(s)) = Len(s) - 1 /\ Head(s) \in K
      /\ \A i \in 1..(Len(s) - 1) : Tail(s)[i] = s[i + 1]
  OBVIOUS
<1> DEFINE t == Tail(s)
<1>2. DOMAIN t = 1..(Len(s) - 1) /\ DOMAIN s = 1..Len(s)
  BY <1>1
<1>3. \A i \in 1..(Len(s) - 1) : i + 1 \in 1..Len(s) /\ t[i] = s[i + 1]
  BY <1>1
<1> HIDE DEF t
<1>4. Range(t) \subseteq Range(s)
  BY <1>2, <1>3 DEF Range
<1> QED BY <1>1, <1>4 DEF t

(* A plan holds nothing that is protected, and what has been running since  *)
(* the pass listed the containers is.                                       *)
GcTyped == lru \in Seq(Imgs) /\ gcCands \in Seq(Imgs) /\ gcPlan \in Seq(Imgs) /\ gcAt \in GcPoints

PlanSpares == gcHeld \subseteq gcProt /\ Range(gcPlan) \cap gcProt = {}

PlanWaits == gcAt \in {"idle", "running", "list"} => gcPlan = <<>>

GcInv == GcTyped /\ PlanSpares /\ PlanWaits

LEMMA NoPlan == <<>> \in Seq(Imgs) /\ Range(<<>>) = {}
  BY DEF Range

LEMMA GcStarts == ImageGCInit => GcInv
  BY NoPlan DEF ImageGCInit, GcInv, GcTyped, PlanSpares, PlanWaits, GcPoints

LEMMA TouchedIs ==
  ASSUME NEW s \in Seq(Imgs), NEW i \in Imgs
  PROVE  Append(LeftOf(s, {i}), i) \in Seq(Imgs) /\ Range(s) \subseteq Range(Append(LeftOf(s, {i}), i))
<1>1. LeftOf(s, {i}) \in Seq(Imgs) /\ Range(LeftOf(s, {i})) = Range(s) \ {i}
  BY LeftIs
<1>2. /\ Append(LeftOf(s, {i}), i) \in Seq(Imgs)
      /\ ToSet(Append(LeftOf(s, {i}), i)) = ToSet(LeftOf(s, {i})) \cup {i}
  BY <1>1, AppendedSet
<1> QED BY <1>1, <1>2 DEF Range, ToSet

(* Every plan is made of candidates that are not protected.                 *)
LEMMA PlansSpare ==
  ASSUME NEW s \in Seq(Imgs)
  PROVE  /\ PlanByAge(s) \in Seq(Imgs) /\ Range(PlanByAge(s)) \cap gcProt = {}
         /\ PlanForced(s) \in Seq(Imgs) /\ Range(PlanForced(s)) \cap gcProt = {}
         /\ PlanEviction(s) \in Seq(Imgs) /\ Range(PlanEviction(s)) \cap gcProt = {}
<1> DEFINE e == filterProtected(s)
<1>1. e \in Seq(Imgs) /\ Range(e) = Range(s) \ gcProt
  BY LeftIs DEF filterProtected
<1>2. PlanByAge(s) \in Seq(Imgs) /\ Range(PlanByAge(s)) \cap gcProt = {}
  <2>1. PlanByAge(s) \in Seq(Imgs) /\ Range(PlanByAge(s)) = Range(e) \ (Imgs \ staleImgs)
    BY <1>1, LeftIs DEF PlanByAge
  <2> QED BY <1>1, <2>1
<1>3. PlanForced(s) \in Seq(Imgs) /\ Range(PlanForced(s)) \cap gcProt = {}
  BY <1>1 DEF PlanForced
<1>4. PlanEviction(s) \in Seq(Imgs) /\ Range(PlanEviction(s)) \cap gcProt = {}
  <2> DEFINE enough == {n \in 1..Len(e) : PlannedBytes(SubSeq(e, 1, n)) >= BytesToFree(gcBefore)}
  <2>1. PlanEviction(s) = IF enough = {} THEN e ELSE SubSeq(e, 1, Min(enough))
    BY DEF PlanEviction
  <2>2. enough \subseteq 1..Len(e) /\ 1..Len(e) \subseteq Nat
    OBVIOUS
  <2> HIDE DEF enough, e
  <2>3. CASE enough = {}
    BY <1>1, <2>1, <2>3
  <2>4. CASE enough # {}
    <3>1. Min(enough) \in enough
      BY <2>2, <2>4, MinIn
    <3>2. Min(enough) \in 1..Len(e)
      BY <2>2, <3>1
    <3>3. SubSeq(e, 1, Min(enough)) \in Seq(Imgs) /\ Range(SubSeq(e, 1, Min(enough))) \subseteq Range(e)
      BY <1>1, <3>2, PartRange
    <3> QED BY <1>1, <2>1, <2>4, <3>3
  <2> QED BY <2>3, <2>4
<1> QED BY <1>2, <1>3, <1>4

LEMMA GcInvStep == GcInv /\ [ImageGCNext]_gcVars => GcInv'
<1> SUFFICES ASSUME GcInv, [ImageGCNext]_gcVars PROVE GcInv'
  OBVIOUS
<1> USE DEF GcInv, GcTyped, PlanSpares, PlanWaits, gcEnv, gcWork, GcPoints
<1>1. ASSUME NEW i \in Imgs, Touch(i) PROVE GcInv'
  <2>1. lru' \in Seq(Imgs)
    BY <1>1, TouchedIs DEF Touch
  <2> QED BY <1>1, <2>1 DEF Touch
<1>2. ASSUME NEW i \in Imgs, RunContainer(i) \/ EndContainer(i) PROVE GcInv'
  BY <1>2 DEF RunContainer, EndContainer
<1>3. ASSUME Grow \/ Scheduled \/ TurnsStale \/ BackoffOver PROVE GcInv'
  BY <1>3 DEF Grow, Scheduled, TurnsStale, BackoffOver
<1>4. ASSUME NEW force \in BOOLEAN, collect(force) PROVE GcInv'
  BY <1>4 DEF collect
<1>5. ASSUME RunningContainers PROVE GcInv'
  <2>1. gcPlan' = <<>> /\ gcHeld' \subseteq gcProt'
    BY <1>5 DEF RunningContainers, ProtectedSet
  <2> QED BY <1>5, <2>1, NoPlan DEF RunningContainers
<1>6. ASSUME ListCandidates PROVE GcInv'
  <2> DEFINE listed(out) == LeftOf(lru, out)
             aged(out) == IF AgePass THEN PlanByAge(listed(out)) ELSE <<>>
  <2>3. PICK out \in SUBSET Range(lru) : gcPlan' = aged(out) /\ gcCands' = removeEvicted(listed(out), aged(out))
    BY <1>6 DEF ListCandidates
  <2>4. listed(out) \in Seq(Imgs)
    BY LeftIs
  <2> HIDE DEF listed
  <2>1. gcPlan' \in Seq(Imgs) /\ Range(gcPlan') \cap gcProt = {}
    BY <2>3, <2>4, PlansSpare, NoPlan
  <2>2. gcCands' \in Seq(Imgs)
    BY <2>3, <2>4, LeftIs DEF removeEvicted
  <2> QED BY <1>6, <2>1, <2>2 DEF ListCandidates
<1>7. ASSUME EvictAged \/ Evict PROVE GcInv'
  <2>1. gcPlan # <<>> /\ gcPlan' \in {<<>>, Tail(gcPlan)} /\ UNCHANGED <<gcProt, gcHeld, gcCands, gcAt>>
    BY <1>7 DEF EvictAged, Evict
  <2>2. lru' \in Seq(Imgs)
    <3>1. lru' = LeftOf(lru, {Head(gcPlan)})
      BY <1>7 DEF EvictAged, Evict, Delete
    <3> QED BY <3>1, LeftIs
  <2>3. gcPlan' \in Seq(Imgs) /\ Range(gcPlan') \cap gcProt = {}
    <3>1. gcPlan # <<>> /\ gcPlan \in Seq(Imgs) /\ gcPlan' \in {<<>>, Tail(gcPlan)}
      BY <2>1
    <3>2. Tail(gcPlan) \in Seq(Imgs) /\ Range(Tail(gcPlan)) \subseteq Range(gcPlan)
      BY <3>1, TailRange
    <3> QED BY <3>1, <3>2, NoPlan
  <2>4. gcAt \in {"age", "evict"}
    BY <1>7 DEF EvictAged, Evict
  <2> QED BY <2>1, <2>2, <2>3, <2>4
<1>8. ASSUME EvictFails PROVE GcInv'
  <2>1. gcPlan' \in Seq(Imgs) /\ Range(gcPlan') \cap gcProt = {}
    <3>1. gcPlan # <<>> /\ gcPlan \in Seq(Imgs) /\ gcPlan' \in {Tail(gcPlan), <<>>}
      BY <1>8 DEF EvictFails
    <3>2. Tail(gcPlan) \in Seq(Imgs) /\ Range(Tail(gcPlan)) \subseteq Range(gcPlan)
      BY <3>1, TailRange
    <3> QED BY <3>1, <3>2, NoPlan
  <2> QED BY <1>8, <2>1 DEF EvictFails
<1>9. ASSUME AgeDone PROVE GcInv'
  <2>1. CASE gcForce \/ OverMark(gcBefore)
    <3>1. gcPlan' \in Seq(Imgs) /\ Range(gcPlan') \cap gcProt = {}
      BY <1>9, <2>1, PlansSpare DEF AgeDone
    <3> QED BY <1>9, <2>1, <3>1 DEF AgeDone
  <2>2. CASE ~(gcForce \/ OverMark(gcBefore))
    BY <1>9, <2>2, NoPlan DEF AgeDone, GcReturn
  <2> QED BY <2>1, <2>2
<1>10. ASSUME Finish \/ GcListFails PROVE GcInv'
  BY <1>10, NoPlan DEF Finish, GcListFails, GcReturn
<1>11. ASSUME UNCHANGED gcVars PROVE GcInv'
  BY <1>11 DEF gcVars
<1> QED BY <1>1, <1>2, <1>3, <1>4, <1>5, <1>6, <1>7, <1>8, <1>9, <1>10, <1>11
    DEF ImageGCNext, GcStep, EnsureHeadroom

-----------------------------------------------------------------------------
LEMMA ImagesStart == HostStart => GcInv /\ MirrorInv /\ ImageInv
  BY GcStarts, MirrorStarts, ImageStarts DEF HostStart, HostInit

LEMMA ImagesMove ==
  [HostNext]_<<focus, hostVars>> => [ImageGCNext]_gcVars /\ [CacheNext]_cacheVars /\ [MacImageNext]_macImageVars
  BY DEF HostNext, HostFrozen, HostMoves, hostVars

(* The collector, the mirror of images and the macOS image, for any number  *)
(* of images, mirrors, blobs, layers and manifests, any watermarks and any  *)
(* number of failures and kills: no plan holds an image that the pass saw   *)
(* running and that has been running since, whatever it could not list or   *)
(* measure; a record written by a mirror that nothing disturbed has all its *)
(* content, although leases hold only what was written under them; base.img *)
(* is whole and, when it is handed out, provisioned, and no layer on disk   *)
(* is fetched again.                                                        *)
THEOREM ImagesStayKept == HostSpec => ImagesKept
<1>1. GcInv /\ MirrorInv /\ ImageInv /\ [HostNext]_<<focus, hostVars>> => (GcInv /\ MirrorInv /\ ImageInv)'
  BY ImagesMove, GcInvStep, MirrorInvStep, ImageInvStep
<1>2. GcInv /\ MirrorInv /\ ImageInv =>
        /\ focus = "imagegc" => LiveKept
        /\ focus = "images" => MirrorWhole
        /\ focus = "macimage" => ImageWhole /\ ReadyIsProvisioned
  <2>1. GcInv => LiveKept
    BY DEF GcInv, PlanSpares, LiveKept
  <2> QED BY <2>1, ImageKeeps DEF MirrorInv
<1>3. ImageInv /\ [HostNext]_<<focus, hostVars>> => [Len(partial') >= Len(partial) \/ base' = partial]_macImageVars
  BY ImagesMove, LayersStay
<1> QED BY <1>1, <1>2, <1>3, ImagesStart, PTL DEF HostSpec, ImagesKept, LayersKept

-----------------------------------------------------------------------------
(* The types of the stores.  CargoProxy: the watchdog stops counting at the *)
(* threshold, so that its count stays within it.                            *)
LEMMA CargoTypesStep == CargoTypeOK /\ CargoNext => CargoTypeOK'
<1> SUFFICES ASSUME CargoTypeOK, CargoNext PROVE CargoTypeOK'
  OBVIOUS
<1> USE CargoProxyAssumption DEF cfgVars, dogVars, srvVars
<1>1. cfgFile' \in BOOLEAN /\ configActive' \in BOOLEAN
  <2>1. ASSUME UNCHANGED <<cfgFile, configActive>> PROVE cfgFile' \in BOOLEAN /\ configActive' \in BOOLEAN
    BY <2>1 DEF CargoTypeOK
  <2>2. CASE ProbeFails \/ ProbeAnswered
    <3>1. PICK a \in BOOLEAN : setConfigActive(a) \/ UNCHANGED cfgVars
      BY <2>2 DEF ProbeFails, ProbeAnswered
    <3>2. UNCHANGED cfgVars \/ (cfgFile' = a /\ configActive' = a) \/ UNCHANGED <<cfgFile, configActive>>
      BY <3>1 DEF setConfigActive, writeContainerConfigLocked
    <3> QED BY <2>1, <3>2
  <2>3. CASE runWatchdog \/ Wedge \/ Unwedge \/ StopCargo \/ CargoStopStep
    BY <2>1, <2>3 DEF runWatchdog, Wedge, Unwedge, StopCargo, CargoStopStep, DogJoined, Shutdown, Drain, ForceClose,
       CargoShutdownReturns
  <2>4. CASE \E c \in Conns : Accept(c) \/ trackConn(c) \/ ReadRequest(c) \/ Handled(c)
    BY <2>1, <2>4 DEF Accept, trackConn, ReadRequest, Handled
  <2> QED BY <2>2, <2>3, <2>4 DEF CargoNext, DogStep
<1>2. failures' \in 0..Threshold /\ probing' \in {"wait", "probe", "late", "ending", "exited"}
  <2>1. CASE runWatchdog
    <3>1. failures' = failures
      BY <2>1 DEF runWatchdog
    <3>2. probing' \in {"wait", "probe", "late", "ending", "exited"}
      BY <2>1 DEF runWatchdog
    <3> QED BY <3>1, <3>2 DEF CargoTypeOK
  <2>2. CASE ProbeFails
    BY <2>2 DEF ProbeFails, CargoTypeOK
  <2>3. CASE ProbeAnswered
    BY <2>3 DEF ProbeAnswered, CargoTypeOK
  <2>4. CASE Wedge \/ Unwedge \/ StopCargo \/ CargoStopStep
    BY <2>4 DEF Wedge, Unwedge, StopCargo, CargoStopStep, DogJoined, Shutdown, Drain, ForceClose,
       CargoShutdownReturns, CargoTypeOK
  <2>5. CASE \E c \in Conns : Accept(c) \/ trackConn(c) \/ ReadRequest(c) \/ Handled(c)
    BY <2>5 DEF Accept, trackConn, ReadRequest, Handled, CargoTypeOK
  <2> QED BY <2>1, <2>2, <2>3, <2>4, <2>5 DEF CargoNext, DogStep
<1>3. /\ conn' \in [Conns -> {"none", "accepted", "new", "active", "idle", "closed"}] /\ unread' \subseteq Conns
      /\ cargoStopAt' \in {"no", "dog", "unread", "drain", "force", "accept", "stopped"}
  <2>1. CASE DogStep \/ Wedge \/ Unwedge \/ StopCargo \/ DogJoined \/ CargoShutdownReturns
    BY <2>1 DEF DogStep, runWatchdog, ProbeFails, ProbeAnswered, Wedge, Unwedge, StopCargo, DogJoined,
       CargoShutdownReturns, CargoTypeOK
  <2>2. CASE Shutdown
    BY <2>2 DEF Shutdown, CargoTypeOK
  <2>3. CASE Drain
    <3>1. conn' \in [Conns -> {"none", "accepted", "new", "active", "idle", "closed"}]
      BY <2>3 DEF Drain, CargoTypeOK
    <3>2. unread' = unread /\ cargoStopAt' \in {"accept", "force"}
      BY <2>3 DEF Drain
    <3> QED BY <3>1, <3>2 DEF CargoTypeOK
  <2>4. CASE ForceClose
    BY <2>4 DEF ForceClose, CargoTypeOK
  <2>5. ASSUME NEW c \in Conns, Accept(c) \/ trackConn(c) \/ ReadRequest(c) \/ Handled(c)
        PROVE  /\ conn' \in [Conns -> {"none", "accepted", "new", "active", "idle", "closed"}] /\ unread' \subseteq Conns
               /\ cargoStopAt' \in {"no", "dog", "unread", "drain", "force", "accept", "stopped"}
    BY <2>5 DEF Accept, trackConn, ReadRequest, Handled, Sets, CargoTypeOK
  <2> QED BY <2>1, <2>2, <2>3, <2>4, <2>5 DEF CargoNext, CargoStopStep
<1> QED BY <1>1, <1>2, <1>3 DEF CargoTypeOK

-----------------------------------------------------------------------------
(* CargoEntry and PkgCache: whoever is in a critical section has the lock.  *)
CrateLocks == fixed \in BOOLEAN /\ lockFor \in Crates \cup {Nobody}

LEMMA CrateLocksStep == CrateLocks /\ CrateNext => CrateLocks'
  BY DEF CrateLocks, CrateNext, CrateStep, readCacheBody, readCacheSide, LockEntry, reread, UpstreamFails,
     UpstreamGone, Unmodified, Downloaded, writeCache, writeSidecar, Answers, CrateRequest, Ages, Releases, CrateDies, crateReqs

LEMMA CrateTypesOK == CrateInv /\ CrateLocks => CrateTypeOK
  BY DEF CrateInv, CrateTyped, CrateHeld, CrateLocks, CrateTypeOK, CrateWaiting, Holding

PkgLocks ==
  /\ immutable \in BOOLEAN /\ indexed \in BOOLEAN /\ evictAt \in {"idle", "body", "meta", "index"}
  /\ keyLock \in Clients \cup {NoClient}

LEMMA PkgLocksStep == PkgLocks /\ PkgNext => PkgLocks'
<1> SUFFICES ASSUME PkgLocks, PkgNext PROVE PkgLocks'
  OBVIOUS
<1> USE DEF file, requests
<1>1. ASSUME NEW c \in Clients, ClientStep(c) PROVE PkgLocks'
  <2>1. CASE \/ Open(c) \/ readMeta(c) \/ Lock(c) \/ ServeStale(c) \/ NotModified(c) \/ NotFound(c) \/ Ok(c)
             \/ Writer(c) \/ Copied(c) \/ CopyBreaks(c) \/ CommitFails(c) \/ writeMeta(c) \/ Commit(c)
    <3>1. UNCHANGED <<immutable, indexed, evictAt>>
      BY <2>1 DEF Open, readMeta, Lock, ServeStale, NotModified, NotFound, Ok, Writer, Copied, CopyBreaks,
         CommitFails, writeMeta, Commit
    <3>2. keyLock' \in {keyLock, c, NoClient}
      BY <2>1 DEF Open, readMeta, Lock, ServeStale, NotModified, NotFound, Ok, Writer, Copied, CopyBreaks,
         CommitFails, writeMeta, Commit, Reply, Answered
    <3> QED BY <3>1, <3>2 DEF PkgLocks
  <2>2. CASE admit(c)
    BY <2>2 DEF admit, PkgLocks
  <2> QED BY <1>1, <2>1, <2>2 DEF ClientStep
<1>2. CASE \/ \E c \in Clients, k \in {"document", "artifact"} : Ask(c, k)
           \/ Expire \/ Publish
  BY <1>2 DEF Ask, Expire, Publish, PkgLocks
<1>3. CASE evictLocked \/ EvictStep \/ PkgRestart
  BY <1>3 DEF evictLocked, EvictStep, EvictBody, EvictMeta, EvictIndex, PkgRestart, PkgLocks
<1> QED BY <1>1, <1>2, <1>3 DEF PkgNext

(* Whoever works on the package entry holds its lock.                       *)
LEMMA PkgTypesOK == PkgInv /\ PkgLocks => PkgTypeOK
  BY DEF PkgInv, PkgTyped, PkgHeld, PkgLocks, PkgTypeOK, PkgPoints, PkgHolding, PkgFetching

-----------------------------------------------------------------------------
(* ActionsCache: what is finalized or in the index was handed out, and an   *)
(* upload that is being finalized is no longer among the open ones.         *)
LEMMA ActionsTypesOK == ActionsInv => ActionsTypeOK
<1> SUFFICES ASSUME ActionsInv PROVE ActionsTypeOK
  OBVIOUS
<1>1. \A t \in Tokens : t \in uploads \cup finalizing \/ t = acManifest \/ t = inIndex => t \in EntryUsed
  <2>1. NoPending.runner = NoSaver
    BY DEF NoPending
  <2> QED BY <2>1 DEF ActionsInv, UntakenIsBare, HandedOut, EntryUsed
<1> QED BY <1>1 DEF ActionsInv, ActionsTyped, ActionsTypeOK

-----------------------------------------------------------------------------
(* CacheDownload: an answer never has more left than was asked for.         *)
LEMMA DownloadTypesOK == DownloadInv => DownloadTypeOK
  BY CacheDownloadAssumption DEF DownloadInv, Archive, DownloadTypeOK

-----------------------------------------------------------------------------
(* CacheImages.                                                             *)
LEMMA MirrorTypesStep == CacheTypeOK /\ CacheNext => CacheTypeOK'
<1> SUFFICES ASSUME CacheTypeOK, CacheNext PROVE CacheTypeOK'
  OBVIOUS
<1> USE CacheImagesAssumption DEF mirVars, nsVars, repairVars, MirTo, CacheTypeOK
<1>1. ASSUME NEW m \in Mirrors, MirrorImageToCache(m) \/ CopyFails(m) PROVE CacheTypeOK'
  BY <1>1 DEF MirrorImageToCache, CopyFails, EndsCopying
<1>2. ASSUME NEW m \in Mirrors, beginMirrorLease(m) PROVE CacheTypeOK'
  BY <1>2 DEF beginMirrorLease
<1>3. ASSUME NEW m \in Mirrors, NEW b \in Blobs, copyContentRef(m, b) PROVE CacheTypeOK'
  <2>1. mirTodo' \in [Mirrors -> SUBSET Blobs]
    BY <1>3 DEF copyContentRef
  <2>2. mirAt' \in [Mirrors -> {"new", "lease", "copy", "record", "release", "done"}]
    BY <1>3 DEF copyContentRef
  <2>3. buckets' \subseteq Blobs /\ held' \in [Mirrors -> SUBSET Blobs]
    BY <1>3 DEF copyContentRef, writeContentRef, refreshContentLabels
  <2>4. leaning' \subseteq Mirrors /\ mirUnsafe' \subseteq Mirrors
    BY <1>3 DEF copyContentRef, writeContentRef, refreshContentLabels
  <2>5. UNCHANGED <<mirLease, cached, trusted, snap, pruneAt, repairVars, cacheErrs>>
    BY <1>3 DEF copyContentRef
  <2> QED BY <2>1, <2>2, <2>3, <2>4, <2>5
<1>4. ASSUME NEW m \in Mirrors, CreateRecord(m) PROVE CacheTypeOK'
  BY <1>4 DEF CreateRecord, EndsCopying
<1>10. ASSUME NEW m \in Mirrors, ReleaseLease(m) \/ LeaseExpires(m) PROVE CacheTypeOK'
  <2>1. /\ mirAt' \in [Mirrors -> {"new", "lease", "copy", "record", "release", "done"}]
        /\ UNCHANGED <<mirTodo, leaning, nsVars, pruneAt, repairVars>> /\ cacheErrs' \in 0..MaxCacheErrs
    BY <1>10 DEF ReleaseLease, LeaseExpires
  <2>2. mirLease' \subseteq Mirrors /\ held' \in [Mirrors -> SUBSET Blobs]
    BY <1>10 DEF ReleaseLease, LeaseExpires, LetGo
  <2>3. mirUnsafe' \subseteq Mirrors
    BY <1>10 DEF ReleaseLease, LeaseExpires, Disturbs, Overlapped
  <2> QED BY <2>1, <2>2, <2>3
<1>5. CASE ContainerdGC \/ RecordEvicted \/ Unpack \/ SnapshotLost \/ InUse
  BY <1>5 DEF ContainerdGC, RecordEvicted, RecordGoes, Disturbs, Unpack, SnapshotLost, InUse
<1>6. CASE CachePrune \/ CleanupImages \/ CleanupLeases \/ CleanupContent
  BY <1>6 DEF CachePrune, CleanupImages, CleanupLeases, CleanupContent, RecordGoes, LetGo, Disturbs, Overlapped
<1>7. CASE SweepBrokenImageChains
  <2>1. UNCHANGED <<mirVars, nsVars, pruneAt, inUse>>
    BY <1>7 DEF SweepBrokenImageChains
  <2>2. repairAt' \in {"idle", "chains", "delete"} /\ repairProt' \in BOOLEAN
    BY <1>7 DEF SweepBrokenImageChains
  <2>3. cacheErrs' \in 0..MaxCacheErrs
    BY <1>7 DEF SweepBrokenImageChains
  <2> QED BY <2>1, <2>2, <2>3
<1>8. CASE PlanBrokenChains
  <2>1. UNCHANGED <<mirVars, nsVars, pruneAt, inUse>> /\ repairProt' = FALSE
    BY <1>8 DEF PlanBrokenChains
  <2>2. repairAt' \in {"idle", "chains", "delete"}
    BY <1>8 DEF PlanBrokenChains
  <2>3. cacheErrs' \in 0..MaxCacheErrs
    BY <1>8 DEF PlanBrokenChains
  <2> QED BY <2>1, <2>2, <2>3
<1>9. CASE RepairBrokenChains
  BY <1>9 DEF RepairBrokenChains, RecordGoes, Disturbs
<1> QED BY <1>1, <1>2, <1>3, <1>4, <1>5, <1>6, <1>7, <1>8, <1>9, <1>10 DEF CacheNext, MirrorStep, RepairStep

-----------------------------------------------------------------------------
(* MacImage: what a pull names is a manifest the tag has had, and an        *)
(* attempt at a layer is made only while there are retries left.            *)
Manifests == 0..MaxPushes

ImgPoints == {"idle", "failed", "ready"} \cup Pulling

PullTypes ==
  /\ imgAt \in ImgPoints
  /\ tag \in 1..MaxPushes /\ manifest \in Manifests /\ sidecars \in Manifests
  /\ partial \in Seq(Manifests) /\ base \in Seq(Manifests)
  /\ layerTries \in 0..LayerRetries /\ (imgAt = "layer" => layerTries < LayerRetries)
  /\ pullErrs \in 0..MaxPullErrs /\ pullKills \in 0..MaxPullKills

PullFlags == tail \in BOOLEAN /\ daemons \in BOOLEAN /\ marker \in BOOLEAN

LEMMA PullTypesStep == PullTypes /\ MacImageNext => PullTypes'
<1> SUFFICES ASSUME PullTypes, MacImageNext PROVE PullTypes'
  OBVIOUS
<1> USE MacImageAssumption DEF PullTypes, ImgTo, ImgSame, Errs, imgPull, ImgPoints, Pulling
<1>0. <<>> \in Seq(Manifests)
  OBVIOUS
<1>a. \A n \in 1..MaxPushes : n \in Manifests
  BY DEF Manifests
<1>b. 0 \in Manifests
  BY DEF Manifests
<1>1. CASE EnsureMacOSVMDisk \/ injectLaunchDaemons \/ ImageReady
  BY <1>1 DEF EnsureMacOSVMDisk, injectLaunchDaemons, ImageReady, macImageVars
<1>2. CASE fetchManifest \/ writeSidecars
  BY <1>2, <1>a, <1>b DEF fetchManifest, writeSidecars
<1>3. CASE openPartial
  <2>1. partial' \in {partial, <<>>} /\ base' \in {base, partial} /\ layerTries' = 0
    BY <1>3 DEF openPartial
  <2>2. partial' \in Seq(Manifests) /\ base' \in Seq(Manifests)
    BY <1>0, <2>1
  <2>3. UNCHANGED <<tag, manifest, sidecars, pullErrs, pullKills>> /\ imgAt' \in {"layer", "inject"}
    BY <1>3 DEF openPartial
  <2> QED BY <2>1, <2>2, <2>3
<1>4. CASE pullAndDecompressDiskLayer
  <2>1. partial' \in Seq(Manifests)
    <3>1. Append(partial, manifest) \in Seq(Manifests)
      BY AppendedSet
    <3> QED BY <1>4, <3>1 DEF pullAndDecompressDiskLayer
  <2>2. /\ layerTries' \in 0..LayerRetries /\ (imgAt' = "layer" => layerTries' < LayerRetries)
        /\ pullErrs' \in 0..MaxPullErrs
    <3>1. CASE layerTries' = 0 /\ UNCHANGED pullErrs
      BY <3>1
    <3>2. CASE /\ layerTries' = layerTries + 1 /\ Errs /\ imgAt = "layer"
               /\ (layerTries' # LayerRetries) \/ imgAt' = "failed"
      BY <3>2
    <3>3. \/ layerTries' = 0 /\ UNCHANGED pullErrs
          \/ /\ layerTries' = layerTries + 1 /\ Errs /\ imgAt = "layer"
             /\ (layerTries' # LayerRetries) \/ imgAt' = "failed"
      BY <1>4 DEF pullAndDecompressDiskLayer
    <3> QED BY <3>1, <3>2, <3>3
  <2> QED BY <1>4, <2>1, <2>2 DEF pullAndDecompressDiskLayer
<1>5. CASE renamePartial
  BY <1>5, <1>0 DEF renamePartial
<1>6. CASE RestartDaemon
  <2>1. pullKills' \in 0..MaxPullKills
    <3>1. pullKills' = pullKills \/ (pullKills < MaxPullKills /\ pullKills' = pullKills + 1)
      BY <1>6, Zenon DEF RestartDaemon
    <3> QED BY <3>1
  <2>2. imgAt' = "idle" /\ UNCHANGED <<tag, manifest, sidecars, partial, layerTries, base, pullErrs>>
    BY <1>6 DEF RestartDaemon
  <2> QED BY <2>1, <2>2
<1>7. CASE PushTag
  BY <1>7 DEF PushTag
<1> QED BY <1>1, <1>2, <1>3, <1>4, <1>5, <1>6, <1>7 DEF MacImageNext, MacImageStep

LEMMA PullFlagsStep == PullFlags /\ MacImageNext => PullFlags'
<1> SUFFICES ASSUME PullFlags, MacImageNext PROVE PullFlags'
  OBVIOUS
<1> USE DEF PullFlags, ImgSame, imgPull
<1>1. tail' \in {tail, TRUE, FALSE}
  BY DEF MacImageNext, MacImageStep, EnsureMacOSVMDisk, fetchManifest, writeSidecars, openPartial,
     pullAndDecompressDiskLayer, renamePartial, injectLaunchDaemons, RestartDaemon, PushTag, ImageReady, macImageVars
<1>2. daemons' \in {daemons, TRUE} /\ marker' \in {marker, TRUE}
  BY DEF MacImageNext, MacImageStep, EnsureMacOSVMDisk, fetchManifest, writeSidecars, openPartial,
     pullAndDecompressDiskLayer, renamePartial, injectLaunchDaemons, RestartDaemon, PushTag, ImageReady, macImageVars
<1> QED BY <1>1, <1>2

(* No img has more layers than its manifest, and base.img has all of them.  *)
LEMMA PullTypesOK == ImageInv /\ PullTypes /\ PullFlags => MacImageTypeOK
<1> SUFFICES ASSUME ImageInv, PullTypes, PullFlags PROVE MacImageTypeOK
  OBVIOUS
<1>1. Len(base) \in {0, Layers} /\ Len(partial) <= Layers
  BY DEF ImageInv, PartialGrows, BaseStays
<1> QED BY <1>1 DEF PullTypes, PullFlags, ImgPoints, Manifests, MacImageTypeOK

LEMMA PullTypesStart == MacImageInit => PullTypes /\ PullFlags
<1> SUFFICES ASSUME MacImageInit PROVE PullTypes /\ PullFlags
  OBVIOUS
<1>1. <<>> \in Seq(Manifests)
  OBVIOUS
<1>2. 0 \in Manifests /\ 1 \in 1..MaxPushes /\ 0 \in 0..LayerRetries /\ 0 \in 0..MaxPullErrs /\ 0 \in 0..MaxPullKills
  BY MacImageAssumption DEF Manifests
<1>3. PullTypes
  BY <1>1, <1>2 DEF MacImageInit, PullTypes, ImgPoints
<1> QED BY <1>3 DEF MacImageInit, PullFlags

-----------------------------------------------------------------------------
(* PkgIndex: a key is in the order of use once, and every size is one of a  *)
(* body.                                                                    *)
Sizes == 0..MaxSize

IndexSizes == idxSize \in [IndexKeys -> Sizes] /\ indexDisk \in [IndexKeys -> Sizes] /\ installing \in [IndexKeys -> Sizes]

OrderExact == IsInjective(idxUsed) /\ \A k \in ToSet(idxUsed) : idxSize[k] # 0

IndexTypes == IndexSizes /\ OrderExact

(* A key that is used again moves to the end of the order.                  *)
LEMMA RenewedOnce ==
  ASSUME idxUsed \in Seq(IndexKeys), IsInjective(idxUsed), NEW k \in IndexKeys
  PROVE  IsInjective(Renewed(k))
<1> DEFINE t == Dropped(idxUsed, {k})
<1>1. t \in Seq(IndexKeys) /\ ToSet(t) = ToSet(idxUsed) \ {k} /\ IsInjective(t)
  BY DroppedKeeps
<1>2. Renewed(k) = Append(t, k)
  BY DEF Renewed
<1> HIDE DEF t
<1> QED BY <1>1, <1>2, AppendedOnce

(* What the budget leaves is in the order once, with its size.              *)
LEMMA EnforcedTypes ==
  ASSUME NEW size \in [IndexKeys -> Sizes], NEW tally, NEW used \in Seq(IndexKeys), IsInjective(used),
         \A k \in ToSet(used) : k \in IndexKeys /\ size[k] # 0,
         NEW disk \in [IndexKeys -> Sizes], enforceBudget(size, tally, used, disk)
  PROVE  idxSize' \in [IndexKeys -> Sizes] /\ indexDisk' \in [IndexKeys -> Sizes] /\ OrderExact'
<1>1. PICK out : /\ idxSize' = [k \in IndexKeys |-> IF k \in out THEN 0 ELSE size[k]]
                 /\ idxUsed' = Dropped(used, out)
                 /\ indexDisk' = [k \in IndexKeys |-> IF k \in out THEN 0 ELSE disk[k]]
  BY DEF enforceBudget
<1>2. IsInjective(idxUsed') /\ ToSet(idxUsed') = ToSet(used) \ out
  BY <1>1, DroppedKeeps
<1>3. 0 \in Sizes
  BY PkgIndexAssumption DEF Sizes
<1>4. \A k \in ToSet(idxUsed') : idxSize'[k] # 0
  BY <1>1, <1>2
<1> QED BY <1>1, <1>2, <1>3, <1>4 DEF OrderExact

LEMMA IndexTypesStep == PkgIndexInv /\ IndexTypes /\ IndexNext => IndexTypes'
<1> SUFFICES ASSUME PkgIndexInv, IndexTypes, IndexNext PROVE IndexTypes'
  OBVIOUS
<1>0. /\ idxUsed \in Seq(IndexKeys) /\ IsInjective(idxUsed) /\ IndexSizes /\ 0 \in Sizes
      /\ \A k \in ToSet(idxUsed) : idxSize[k] # 0
  BY PkgIndexAssumption DEF PkgIndexInv, IndexTypes, OrderExact, Sizes
<1>a. \A used \in Seq(IndexKeys) : \A k \in ToSet(used) : k \in IndexKeys
  BY DEF ToSet
<1>1. ASSUME NEW k \in IndexKeys, NEW s \in 1..MaxSize, Install(k, s) PROVE IndexTypes'
  <2>1. s \in Sizes
    BY PkgIndexAssumption DEF Sizes
  <2> QED BY <1>0, <1>1, <2>1 DEF Install, IndexTypes, IndexSizes, OrderExact
<1>2. ASSUME NEW k \in IndexKeys, admitEntry(k) PROVE IndexTypes'
  <2> DEFINE size == [idxSize EXCEPT ![k] = installing[k]]
             used == Renewed(k)
  <2>1. size \in [IndexKeys -> Sizes] /\ installing' \in [IndexKeys -> Sizes] /\ indexDisk \in [IndexKeys -> Sizes]
    BY <1>0, <1>2 DEF admitEntry, IndexSizes
  <2>2. /\ used \in Seq(IndexKeys) /\ IsInjective(used)
        /\ \A j \in ToSet(used) : j \in IndexKeys /\ size[j] # 0
    <3>1. used \in Seq(IndexKeys) /\ IsInjective(used) /\ ToSet(used) = ToSet(idxUsed) \cup {k}
      BY <1>0, RenewedKeeps, RenewedOnce
    <3>2. installing[k] # 0
      BY <1>2 DEF admitEntry
    <3> HIDE DEF used
    <3> QED BY <1>0, <1>a, <3>1, <3>2 DEF IndexSizes
  <2>3. enforceBudget(size, (idxTotal - idxSize[k]) + installing[k], used, indexDisk)
    BY <1>2 DEF admitEntry
  <2> HIDE DEF size, used
  <2>4. idxSize' \in [IndexKeys -> Sizes] /\ indexDisk' \in [IndexKeys -> Sizes] /\ OrderExact'
    BY <2>1, <2>2, <2>3, EnforcedTypes
  <2> QED BY <2>1, <2>4 DEF IndexTypes, IndexSizes
<1>3. ASSUME NEW k \in IndexKeys, touchEntry(k) PROVE IndexTypes'
  <2>1. idxUsed' = Renewed(k) /\ idxSize[k] # 0 /\ UNCHANGED <<idxSize, indexDisk, installing>>
    BY <1>3 DEF touchEntry
  <2>2. IsInjective(idxUsed') /\ ToSet(idxUsed') = ToSet(idxUsed) \cup {k}
    BY <1>0, <2>1, RenewedKeeps, RenewedOnce
  <2> QED BY <1>0, <2>1, <2>2 DEF IndexTypes, IndexSizes, OrderExact
<1>4. ASSUME NEW used \in Orders, scan(used) PROVE IndexTypes'
  <2>1. used \in Seq(IndexKeys)
    <3>1. Cardinality(IndexKeys) \in Nat
      BY FS_CardinalityType, PkgIndexAssumption
    <3>2. PICK n \in 0..Cardinality(IndexKeys) : used \in [1..n -> IndexKeys]
      BY DEF Orders
    <3> QED BY <3>1, <3>2
  <2>2. /\ IsInjective(used) /\ enforceBudget(indexDisk, SumOf(indexDisk, IndexKeys), used, indexDisk)
        /\ \A k \in ToSet(used) : k \in IndexKeys /\ indexDisk[k] # 0
    BY <1>4 DEF scan
  <2>3. indexDisk \in [IndexKeys -> Sizes] /\ installing' \in [IndexKeys -> Sizes]
    BY <1>0, <1>4 DEF scan, IndexSizes
  <2>4. idxSize' \in [IndexKeys -> Sizes] /\ indexDisk' \in [IndexKeys -> Sizes] /\ OrderExact'
    BY <2>1, <2>2, <2>3, EnforcedTypes
  <2> QED BY <2>3, <2>4 DEF IndexTypes, IndexSizes
<1> QED BY <1>1, <1>2, <1>3, <1>4 DEF IndexNext

LEMMA IndexTypesOK == PkgIndexInv /\ IndexTypes => IndexTypeOK
<1> SUFFICES ASSUME PkgIndexInv, IndexTypes PROVE IndexTypeOK
  OBVIOUS
<1>1. idxTotal \in Nat
  BY SumWithin DEF PkgIndexInv, TotalExact
<1>2. ToSet(idxUsed) \subseteq IndexKeys
  BY DEF PkgIndexInv, ToSet
<1> QED BY <1>1, <1>2 DEF PkgIndexInv, IndexTypes, IndexSizes, OrderExact, Sizes, Covers, IndexTypeOK

LEMMA IndexTypesStart == IndexInit => IndexTypes
<1> SUFFICES ASSUME IndexInit PROVE IndexTypes
  OBVIOUS
<1>1. IsInjective(<<>>) /\ ToSet(<<>>) = {}
  BY DEF IsInjective, ToSet
<1> QED BY <1>1, PkgIndexAssumption DEF IndexInit, IndexTypes, IndexSizes, OrderExact, Sizes

-----------------------------------------------------------------------------
(* ImageGC: a record is in the order of use once, so that there are no more *)
(* of them than images; what a deletion frees is never negative.            *)
RecordsOnce == IsInjective(lru) /\ staleImgs \subseteq Range(lru)

GcNumbers ==
  /\ otherUsed \in 0..MaxOther /\ loose \in Nat /\ gcBefore \in Nat /\ gcRare \in 0..MaxRare

GcSets == running \subseteq Imgs /\ gcProt \subseteq Imgs /\ gcHeld \subseteq Imgs

GcFlags == armed \in BOOLEAN /\ gcForce \in BOOLEAN /\ gcTook \in BOOLEAN /\ gcCleared \in BOOLEAN

GcTypes == RecordsOnce /\ GcNumbers /\ GcSets /\ GcFlags

(* What a deletion takes away is part of what there was.                    *)
LEMMA BytesAre ==
  ASSUME NEW s \in SUBSET Imgs
  PROVE  Bytes(s) \in Nat /\ \A i : Bytes(s) - Bytes(s \ {i}) \in Nat
<1>1. IsFiniteSet(s) /\ Cardinality(s) \in Nat
  BY FS_Subset, FS_CardinalityType, ImageGCAssumption
<1>2. ASSUME NEW i PROVE Bytes(s) - Bytes(s \ {i}) \in Nat
  <2>1. Cardinality(s \ {i}) = IF i \in s THEN Cardinality(s) - 1 ELSE Cardinality(s)
    BY <1>1, FS_RemoveElement
  <2>2. s \cap Layered = {} => (s \ {i}) \cap Layered = {}
    OBVIOUS
  <2> DEFINE m == Cardinality(s)  n == Cardinality(s \ {i})
             a == IF s \cap Layered = {} THEN 0 ELSE 1  b == IF (s \ {i}) \cap Layered = {} THEN 0 ELSE 1
  <2>3. m \in Nat /\ (n = m - 1 \/ n = m) /\ a \in {0, 1} /\ b \in {0, 1} /\ b <= a
    BY <1>1, <2>1, <2>2
  <2>4. Bytes(s) = m + a /\ Bytes(s \ {i}) = n + b
    BY DEF Bytes
  <2> HIDE DEF m, n, a, b
  <2> QED BY <2>3, <2>4
<1>3. Bytes(s) \in Nat
  <2> DEFINE m == Cardinality(s)
  <2>1. m \in Nat /\ Bytes(s) = m + (IF s \cap Layered = {} THEN 0 ELSE 1)
    BY <1>1 DEF Bytes
  <2> HIDE DEF m
  <2> QED BY <2>1
<1> QED BY <1>2, <1>3

(* An image that is used again moves to the end of the order.               *)
LEMMA TouchedOnce ==
  ASSUME NEW s \in Seq(Imgs), IsInjective(s), NEW i \in Imgs
  PROVE  IsInjective(Append(LeftOf(s, {i}), i)) /\ Range(s) \subseteq Range(Append(LeftOf(s, {i}), i))
<1> DEFINE t == LeftOf(s, {i})
<1>1. t = Dropped(s, {i})
  BY DEF LeftOf, Dropped
<1>2. t \in Seq(Imgs) /\ ToSet(t) = ToSet(s) \ {i} /\ IsInjective(t)
  <2> HIDE DEF t
  <2>1. /\ Dropped(s, {i}) \in Seq(Imgs) /\ ToSet(Dropped(s, {i})) = ToSet(s) \ {i}
        /\ IsInjective(Dropped(s, {i}))
    BY DroppedKeeps
  <2> QED BY <1>1, <2>1
<1>3. Range(s) \subseteq Range(Append(t, i))
  BY TouchedIs
<1> HIDE DEF t
<1>4. IsInjective(Append(t, i))
  BY <1>2, AppendedOnce
<1> QED BY <1>3, <1>4 DEF t

(* The deletion of a record.                                                *)
LEMMA DeletedOnce ==
  ASSUME GcInv, GcTypes, NEW i, NEW b \in BOOLEAN, Delete(i, b)
  PROVE  RecordsOnce' /\ loose' \in Nat
<1>1. lru' = Dropped(lru, {i}) /\ staleImgs' = staleImgs \ {i}
  BY DEF Delete, LeftOf, Dropped
<1>2. lru \in Seq(Imgs) /\ IsInjective(lru) /\ Range(lru) \subseteq Imgs
  BY DEF GcInv, GcTyped, GcTypes, RecordsOnce, Range
<1>3. IsInjective(lru') /\ ToSet(lru') = ToSet(lru) \ {i}
  BY <1>1, <1>2, DroppedKeeps
<1>4. staleImgs' \subseteq Range(lru')
  BY <1>1, <1>3 DEF GcTypes, RecordsOnce, Range, ToSet
<1>5. Bytes(Range(lru)) - Bytes(Range(lru) \ {i}) \in Nat
  BY <1>2, BytesAre
<1>6. loose' = IF b THEN loose ELSE loose + (Bytes(Range(lru)) - Bytes(Range(lru) \ {i}))
  BY DEF Delete
<1> QED BY <1>3, <1>4, <1>5, <1>6 DEF RecordsOnce, GcTypes, GcNumbers

LEMMA UsedIs == GcInv /\ GcTypes => Used \in Nat
<1> SUFFICES ASSUME GcInv, GcTypes PROVE Used \in Nat
  OBVIOUS
<1>1. Bytes(Range(lru)) \in Nat
  BY BytesAre DEF GcInv, GcTyped, Range
<1> QED BY <1>1, ImageGCAssumption DEF Used, GcTypes, GcNumbers

LEMMA RecordsOnceStep == GcInv /\ GcTypes /\ ImageGCNext => RecordsOnce'
<1> SUFFICES ASSUME GcInv, GcTypes, ImageGCNext PROVE RecordsOnce'
  OBVIOUS
<1>0. lru \in Seq(Imgs) /\ RecordsOnce
  BY DEF GcInv, GcTyped, GcTypes
<1>1. ASSUME NEW i \in Imgs, Touch(i) PROVE RecordsOnce'
  BY <1>0, <1>1, TouchedOnce DEF Touch, RecordsOnce
<1>2. ASSUME UNCHANGED <<lru, staleImgs>> PROVE RecordsOnce'
  BY <1>0, <1>2 DEF RecordsOnce
<1>3. CASE TurnsStale
  <2>1. PICK n \in 1..Len(lru) : staleImgs' = staleImgs \cup Range(SubSeq(lru, 1, n))
    BY <1>3 DEF TurnsStale
  <2>2. Range(SubSeq(lru, 1, n)) \subseteq Range(lru)
    BY <1>0, PartRange
  <2>3. lru' = lru
    BY <1>3 DEF TurnsStale
  <2> QED BY <1>0, <2>1, <2>2, <2>3 DEF RecordsOnce
<1>4. CASE EvictAged \/ Evict
  <2>1. \E b \in BOOLEAN : Delete(Head(gcPlan), b)
    BY <1>4 DEF EvictAged, Evict
  <2> QED BY <2>1, DeletedOnce
<1>5. CASE \/ \E i \in Imgs : RunContainer(i) \/ EndContainer(i)
           \/ Grow \/ Scheduled \/ BackoffOver \/ \E force \in BOOLEAN : collect(force)
  BY <1>2, <1>5 DEF RunContainer, EndContainer, Grow, Scheduled, BackoffOver, collect, gcEnv
<1>6. CASE RunningContainers \/ ListCandidates \/ AgeDone \/ Finish \/ GcListFails \/ EvictFails
  BY <1>2, <1>6 DEF RunningContainers, ListCandidates, AgeDone, Finish, GcListFails, EvictFails, gcEnv
<1> QED BY <1>1, <1>3, <1>4, <1>5, <1>6 DEF ImageGCNext, EnsureHeadroom, GcStep

LEMMA GcNumbersStep == GcInv /\ GcTypes /\ ImageGCNext => GcNumbers'
<1> SUFFICES ASSUME GcInv, GcTypes, ImageGCNext PROVE GcNumbers'
  OBVIOUS
<1>0. GcNumbers /\ Used \in Nat
  BY UsedIs DEF GcTypes
<1> USE ImageGCAssumption DEF GcNumbers, gcEnv, gcWork
<1>7. ASSUME NEW f \in BOOLEAN, Rarely(f) PROVE gcRare' \in 0..MaxRare
  BY <1>0, <1>7 DEF Rarely
<1>1. CASE \E i \in Imgs : Touch(i) \/ RunContainer(i) \/ EndContainer(i)
  BY <1>0, <1>1 DEF Touch, RunContainer, EndContainer
<1>2. CASE Grow \/ Scheduled \/ TurnsStale \/ BackoffOver
  BY <1>0, <1>2 DEF Grow, Scheduled, TurnsStale, BackoffOver
<1>3. ASSUME NEW force \in BOOLEAN, collect(force) PROVE GcNumbers'
  <2>1. gcBefore' \in Nat /\ UNCHANGED <<otherUsed, loose>>
    BY <1>0, <1>3 DEF collect
  <2>2. gcRare' \in 0..MaxRare
    BY <1>0, <1>3 DEF collect
  <2> QED BY <1>0, <2>1, <2>2
<1>4. CASE EvictAged \/ Evict
  <2>1. \E b \in BOOLEAN : Delete(Head(gcPlan), b)
    BY <1>4 DEF EvictAged, Evict
  <2>2. loose' \in Nat
    BY <2>1, DeletedOnce
  <2>3. UNCHANGED <<otherUsed, gcBefore>> /\ (gcRare' = gcRare \/ \E f \in BOOLEAN : Rarely(f))
    BY <1>4 DEF EvictAged, Evict
  <2> QED BY <1>0, <1>7, <2>2, <2>3
<1>5. CASE RunningContainers \/ ListCandidates \/ AgeDone \/ Finish
  <2>1. UNCHANGED <<otherUsed, loose>> /\ gcBefore' \in {gcBefore, 0}
    BY <1>5 DEF RunningContainers, ListCandidates, AgeDone, Finish, GcReturn
  <2>2. gcRare' = gcRare \/ \E f \in BOOLEAN : Rarely(f)
    BY <1>5 DEF RunningContainers, ListCandidates, AgeDone, Finish
  <2> QED BY <1>0, <1>7, <2>1, <2>2
<1>6. CASE GcListFails \/ EvictFails
  <2>1. UNCHANGED <<otherUsed, loose>> /\ gcBefore' \in {gcBefore, 0} /\ gcRare < MaxRare /\ gcRare' = gcRare + 1
    BY <1>6 DEF GcListFails, EvictFails, GcReturn
  <2> QED BY <1>0, <2>1
<1> QED BY <1>1, <1>2, <1>3, <1>4, <1>5, <1>6 DEF ImageGCNext, EnsureHeadroom, GcStep

LEMMA GcSetsStep == GcInv /\ GcTypes /\ ImageGCNext => GcSets'
<1> SUFFICES ASSUME GcInv, GcTypes, ImageGCNext PROVE GcSets'
  OBVIOUS
<1>0. GcSets
  BY DEF GcTypes
<1> USE ImageGCAssumption DEF GcSets, gcEnv, gcWork
<1>1. ASSUME NEW i \in Imgs, Touch(i) \/ RunContainer(i) \/ EndContainer(i) PROVE GcSets'
  BY <1>0, <1>1 DEF Touch, RunContainer, EndContainer
<1>2. CASE Grow \/ Scheduled \/ TurnsStale \/ BackoffOver \/ \E force \in BOOLEAN : collect(force)
  BY <1>0, <1>2 DEF Grow, Scheduled, TurnsStale, BackoffOver, collect
<1>3. CASE RunningContainers
  BY <1>0, <1>3 DEF RunningContainers, ProtectedSet
<1>4. CASE ListCandidates \/ EvictAged \/ Evict \/ EvictFails
  BY <1>0, <1>4 DEF ListCandidates, EvictAged, Evict, EvictFails
<1>5. CASE AgeDone \/ Finish \/ GcListFails
  BY <1>0, <1>5 DEF AgeDone, Finish, GcListFails, GcReturn
<1> QED BY <1>1, <1>2, <1>3, <1>4, <1>5 DEF ImageGCNext, EnsureHeadroom, GcStep

LEMMA GcFlagsStep == GcTypes /\ ImageGCNext => GcFlags'
<1> SUFFICES ASSUME GcTypes, ImageGCNext PROVE GcFlags'
  OBVIOUS
<1>0. GcFlags
  BY DEF GcTypes
<1> USE DEF GcFlags, gcEnv, gcWork
<1>1. ASSUME NEW i \in Imgs, Touch(i) \/ RunContainer(i) \/ EndContainer(i) PROVE GcFlags'
  BY <1>0, <1>1 DEF Touch, RunContainer, EndContainer
<1>2. CASE Grow \/ Scheduled \/ TurnsStale \/ BackoffOver \/ \E force \in BOOLEAN : collect(force)
  BY <1>0, <1>2 DEF Grow, Scheduled, TurnsStale, BackoffOver, collect
<1>3. CASE RunningContainers \/ ListCandidates \/ EvictAged \/ Evict \/ EvictFails
  <2>1. UNCHANGED <<armed, gcForce>> /\ gcTook' \in {gcTook, TRUE}
    BY <1>3 DEF RunningContainers, ListCandidates, EvictAged, Evict, EvictFails
  <2>2. gcCleared' \in BOOLEAN
    BY <1>0, <1>3 DEF RunningContainers, ListCandidates, EvictAged, Evict, EvictFails
  <2> QED BY <1>0, <2>1, <2>2
<1>4. CASE AgeDone \/ GcListFails
  BY <1>0, <1>4 DEF AgeDone, GcListFails, GcReturn
<1>5. CASE Finish
  <2>1. armed' \in BOOLEAN
    BY <1>0, <1>5 DEF Finish
  <2>2. gcForce' \in BOOLEAN /\ gcTook' \in BOOLEAN /\ gcCleared' \in BOOLEAN
    BY <1>5 DEF Finish, GcReturn
  <2> QED BY <2>1, <2>2
<1> QED BY <1>1, <1>2, <1>3, <1>4, <1>5 DEF ImageGCNext, EnsureHeadroom, GcStep

LEMMA GcTypesStep == GcInv /\ GcTypes /\ ImageGCNext => GcTypes'
  BY RecordsOnceStep, GcNumbersStep, GcSetsStep, GcFlagsStep DEF GcTypes

(* An order of use is no longer than there are images.                      *)
LEMMA OnceBounds ==
  ASSUME NEW s \in Seq(Imgs), IsInjective(s)
  PROVE  s \in SeqOf(Imgs, Cardinality(Imgs))
<1> DEFINE n == Len(s)
<1>1. n \in Nat /\ s \in [1..n -> Imgs]
  OBVIOUS
<1>2. s \in Injection(1..n, Imgs)
  BY <1>1 DEF Injection
<1>3. Cardinality(1..n) <= Cardinality(Imgs) /\ Cardinality(1..n) = n /\ Cardinality(Imgs) \in Nat
  <2>1. Cardinality(1..n) <= Cardinality(Imgs)
    BY <1>2, FS_Injection, ImageGCAssumption
  <2>2. Cardinality(1..n) = n
    BY <1>1, FS_Interval
  <2> QED BY <2>1, <2>2, FS_CardinalityType, ImageGCAssumption
<1> HIDE DEF n
<1>4. n \in 0..Cardinality(Imgs)
  BY <1>1, <1>3
<1> QED BY <1>1, <1>4 DEF SeqOf

(* The records, plans and counts of the collector are of their type.        *)
LEMMA GcTypesOK == GcInv /\ GcTypes => GcTypeOK
<1> SUFFICES ASSUME GcInv, GcTypes PROVE GcTypeOK
  OBVIOUS
<1>1. lru \in SeqOf(Imgs, Cardinality(Imgs))
  BY OnceBounds DEF GcInv, GcTyped, GcTypes, RecordsOnce
<1>2. GcNumbers /\ GcSets /\ GcFlags /\ RecordsOnce /\ GcTyped
  BY DEF GcInv, GcTypes
<1> QED BY <1>1, <1>2 DEF GcTypeOK, GcNumbers, GcSets, GcFlags, RecordsOnce, GcTyped

LEMMA GcTypesStart == ImageGCInit => GcTypes
<1> SUFFICES ASSUME ImageGCInit PROVE GcTypes
  OBVIOUS
<1>1. IsInjective(<<>>)
  BY DEF IsInjective
<1>2. RecordsOnce
  BY <1>1 DEF ImageGCInit, RecordsOnce
<1>3. GcNumbers
  BY ImageGCAssumption DEF ImageGCInit, GcNumbers
<1>4. GcSets
  BY DEF ImageGCInit, GcSets
<1>5. GcFlags
  BY DEF ImageGCInit, GcFlags
<1> QED BY <1>2, <1>3, <1>4, <1>5 DEF GcTypes

-----------------------------------------------------------------------------
(* Every store's state is of its type while the store is in focus.          *)
StoreTypes ==
  /\ focus = "macimage" => PullTypes /\ PullFlags
  /\ focus = "pkgcache" => PkgLocks
  /\ focus = "pkgindex" => IndexTypes
  /\ focus = "cargo" => CargoTypeOK
  /\ focus = "crates" => CrateLocks
  /\ focus = "imagegc" => GcTypes
  /\ focus = "images" => CacheTypeOK

StoresTyped ==
  /\ (ModInv /\ ActionsInv /\ DownloadInv /\ CrateInv)
  /\ (IndexedInv /\ PkgIndexInv /\ CargoInv)
  /\ (GcInv /\ MirrorInv /\ ImageInv)
  /\ StoreTypes

StoresTypeOK ==
  /\ focus = "macimage" => MacImageTypeOK
  /\ focus = "pkgcache" => PkgTypeOK
  /\ focus = "pkgindex" => IndexTypeOK
  /\ focus = "modules" => ModuleTypeOK
  /\ focus = "cargo" => CargoTypeOK
  /\ focus = "crates" => CrateTypeOK
  /\ focus = "actions" => ActionsTypeOK
  /\ focus = "download" => DownloadTypeOK
  /\ focus = "imagegc" => GcTypeOK
  /\ focus = "images" => CacheTypeOK

(* A store starts with nothing in it.                                       *)
LEMMA StoreTypesStart == HostStart => StoreTypes
<1> SUFFICES ASSUME HostStart PROVE StoreTypes
  OBVIOUS
<1> USE DEF HostStart, HostInit
<1>1. PkgLocks
  BY DEF PkgInit, PkgLocks
<1>2. CargoTypeOK
  BY CargoProxyAssumption DEF CargoInit, CargoTypeOK
<1>3. CrateLocks
  BY DEF CrateInit, CrateLocks
<1>4. CacheTypeOK
  <2>1. mirTodo \in [Mirrors -> SUBSET Blobs] /\ mirAt \in [Mirrors -> {"new"}]
    BY DEF CacheInit
  <2>2. /\ mirLease \subseteq Mirrors /\ mirUnsafe \subseteq Mirrors /\ buckets \subseteq Blobs
        /\ held \in [Mirrors -> SUBSET Blobs] /\ leaning \subseteq Mirrors
        /\ mirAt \in [Mirrors -> {"new", "lease", "copy", "record", "release", "done"}]
    BY <2>1 DEF CacheInit
  <2>3. cached \in BOOLEAN /\ trusted \in BOOLEAN /\ inUse \in BOOLEAN /\ repairProt \in BOOLEAN
    BY DEF CacheInit
  <2>4. cacheErrs \in 0..MaxCacheErrs
    BY CacheImagesAssumption DEF CacheInit
  <2>5. /\ snap \in {"none", "there", "gone"} /\ pruneAt \in {"idle", "emptied", "images", "leases", "content"}
        /\ repairAt \in {"idle", "chains", "delete"}
    BY DEF CacheInit
  <2> QED BY <2>1, <2>2, <2>3, <2>4, <2>5 DEF CacheTypeOK
<1> QED BY <1>1, <1>2, <1>3, <1>4, PullTypesStart, IndexTypesStart, GcTypesStart DEF StoreTypes

(* A step of the daemon is one of the store in focus, or leaves it alone.   *)
LEMMA StoreTypesStep == StoresTyped /\ [HostNext]_<<focus, hostVars>> => StoreTypes'
<1> SUFFICES ASSUME StoresTyped, [HostNext]_<<focus, hostVars>> PROVE StoreTypes'
  OBVIOUS
<1>0. focus' = focus
  BY DEF HostNext
<1>1. ASSUME focus = "macimage" PROVE PullTypes' /\ PullFlags'
  <2>1. MacImageNext \/ UNCHANGED macImageVars
    BY <1>1 DEF HostNext, HostMoves, hostVars
  <2>2. PullTypes /\ PullFlags
    BY <1>1 DEF StoresTyped, StoreTypes
  <2>3. ASSUME UNCHANGED macImageVars PROVE PullTypes' /\ PullFlags'
    BY <2>2, <2>3 DEF macImageVars, imgPull, PullTypes, PullFlags
  <2> QED BY <2>1, <2>2, <2>3, PullTypesStep, PullFlagsStep
<1>2. ASSUME focus = "pkgcache" PROVE PkgLocks'
  <2>1. PkgNext \/ UNCHANGED pkgVars
    BY <1>2 DEF HostNext, HostMoves, hostVars
  <2>2. PkgLocks
    BY <1>2 DEF StoresTyped, StoreTypes
  <2>3. ASSUME UNCHANGED pkgVars PROVE PkgLocks'
    BY <2>2, <2>3 DEF pkgVars, file, PkgLocks
  <2> QED BY <2>1, <2>2, <2>3, PkgLocksStep
<1>3. ASSUME focus = "pkgindex" PROVE IndexTypes'
  <2>1. IndexNext \/ UNCHANGED idxVars
    BY <1>3 DEF HostNext, HostMoves, hostVars
  <2>2. PkgIndexInv /\ IndexTypes
    BY <1>3 DEF StoresTyped, StoreTypes
  <2>3. ASSUME UNCHANGED idxVars PROVE IndexTypes'
    BY <2>2, <2>3 DEF idxVars, IndexTypes, IndexSizes, OrderExact
  <2> QED BY <2>1, <2>2, <2>3, IndexTypesStep
<1>4. ASSUME focus = "cargo" PROVE CargoTypeOK'
  <2>1. CargoNext \/ UNCHANGED cargoVars
    BY <1>4 DEF HostNext, HostMoves, hostVars
  <2>2. CargoTypeOK
    BY <1>4 DEF StoresTyped, StoreTypes
  <2>3. ASSUME UNCHANGED cargoVars PROVE CargoTypeOK'
    BY <2>2, <2>3 DEF cargoVars, cfgVars, dogVars, srvVars, CargoTypeOK
  <2> QED BY <2>1, <2>2, <2>3, CargoTypesStep
<1>5. ASSUME focus = "crates" PROVE CrateLocks'
  <2>1. CrateNext \/ UNCHANGED crateVars
    BY <1>5 DEF HostNext, HostMoves, hostVars
  <2>2. CrateLocks
    BY <1>5 DEF StoresTyped, StoreTypes
  <2>3. ASSUME UNCHANGED crateVars PROVE CrateLocks'
    BY <2>2, <2>3 DEF crateVars, CrateLocks
  <2> QED BY <2>1, <2>2, <2>3, CrateLocksStep
<1>6. ASSUME focus = "imagegc" PROVE GcTypes'
  <2>1. ImageGCNext \/ UNCHANGED gcVars
    BY <1>6 DEF HostNext, HostMoves, hostVars
  <2>2. GcInv /\ GcTypes
    BY <1>6 DEF StoresTyped, StoreTypes
  <2>3. ASSUME UNCHANGED gcVars PROVE GcTypes'
    BY <2>2, <2>3 DEF gcVars, gcEnv, gcWork, GcTypes, RecordsOnce, GcNumbers, GcSets, GcFlags
  <2> QED BY <2>1, <2>2, <2>3, GcTypesStep
<1>7. ASSUME focus = "images" PROVE CacheTypeOK'
  <2>1. CacheNext \/ UNCHANGED cacheVars
    BY <1>7 DEF HostNext, HostMoves, hostVars
  <2>2. CacheTypeOK
    BY <1>7 DEF StoresTyped, StoreTypes
  <2>3. ASSUME UNCHANGED cacheVars PROVE CacheTypeOK'
    BY <2>2, <2>3 DEF cacheVars, mirVars, nsVars, repairVars, CacheTypeOK
  <2> QED BY <2>1, <2>2, <2>3, MirrorTypesStep
<1> QED BY <1>0, <1>1, <1>2, <1>3, <1>4, <1>5, <1>6, <1>7 DEF StoreTypes

(* What holds of the stores implies their types.                            *)
LEMMA StoresTypeCorrect == StoresTyped => StoresTypeOK
<1> SUFFICES ASSUME StoresTyped PROVE StoresTypeOK
  OBVIOUS
<1>1. ModuleTypeOK /\ ActionsTypeOK /\ DownloadTypeOK
  BY ActionsTypesOK, DownloadTypesOK DEF StoresTyped, ModInv
<1>2. (focus = "macimage" => MacImageTypeOK) /\ (focus = "imagegc" => GcTypeOK)
  BY PullTypesOK, GcTypesOK DEF StoresTyped, StoreTypes
<1>3. (focus = "pkgcache" => PkgTypeOK) /\ (focus = "pkgindex" => IndexTypeOK) /\ (focus = "crates" => CrateTypeOK)
  BY PkgTypesOK, IndexTypesOK, CrateTypesOK DEF StoresTyped, StoreTypes, IndexedInv
<1> QED BY <1>1, <1>2, <1>3 DEF StoresTyped, StoreTypes, StoresTypeOK

(* The caches and image stores are of their types, for any numbers of       *)
(* clients, keys, images and faults.                                        *)
LEMMA StoresKeepTypes == HostSpec => []StoresTypeOK
<1>1. HostStart => StoresTyped
  BY EntriesStartWhole, CachesStart, ImagesStart, StoreTypesStart DEF StoresTyped
<1>2. StoresTyped /\ [HostNext]_<<focus, hostVars>> => StoresTyped'
  <2> SUFFICES ASSUME StoresTyped, [HostNext]_<<focus, hostVars>> PROVE StoresTyped'
    OBVIOUS
  <2>1. ModInv' /\ ActionsInv' /\ DownloadInv' /\ CrateInv'
    BY EntriesKeepWhole DEF StoresTyped
  <2>2. IndexedInv' /\ PkgIndexInv' /\ CargoInv'
    BY CachesKeep DEF StoresTyped
  <2>3. GcInv' /\ MirrorInv' /\ ImageInv'
    BY ImagesMove, GcInvStep, MirrorInvStep, ImageInvStep DEF StoresTyped
  <2>4. StoreTypes'
    BY StoreTypesStep
  <2> QED BY <2>1, <2>2, <2>3, <2>4 DEF StoresTyped
<1> QED BY <1>1, <1>2, StoresTypeCorrect, PTL DEF HostSpec
=============================================================================
