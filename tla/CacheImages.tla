---------------------------- MODULE CacheImages ----------------------------
(***************************************************************************)
(* The per-repo image cache of the Docker daemons (pkg/dind/cache.go): a   *)
(* job mirrors an image it pulled into the cache namespace, content        *)
(* references first and the record last, under a lease, while containerd   *)
(* collects what nothing references, the cache pruner drops namespaces     *)
(* without records, and the broken-chain sweep (pkg/imagegc/refs.go)       *)
(* deletes records whose snapshot is gone.                                 *)
(***************************************************************************)
EXTENDS Naturals, FiniteSets

CONSTANTS
  Mirrors,     \* mirrors in flight, all of the same image
  Blobs,       \* the image's content: manifest, config, layers
  Manifest,    \* the root, whose gc.ref labels name the others
  MaxCacheErrs \* a bound on the calls that fail

ASSUME CacheImagesAssumption == Manifest \in Blobs /\ MaxCacheErrs \in Nat

VARIABLES
  mirAt,       \* where a mirror is
  mirTodo,     \* descriptors it has still to copy
  mirLease,    \* mirrors that hold a lease
  held,        \* the content that a mirror's lease holds: what was written under it
  leaning,     \* mirrors that found content which their own lease does not reach
  mirUnsafe,   \* mirrors that something disturbed: no lease, nothing to lean on, a
               \* namespace removal under them
  buckets,     \* the cache namespace's content references
  cached,      \* the cache namespace has the image's record
  trusted,     \* it was written by a mirror that nothing disturbed
  snap,        \* the record's unpacked snapshot: "none" (never unpacked), "there", "gone"
  pruneAt,     \* CachePrune: "idle", "emptied", "images", "leases", "content"
  inUse,       \* a container runs the image
  repairAt,    \* SweepBrokenImageChains: "idle", "chains", "delete"
  repairProt,  \* what it read of inUse
  cacheErrs

mirVars == <<mirAt, mirTodo, mirLease, held, leaning, mirUnsafe>>
nsVars == <<buckets, cached, trusted, snap>>
repairVars == <<inUse, repairAt, repairProt>>
cacheVars == <<mirVars, nsVars, pruneAt, repairVars, cacheErrs>>

CacheTypeOK ==
  /\ mirAt \in [Mirrors -> {"new", "lease", "copy", "record", "release", "done"}]
  /\ mirTodo \in [Mirrors -> SUBSET Blobs]
  /\ mirLease \subseteq Mirrors /\ held \in [Mirrors -> SUBSET Blobs]
  /\ leaning \subseteq Mirrors /\ mirUnsafe \subseteq Mirrors
  /\ buckets \subseteq Blobs /\ cached \in BOOLEAN /\ trusted \in BOOLEAN
  /\ snap \in {"none", "there", "gone"}
  /\ pruneAt \in {"idle", "emptied", "images", "leases", "content"}
  /\ inUse \in BOOLEAN /\ repairAt \in {"idle", "chains", "delete"} /\ repairProt \in BOOLEAN
  /\ cacheErrs \in 0..MaxCacheErrs

CacheInit ==
  /\ mirAt = [m \in Mirrors |-> "new"] /\ mirTodo = [m \in Mirrors |-> {}]
  /\ mirLease = {} /\ held = [m \in Mirrors |-> {}] /\ leaning = {} /\ mirUnsafe = {}
  /\ buckets = {} /\ cached = FALSE /\ trusted = FALSE /\ snap = "none"
  /\ pruneAt = "idle" /\ inUse = FALSE /\ repairAt = "idle" /\ repairProt = FALSE
  /\ cacheErrs = 0

(* What containerd's collector keeps: the record and the leases lead to    *)
(* their content, and a manifest in the namespace to all that it names.    *)
Reach(roots) == roots \cup (IF Manifest \in roots \cap buckets THEN Blobs ELSE {})
KeptByGC == Reach((IF cached THEN {Manifest} ELSE {}) \cup UNION {held[m] : m \in Mirrors})

(* There is a record or a lease that reaches the manifest, for a mirror    *)
(* that found content in the namespace to lean on; when the last goes, so  *)
(* does what it leans on.                                                  *)
Rooted == cached \/ \E m \in Mirrors : Manifest \in held[m]

MirTo(m, from, to) == mirAt[m] = from /\ mirAt' = [mirAt EXCEPT ![m] = to]

LetGo(ms) ==
  /\ mirLease' = mirLease \ ms
  /\ held' = [m \in Mirrors |-> IF m \in ms THEN {} ELSE held[m]]

Disturbs(ms) == mirUnsafe' = mirUnsafe \cup ms \cup (IF Rooted' THEN {} ELSE leaning)

Overlapped == {m \in Mirrors : mirAt[m] \in {"lease", "copy", "record"}}

EndsCopying(m) == leaning' = leaning \ {m} /\ mirUnsafe' = mirUnsafe \ {m}

(* The record of the job's own namespace is read; a failure ends the mirror. *)
MirrorImageToCache(m) ==
  /\ \/ MirTo(m, "new", "lease") /\ UNCHANGED cacheErrs
     \/ MirTo(m, "new", "done") /\ cacheErrs < MaxCacheErrs /\ cacheErrs' = cacheErrs + 1
  /\ UNCHANGED <<mirTodo, mirLease, held, leaning, mirUnsafe, nsVars, pruneAt, repairVars>>

(* beginMirrorLease: without a lease the mirror goes on unprotected. *)
beginMirrorLease(m) ==
  /\ MirTo(m, "lease", "copy")
  /\ mirTodo' = [mirTodo EXCEPT ![m] = Blobs]
  /\ \/ mirLease' = mirLease \cup {m} /\ UNCHANGED <<mirUnsafe, cacheErrs>>
     \/ /\ cacheErrs < MaxCacheErrs /\ cacheErrs' = cacheErrs + 1
        /\ mirUnsafe' = mirUnsafe \cup {m} /\ UNCHANGED mirLease
  /\ UNCHANGED <<held, leaning, nsVars, pruneAt, repairVars>>

(* copyContentRef, root first: a reference that is not there is written,   *)
(* under the lease when there is one; one that is there has its labels     *)
(* refreshed, which adds it to no lease.                                   *)
writeContentRef(m, b) ==
  /\ b \notin buckets
  /\ buckets' = buckets \cup {b}
  /\ held' = [held EXCEPT ![m] = IF m \in mirLease THEN @ \cup {b} ELSE @]
  /\ UNCHANGED <<leaning, mirUnsafe>>

refreshContentLabels(m, b) ==
  /\ b \in buckets
  /\ leaning' = IF Manifest \in held[m] THEN leaning ELSE leaning \cup {m}
  /\ mirUnsafe' = IF Rooted THEN mirUnsafe ELSE mirUnsafe \cup {m}
  /\ UNCHANGED <<buckets, held>>

copyContentRef(m, b) ==
  /\ mirAt[m] = "copy" /\ b \in mirTodo[m]
  /\ Manifest \in mirTodo[m] => b = Manifest
  /\ mirTodo' = [mirTodo EXCEPT ![m] = @ \ {b}]
  /\ mirAt' = [mirAt EXCEPT ![m] = IF mirTodo[m] = {b} THEN "record" ELSE "copy"]
  /\ writeContentRef(m, b) \/ refreshContentLabels(m, b)
  /\ UNCHANGED <<mirLease, cached, trusted, snap, pruneAt, repairVars, cacheErrs>>

CopyFails(m) ==
  /\ MirTo(m, "copy", "release") /\ cacheErrs < MaxCacheErrs
  /\ cacheErrs' = cacheErrs + 1
  /\ mirTodo' = [mirTodo EXCEPT ![m] = {}]
  /\ EndsCopying(m)
  /\ UNCHANGED <<mirLease, held, nsVars, pruneAt, repairVars>>

(* The record, created or its labels and target updated. *)
CreateRecord(m) ==
  /\ MirTo(m, "record", "release")
  /\ cached' = TRUE
  /\ trusted' = (trusted \/ m \notin mirUnsafe)
  /\ snap' = IF cached THEN snap ELSE "none"
  /\ EndsCopying(m)
  /\ UNCHANGED <<mirTodo, mirLease, held, buckets, pruneAt, repairVars, cacheErrs>>

(* The lease is released, or, when that fails, left to expire: after        *)
(* mirrorLeaseTTL containerd drops any lease, a slow mirror's too.         *)
ReleaseLease(m) ==
  /\ MirTo(m, "release", "done")
  /\ UNCHANGED <<mirTodo, leaning, nsVars, pruneAt, repairVars>>
  /\ \/ LetGo({m}) /\ Disturbs({}) /\ UNCHANGED cacheErrs
     \/ /\ cacheErrs < MaxCacheErrs /\ cacheErrs' = cacheErrs + 1
        /\ UNCHANGED <<mirLease, held, mirUnsafe>>

LeaseExpires(m) ==
  /\ m \in mirLease
  /\ UNCHANGED <<mirAt, mirTodo, leaning, nsVars, pruneAt, repairVars, cacheErrs>>
  /\ LetGo({m}) /\ Disturbs({m} \cap Overlapped)

(* containerd's collector: content that neither the record nor a lease     *)
(* leads to goes.                                                          *)
ContainerdGC ==
  /\ ~(buckets \subseteq KeptByGC)
  /\ buckets' = buckets \cap KeptByGC
  /\ UNCHANGED <<mirVars, cached, trusted, snap, pruneAt, repairVars, cacheErrs>>

RecordGoes ==
  /\ cached' = FALSE /\ trusted' = FALSE /\ snap' = "none"
  /\ UNCHANGED held /\ Disturbs({})

(* The record goes: the image collector, the age part of CachePrune or an operator. *)
RecordEvicted ==
  /\ cached /\ RecordGoes
  /\ UNCHANGED <<mirAt, mirTodo, mirLease, leaning, buckets, pruneAt, repairVars, cacheErrs>>

(* CachePrune finds the namespace without a record and drops it:          *)
(* CleanupJobNamespace deletes the records of its own listing, then the   *)
(* leases, then the content.                                              *)
CachePrune ==
  /\ pruneAt = "idle" /\ ~cached /\ (buckets # {} \/ mirLease # {})
  /\ pruneAt' = "emptied"
  /\ UNCHANGED <<mirVars, nsVars, repairVars, cacheErrs>>

CleanupImages ==
  /\ pruneAt = "emptied" /\ pruneAt' = "images"
  /\ RecordGoes
  /\ UNCHANGED <<mirAt, mirTodo, mirLease, leaning, buckets, repairVars, cacheErrs>>

CleanupLeases ==
  /\ pruneAt = "images" /\ pruneAt' = "leases"
  /\ UNCHANGED <<mirAt, mirTodo, leaning, nsVars, repairVars, cacheErrs>>
  /\ LetGo(Mirrors) /\ Disturbs(Overlapped)

CleanupContent ==
  /\ pruneAt = "leases" /\ pruneAt' = "idle"
  /\ buckets' = {} /\ trusted' = FALSE
  /\ mirUnsafe' = mirUnsafe \cup Overlapped
  /\ UNCHANGED <<mirAt, mirTodo, mirLease, held, leaning, cached, snap, repairVars, cacheErrs>>

(* The next job unpacks the image; another collector may lose the snapshot. *)
Unpack == cached /\ snap' = "there" /\ UNCHANGED <<mirVars, buckets, cached, trusted, pruneAt, repairVars, cacheErrs>>
SnapshotLost == snap = "there" /\ snap' = "gone" /\ UNCHANGED <<mirVars, buckets, cached, trusted, pruneAt, repairVars, cacheErrs>>

InUse == (inUse \/ cached) /\ inUse' = ~inUse /\ UNCHANGED <<mirVars, nsVars, pruneAt, repairAt, repairProt, cacheErrs>>

(* The images that containers run are read first and are never deleted. *)
SweepBrokenImageChains ==
  /\ repairAt = "idle" /\ cached
  /\ \/ repairAt' = "chains" /\ repairProt' = inUse /\ UNCHANGED cacheErrs
     \/ cacheErrs < MaxCacheErrs /\ cacheErrs' = cacheErrs + 1 /\ UNCHANGED <<repairAt, repairProt>>
  /\ UNCHANGED <<mirVars, nsVars, pruneAt, inUse>>

(* PlanBrokenChains over ListImageChains and ExistingSnapshots: a record   *)
(* that names a snapshot which is not there is broken; one that names none *)
(* was never unpacked, and a probe that fails counts as there.             *)
Broken == cached /\ snap = "gone"

PlanBrokenChains ==
  /\ repairAt = "chains"
  /\ \/ repairAt' = (IF Broken /\ ~repairProt THEN "delete" ELSE "idle") /\ UNCHANGED cacheErrs
     \/ cacheErrs < MaxCacheErrs /\ cacheErrs' = cacheErrs + 1 /\ repairAt' = "idle"
  /\ repairProt' = FALSE
  /\ UNCHANGED <<mirVars, nsVars, pruneAt, inUse>>

RepairBrokenChains ==
  /\ repairAt = "delete" /\ repairAt' = "idle"
  /\ RecordGoes
  /\ UNCHANGED <<mirAt, mirTodo, mirLease, leaning, buckets, pruneAt, inUse, repairProt, cacheErrs>>

RepairStep == SweepBrokenImageChains \/ PlanBrokenChains \/ RepairBrokenChains

MirrorStep(m) ==
  \/ MirrorImageToCache(m) \/ beginMirrorLease(m) \/ \E b \in Blobs : copyContentRef(m, b)
  \/ CopyFails(m) \/ CreateRecord(m) \/ ReleaseLease(m)

CacheNext ==
  \/ \E m \in Mirrors : MirrorStep(m) \/ LeaseExpires(m)
  \/ ContainerdGC \/ RecordEvicted \/ Unpack \/ SnapshotLost
  \/ CachePrune \/ CleanupImages \/ CleanupLeases \/ CleanupContent
  \/ InUse \/ RepairStep

(* Mirrors and the sweeper's repair run to their end. *)
CacheFairness ==
  /\ \A m \in Mirrors : WF_cacheVars(MirrorStep(m))
  /\ WF_cacheVars(RepairStep)

CacheSpec == CacheInit /\ [][CacheNext]_cacheVars /\ CacheFairness

-----------------------------------------------------------------------------
(* A record of the cache stands for an image that is all there, although   *)
(* containerd may collect at any moment, two jobs may mirror the same      *)
(* image, and a lease holds only what was written under it.  It is claimed *)
(* of a mirror that had its lease to the end, that found references only   *)
(* while its own manifest, a record or another mirror's lease kept them,   *)
(* until it wrote the record, and that CachePrune did not overtake.        *)
MirrorWhole == cached /\ trusted => buckets = Blobs

(* A record whose snapshot is gone does not stay: it is deleted, unpacked  *)
(* again, or spared for a container that runs it.                          *)
BrokenGoes == Broken ~> (~Broken \/ inUse)
=============================================================================
