------------------------------ MODULE ImageGC ------------------------------
(***************************************************************************)
(* Image garbage collection (pkg/imagegc): one pass at a time deletes      *)
(* image records, oldest access first, while jobs pull images, run         *)
(* containers and fill the disk.  Sizes are small numbers; the images of   *)
(* Layered share one base layer, which each counts in its size and which   *)
(* goes with the last of them.                                             *)
(***************************************************************************)
EXTENDS Integers, Sequences, SequencesExt, FiniteSets, FiniteSetsExt

CONSTANTS
  Imgs,        \* image names, in the order of their keys
  Pinned,      \* cfg.PinnedImages
  Built,       \* records that jobs built, which LiveJobPrefixes protects
  Layered,     \* images on the shared base layer
  Disk,        \* capacity
  High, Low,   \* HighUsedPercent and LowUsedPercent, as amounts
  MinFree,     \* MinFreeBytes, 0 when that arm is off
  TargetFree,  \* TargetFreeBytes
  AgePass,     \* cfg.MaxAge > 0
  MaxOther,    \* a bound on what jobs write outside of images
  MaxRare      \* a bound on containerd calls that fail and on the passes an operator forces

ASSUME ImageGCAssumption ==
  /\ IsFiniteSet(Imgs) /\ Pinned \subseteq Imgs /\ Built \subseteq Imgs
  /\ Disk \in Nat /\ High \in 0..Disk /\ Low \in 0..Disk
  /\ {MinFree, TargetFree, MaxOther, MaxRare} \subseteq Nat

VARIABLES
  lru,         \* the image records, least recently used first
  staleImgs,   \* records older than MaxAge
  running,     \* images that containers run
  otherUsed,   \* what jobs have written
  loose,       \* deleted asynchronously, still on disk
  armed,       \* now is before exhaustedUntil
  gcAt,        \* where collect is
  gcForce,     \* CollectAll
  gcBefore,    \* the reading the pass began with
  gcProt,      \* the protected set
  gcHeld,      \* images the pass saw running that have been running since
  gcCands,     \* the listed candidates
  gcPlan,      \* still to evict
  gcTook,      \* something was evicted
  gcCleared,   \* cleared: a reading was under both watermarks
  gcRare       \* failures and forced passes so far

gcWork == <<gcForce, gcBefore, gcProt, gcHeld, gcCands, gcPlan, gcTook, gcCleared>>
gcEnv == <<lru, staleImgs, running, otherUsed, loose>>
gcVars == <<gcEnv, armed, gcAt, gcWork, gcRare>>

GcPoints == {"idle", "running", "list", "age", "evict"}

GcTypeOK ==
  /\ lru \in SeqOf(Imgs, Cardinality(Imgs)) /\ IsInjective(lru)
  /\ staleImgs \subseteq Range(lru) /\ running \subseteq Imgs
  /\ otherUsed \in 0..MaxOther /\ loose \in Nat /\ armed \in BOOLEAN
  /\ gcAt \in GcPoints /\ gcForce \in BOOLEAN /\ gcBefore \in Nat
  /\ gcProt \subseteq Imgs /\ gcHeld \subseteq Imgs
  /\ gcCands \in Seq(Imgs) /\ gcPlan \in Seq(Imgs) /\ gcTook \in BOOLEAN
  /\ gcCleared \in BOOLEAN /\ gcRare \in 0..MaxRare

(* The records that are left of some, in their order.                       *)
LeftOf(recs, out) == FoldLeft(LAMBDA left, i : IF i \in out THEN left ELSE Append(left, i), <<>>, recs)

(* Candidate.SizeBytes: what an image holds, its share of the base included. *)
SizeBytes(i) == IF i \in Layered THEN 2 ELSE 1

Bytes(recs) == Cardinality(recs) + (IF recs \cap Layered = {} THEN 0 ELSE 1)

Used == otherUsed + Bytes(Range(lru)) + loose

(* Evaluate: either arm triggers; the bytes to free are those of the more demanding one. *)
OverPercent(used) == High > 0 /\ used >= High
OverFree(used) == Disk - used < MinFree
OverMark(used) == OverPercent(used) \/ OverFree(used)

BytesToFree(used) ==
  LET low == IF Low = 0 \/ Low > High THEN High ELSE Low
      target == IF TargetFree < MinFree THEN MinFree ELSE TargetFree
      needs == {1} \cup (IF OverPercent(used) THEN {used - low} ELSE {})
                   \cup (IF OverFree(used) THEN {target - (Disk - used)} ELSE {})
  IN Max(needs)

ImageGCInit ==
  /\ lru = <<>> /\ staleImgs = {} /\ running = {} /\ otherUsed = 0 /\ loose = 0
  /\ armed = FALSE /\ gcAt = "idle" /\ gcForce = FALSE /\ gcBefore = 0
  /\ gcProt = {} /\ gcHeld = {} /\ gcCands = <<>> /\ gcPlan = <<>> /\ gcTook = FALSE
  /\ gcCleared = FALSE /\ gcRare = 0

(* A pull or a use stamps the record: it becomes the most recent. *)
Touch(i) ==
  /\ lru' = Append(LeftOf(lru, {i}), i)
  /\ staleImgs' = staleImgs \ {i}
  /\ otherUsed + Bytes(Range(lru) \cup {i}) + loose <= Disk
  /\ UNCHANGED <<running, otherUsed, loose, armed, gcAt, gcWork, gcRare>>

RunContainer(i) ==
  /\ i \in Range(lru) \ running
  /\ running' = running \cup {i}
  /\ UNCHANGED <<lru, staleImgs, otherUsed, loose, armed, gcAt, gcWork, gcRare>>

EndContainer(i) ==
  /\ i \in running
  /\ running' = running \ {i}
  /\ gcHeld' = gcHeld \ {i}
  /\ UNCHANGED <<lru, staleImgs, otherUsed, loose, armed, gcAt, gcForce, gcBefore, gcProt, gcCands, gcPlan, gcTook,
                 gcCleared, gcRare>>

(* Jobs write files; containerd's own collector frees what was deleted     *)
(* asynchronously; time makes records stale and ends the backoff.          *)
Grow == otherUsed < MaxOther /\ Used < Disk /\ otherUsed' = otherUsed + 1
        /\ UNCHANGED <<lru, staleImgs, running, loose, armed, gcAt, gcWork, gcRare>>

Scheduled == loose > 0 /\ loose' = 0
             /\ UNCHANGED <<lru, staleImgs, running, otherUsed, armed, gcAt, gcWork, gcRare>>

TurnsStale == /\ \E n \in 1..Len(lru) : staleImgs' = staleImgs \cup Range(SubSeq(lru, 1, n))
              /\ UNCHANGED <<lru, running, otherUsed, loose, armed, gcAt, gcWork, gcRare>>

BackoffOver == armed /\ armed' = FALSE /\ UNCHANGED <<gcEnv, gcAt, gcWork, gcRare>>

(* collect, up to the first listing: the sweeper's and the pre-pull pass   *)
(* are refused while the backoff runs, the operator's is not.              *)
collect(force) ==
  /\ gcAt = "idle"
  /\ gcForce' = force /\ gcBefore' = Used /\ gcTook' = FALSE
  /\ gcRare' = gcRare + (IF force THEN 1 ELSE 0) /\ gcRare' <= MaxRare
  /\ force \/ (OverMark(Used) /\ ~armed) \/ (~OverMark(Used) /\ AgePass)
  /\ gcAt' = "running"
  /\ UNCHANGED <<gcEnv, armed, gcProt, gcHeld, gcCands, gcPlan, gcCleared>>

(* EnsureHeadroom before a pull collects only when the disk is over. *)
EnsureHeadroom == OverMark(Used) /\ collect(FALSE)

(* A pass returns: its locals go. *)
GcReturn ==
  /\ gcAt' = "idle" /\ gcForce' = FALSE /\ gcBefore' = 0 /\ gcProt' = {} /\ gcHeld' = {}
  /\ gcCands' = <<>> /\ gcPlan' = <<>> /\ gcTook' = FALSE /\ gcCleared' = FALSE

(* Without the list of the namespaces the pass is given up. *)
GcListFails ==
  /\ gcAt = "running" /\ gcRare < MaxRare
  /\ GcReturn /\ gcRare' = gcRare + 1
  /\ UNCHANGED <<gcEnv, armed>>

ProtectedSet(live) == Pinned \cup live \cup (IF live = {} THEN {} ELSE Built)

(* A step with a failure in it, which lets the pass go on, or without one. *)
Rarely(failed) == gcRare' = gcRare + (IF failed THEN 1 ELSE 0) /\ gcRare' <= MaxRare

(* A namespace whose containers cannot be listed is passed over, and the   *)
(* images that only its containers run are not seen.                       *)
RunningContainers ==
  /\ gcAt = "running"
  /\ \E seen \in SUBSET running :
       gcProt' = ProtectedSet(seen) /\ gcHeld' = seen /\ Rarely(seen # running)
  /\ gcAt' = "list"
  /\ UNCHANGED <<gcEnv, armed, gcForce, gcBefore, gcCands, gcPlan, gcTook, gcCleared>>

filterProtected(s) == LeftOf(s, gcProt)

PlanByAge(s) == LeftOf(filterProtected(s), Imgs \ staleImgs)

removeEvicted(cands, gone) == LeftOf(cands, Range(gone))

(* The shortest prefix of the eligible images whose sizes reach the bytes to free. *)
PlannedBytes(s) == FoldSeq(LAMBDA i, sum : SizeBytes(i) + sum, 0, s)

PlanEviction(s) ==
  LET eligible == filterProtected(s)
      enough == {n \in 1..Len(eligible) : PlannedBytes(SubSeq(eligible, 1, n)) >= BytesToFree(gcBefore)}
  IN IF enough = {} THEN eligible ELSE SubSeq(eligible, 1, Min(enough))

PlanForced(s) == filterProtected(s)

(* The records of a namespace that cannot be listed are no candidates; the *)
(* age pass takes what it planned out of the others, deleted or not.       *)
ListCandidates ==
  /\ gcAt = "list"
  /\ \E out \in SUBSET Range(lru) :
       LET listed == LeftOf(lru, out)
           aged == IF AgePass THEN PlanByAge(listed) ELSE <<>>
       IN gcPlan' = aged /\ gcCands' = removeEvicted(listed, aged) /\ Rarely(out # {})
  /\ gcAt' = "age"
  /\ UNCHANGED <<gcEnv, armed, gcForce, gcBefore, gcProt, gcHeld, gcTook, gcCleared>>

(* Deleting a record is not an error when it is gone.  An asynchronous     *)
(* deletion leaves the bytes to containerd's next collection.              *)
Delete(i, synchronous) ==
  LET freed == Bytes(Range(lru)) - Bytes(Range(lru) \ {i})
  IN /\ lru' = LeftOf(lru, {i}) /\ staleImgs' = staleImgs \ {i}
     /\ loose' = IF synchronous THEN loose ELSE loose + freed

(* stop: a reading after a deletion under pressure that is under both      *)
(* watermarks ends the pass; one that fails does not.                      *)
stop == ~OverMark(otherUsed + Bytes(Range(lru')) + loose)

EvictAged ==
  /\ gcAt = "age" /\ gcPlan # <<>>
  /\ Delete(Head(gcPlan), FALSE) /\ gcTook' = TRUE /\ gcPlan' = Tail(gcPlan)
  /\ UNCHANGED <<running, otherUsed, armed, gcAt, gcForce, gcBefore, gcProt, gcHeld, gcCands, gcCleared, gcRare>>

Evict ==
  /\ gcAt = "evict" /\ gcPlan # <<>>
  /\ Delete(Head(gcPlan), TRUE) /\ gcTook' = TRUE
  /\ \E read \in BOOLEAN :
       gcCleared' = (~gcForce /\ read /\ stop) /\ Rarely(~gcForce /\ ~read)
  /\ gcPlan' = IF gcCleared' THEN <<>> ELSE Tail(gcPlan)
  /\ UNCHANGED <<running, otherUsed, armed, gcAt, gcForce, gcBefore, gcProt, gcHeld, gcCands>>

EvictFails ==
  /\ gcAt \in {"age", "evict"} /\ gcPlan # <<>> /\ gcRare < MaxRare
  /\ gcPlan' \in {Tail(gcPlan), <<>>}                  \* the delete failed, or the context ended
  /\ gcRare' = gcRare + 1
  /\ UNCHANGED <<gcEnv, armed, gcAt, gcForce, gcBefore, gcProt, gcHeld, gcCands, gcTook, gcCleared>>

(* After the age pass a pass without pressure is over; another one plans.  *)
AgeDone ==
  /\ gcAt = "age" /\ gcPlan = <<>>
  /\ IF gcForce \/ OverMark(gcBefore)
     THEN /\ gcPlan' = IF gcForce THEN PlanForced(gcCands) ELSE PlanEviction(gcCands)
          /\ gcAt' = "evict"
          /\ UNCHANGED <<gcForce, gcBefore, gcProt, gcHeld, gcCands, gcTook, gcCleared>>
     ELSE GcReturn
  /\ UNCHANGED <<gcEnv, armed, gcRare>>

(* The end of a pass under pressure: still over the watermarks arms the    *)
(* backoff; a forced pass never arms it and lifts it when it got anything. *)
(* A last reading that fails leaves the verdict to stop's.                 *)
Finish ==
  /\ gcAt = "evict" /\ gcPlan = <<>>
  /\ \E read \in BOOLEAN :
       LET cleared == IF read THEN ~OverMark(Used) ELSE gcCleared
       IN /\ armed' = IF gcForce THEN armed /\ ~gcTook /\ ~cleared ELSE armed \/ ~cleared
          /\ Rarely(~read)
  /\ GcReturn
  /\ UNCHANGED gcEnv

GcStep == RunningContainers \/ ListCandidates \/ EvictAged \/ Evict \/ AgeDone \/ Finish

ImageGCNext ==
  \/ \E i \in Imgs : Touch(i) \/ RunContainer(i) \/ EndContainer(i)
  \/ Grow \/ Scheduled \/ TurnsStale \/ BackoffOver
  \/ \E force \in BOOLEAN : collect(force)
  \/ EnsureHeadroom
  \/ GcStep \/ GcListFails \/ EvictFails

(* A pass runs to its end and the sweeper's ticker begins another one;     *)
(* containerd collects what is loose.                                      *)
ImageGCFairness == WF_gcVars(GcStep) /\ WF_gcVars(collect(FALSE)) /\ WF_gcVars(Scheduled)

ImageGCSpec == ImageGCInit /\ [][ImageGCNext]_gcVars /\ ImageGCFairness

-----------------------------------------------------------------------------
(* No pass has an image in its plan that a container has been running      *)
(* since before the pass listed the containers, in its age part, its       *)
(* pressure part and a forced pass alike (plan.go: "the protected set is   *)
(* an absolute veto"), as far as the listing got: a namespace whose        *)
(* containers could not be listed protects nothing.                        *)
LiveKept == \A i \in Range(gcPlan) : i \notin gcHeld

(* Pressure is answered: a disk over a watermark is brought under both, or *)
(* the collector backs off, whatever it has deleted, listed or measured.   *)
PressureAnswered == (OverMark(Used) /\ ~armed) ~> (~OverMark(Used) \/ armed)
=============================================================================
