------------------------------- MODULE PkgIndex -------------------------------
(***************************************************************************)
(* The byte budget of a package cache (pkg/proxies/pkgcache, Cache): an    *)
(* index of the bodies on disk with their sizes, in the order of their     *)
(* last use, and the evictions that keep the total below the budget.  A    *)
(* commit renames the body into place first and indexes it afterwards,     *)
(* under the index mutex; an eviction may come between the two.            *)
(***************************************************************************)
EXTENDS Integers, Sequences, FiniteSets, SequencesExt, FiniteSetsExt

CONSTANTS
  IndexKeys,   \* the keys of the cache
  Budget,      \* MaxBytes
  LowWater,    \* MaxBytes * evictTarget: where an eviction stops
  MaxSize      \* a bound on the size of a body

ASSUME PkgIndexAssumption ==
  /\ Budget \in Nat \ {0} /\ LowWater \in 0..Budget /\ MaxSize \in Nat \ {0}
  /\ IsFiniteSet(IndexKeys)

VARIABLES
  idxSize,     \* entries[key].bytes, 0 when the key is not indexed
  idxTotal,    \* c.total
  idxUsed,     \* the indexed keys, least recently used first
  indexDisk,   \* the size of the body on disk, 0 for none
  installing,  \* the size of a body that is renamed and not yet indexed, 0 for none
  unmovable    \* history: bodies the last eviction could not remove

idxVars == <<idxSize, idxTotal, idxUsed, indexDisk, installing, unmovable>>

IndexTypeOK ==
  /\ idxSize \in [IndexKeys -> 0..MaxSize] /\ idxTotal \in Nat /\ indexDisk \in [IndexKeys -> 0..MaxSize]
  /\ ToSet(idxUsed) = {k \in IndexKeys : idxSize[k] # 0} /\ IsInjective(idxUsed)

IndexInit ==
  /\ idxSize = [k \in IndexKeys |-> 0] /\ idxTotal = 0 /\ idxUsed = <<>>
  /\ indexDisk = [k \in IndexKeys |-> 0] /\ installing = [k \in IndexKeys |-> 0] /\ unmovable = {}

SumOf(f, S) == FoldSet(LAMBDA k, acc : acc + f[k], 0, S)

\* The victims of one eviction: least recently used first, past the ones
\* that cannot be removed, until the total is at the low-water mark.
evicted(size, total, used, stuck) ==
  IF total <= Budget THEN {}
  ELSE {used[i] : i \in {j \in DOMAIN used :
          /\ used[j] \notin stuck
          /\ total - SumOf(size, {used[n] : n \in 1..(j - 1)} \ stuck) > LowWater}}

\* The order of use, without the keys that are dropped from it.
Dropped(used, out) == FoldLeft(LAMBDA left, k : IF k \in out THEN left ELSE Append(left, k), <<>>, used)

\* evictLocked: body, sidecar and entry go together, under the mutex.  Which
\* bodies cannot be removed is found out only when something must go.
enforceBudget(size, total, used, disk) ==
  \E stuck \in SUBSET {k \in IndexKeys : disk[k] # 0 /\ total > Budget} :
    LET out == evicted(size, total, used, stuck) IN
    /\ idxSize' = [k \in IndexKeys |-> IF k \in out THEN 0 ELSE size[k]]
    /\ idxTotal' = total - SumOf(size, out)
    /\ idxUsed' = Dropped(used, out)
    /\ indexDisk' = [k \in IndexKeys |-> IF k \in out THEN 0 ELSE disk[k]]
    /\ unmovable' = stuck

\* Commit renames the body; the key's lock keeps a second writer away.
Install(k, s) ==
  /\ installing[k] = 0 /\ installing' = [installing EXCEPT ![k] = s]
  /\ indexDisk' = [indexDisk EXCEPT ![k] = s]
  /\ UNCHANGED <<idxSize, idxTotal, idxUsed, unmovable>>

Renewed(k) == Append(Dropped(idxUsed, {k}), k)

\* admit: the entry replaces its forerunner, then the budget is enforced.
admitEntry(k) ==
  /\ installing[k] # 0 /\ installing' = [installing EXCEPT ![k] = 0]
  /\ enforceBudget([idxSize EXCEPT ![k] = installing[k]], (idxTotal - idxSize[k]) + installing[k], Renewed(k), indexDisk)

touchEntry(k) ==
  /\ idxSize[k] # 0 /\ idxUsed' = Renewed(k)
  /\ UNCHANGED <<idxSize, idxTotal, indexDisk, installing, unmovable>>

\* New: scan indexes what is on disk, and the budget is enforced.  The times
\* of use come from the files, which touch stamps only once an hour: any order.
scan(used) ==
  /\ ToSet(used) = {k \in IndexKeys : indexDisk[k] # 0} /\ IsInjective(used) /\ installing' = [k \in IndexKeys |-> 0]
  /\ enforceBudget(indexDisk, SumOf(indexDisk, IndexKeys), used, indexDisk)

Orders == UNION {[1..n -> IndexKeys] : n \in 0..Cardinality(IndexKeys)}

IndexNext ==
  \/ \E k \in IndexKeys, s \in 1..MaxSize : Install(k, s)
  \/ \E k \in IndexKeys : admitEntry(k) \/ touchEntry(k)
  \/ \E used \in Orders : scan(used)

IndexSpec == IndexInit /\ [][IndexNext]_idxVars

-----------------------------------------------------------------------------
\* The running total is the sum of the entries, over replacements, evictions
\* that cannot remove a body, and restarts; a drift would evict everything or
\* nothing.
TotalExact == idxTotal = SumOf(idxSize, IndexKeys)

\* Between operations the cache is over its budget only with bodies that the
\* last eviction could not remove.
BudgetKept == idxTotal > Budget => \A k \in IndexKeys : idxSize[k] # 0 => k \in unmovable

\* The index never counts less than the disk holds, the bodies on their way
\* into it apart: an entry whose body was evicted while it was being installed
\* is counted too high, which the next eviction settles.
NeverUnderestimates == \A k \in IndexKeys : indexDisk[k] <= idxSize[k] \/ installing[k] # 0
=============================================================================
