--------------------------- MODULE RetryQueueProofs ---------------------------
(***************************************************************************)
(* The retry queue keeps its age budget, for any set of jobs and any       *)
(* ladder.  AgeKept is not inductive: it needs that the age kept in an     *)
(* item is never less than the time the job has really been retried for,   *)
(* which is what fireDue's leaving the item in the index is for.           *)
(***************************************************************************)
EXTENDS RetryQueue, TLAPS

\* An item's age covers the whole chain of retries it belongs to.
AgeCoversChain ==
  \A k \in Keys : chain[k] >= 0 => k \in index /\ (chain[k] <= age[k] \/ age[k] = MaxAge + 1)

\* An item counts against the model's bound on attempts before it fires.
FiringBounded ==
  \A k \in queued : firing[k] + 1 <= MaxFiring

RetryInv == RetryTypeOK /\ AgeCoversChain /\ FiringBounded /\ AgeKept

\* The constants as numbers, for the arithmetic below.
LEMMA Numbers ==
  /\ Len(Schedule) \in Nat /\ Len(Schedule) >= 1
  /\ MaxAge \in Nat /\ MaxDelay \in Nat /\ MaxFiring \in Nat
BY RetryAssumption

\* removeLocked keeps the invariant whatever becomes of the attempts.
LEMMA RemoveKeeps ==
  ASSUME RetryInv, NEW k \in Keys, removeLocked(k),
         wake' \in BOOLEAN, loopAt' = loopAt, timer' = timer,
         firing' \in [Keys -> 0..MaxFiring], \A l \in Keys : firing'[l] <= firing[l]
  PROVE  RetryInv'
<1>1. RetryTypeOK'
  <2>1. index' \subseteq Keys /\ queued' \subseteq index'
    BY DEF RetryInv, RetryTypeOK, removeLocked
  <2>2. /\ tries' \in [Keys -> 0..Len(Schedule)]
        /\ age' \in [Keys -> 0..(MaxAge + 1)]
        /\ due' \in [Keys -> 0..MaxDelay]
    BY Numbers DEF RetryInv, RetryTypeOK, removeLocked
  <2>3. chain' \in [Keys -> -1..ChainCap]
    BY Numbers DEF RetryInv, RetryTypeOK, removeLocked, ChainCap
  <2> QED BY <2>1, <2>2, <2>3 DEF RetryInv, RetryTypeOK
<1>2. AgeCoversChain'
  BY Numbers DEF RetryInv, RetryTypeOK, AgeCoversChain, removeLocked
<1>3. FiringBounded'
  <2> SUFFICES ASSUME NEW l \in queued' PROVE firing'[l] + 1 <= MaxFiring
    BY DEF FiringBounded
  <2>1. l \in queued /\ l \in Keys
    BY DEF RetryInv, RetryTypeOK, removeLocked
  <2>2. firing[l] + 1 <= MaxFiring /\ firing'[l] <= firing[l]
    BY <2>1 DEF RetryInv, FiringBounded
  <2>3. firing[l] \in Int /\ firing'[l] \in Int
    BY <2>1, Numbers DEF RetryInv, RetryTypeOK
  <2> QED BY <2>2, <2>3, Numbers
<1>4. AgeKept'
  BY Numbers DEF RetryInv, RetryTypeOK, AgeKept, removeLocked
<1> QED BY <1>1, <1>2, <1>3, <1>4 DEF RetryInv

\* Add keeps it when the model's bound leaves room for one more item.
LEMMA AddKeeps ==
  ASSUME RetryInv, NEW k \in Keys, NEW class \in Classes, Add(k, class),
         loopAt' = loopAt, timer' = timer,
         firing' \in [Keys -> 0..MaxFiring], \A l \in Keys : firing'[l] <= firing[l],
         firing'[k] + 1 <= MaxFiring
  PROVE  RetryInv'
<1> DEFINE new == k \notin index
           n == IF new THEN 1 ELSE IF tries[k] < Len(Schedule) THEN tries[k] + 1 ELSE tries[k]
           old == IF new THEN 0 ELSE age[k]
<1>1. CASE removeLocked(k) /\ UNCHANGED wake
  BY <1>1, RemoveKeeps DEF RetryInv, RetryTypeOK
<1>2. ASSUME NEW h \in Hints \cup {NoHint}, NEW d \in nextDelay(n, class, h),
             old <= MaxAge,
             due' = [due EXCEPT ![k] = d],
             index' = index \cup {k},
             queued' = queued \cup {k},
             tries' = [tries EXCEPT ![k] = n],
             age' = [age EXCEPT ![k] = old],
             chain' = IF chain[k] = -1 THEN [chain EXCEPT ![k] = 0] ELSE chain,
             wake' = TRUE
      PROVE  RetryInv'
  <2>1. n \in 1..Len(Schedule) /\ old \in 0..MaxAge
    BY <1>2, Numbers DEF RetryInv, RetryTypeOK
  <2>2. d \in 0..MaxDelay
    BY <1>2, <2>1, RetryAssumption
  <2> HIDE DEF n, old, new
  <2>3. RetryTypeOK'
    <3>1. index' \subseteq Keys /\ queued' \subseteq index'
      BY <1>2 DEF RetryInv, RetryTypeOK
    <3>2. /\ tries' \in [Keys -> 0..Len(Schedule)]
          /\ age' \in [Keys -> 0..(MaxAge + 1)]
          /\ due' \in [Keys -> 0..MaxDelay]
      <4>1. n \in 0..Len(Schedule) /\ old \in 0..(MaxAge + 1)
        BY <2>1, Numbers
      <4>2. tries' \in [Keys -> 0..Len(Schedule)]
        BY <1>2, <4>1 DEF RetryInv, RetryTypeOK
      <4>3. age' \in [Keys -> 0..(MaxAge + 1)]
        BY <1>2, <4>1 DEF RetryInv, RetryTypeOK
      <4>4. due' \in [Keys -> 0..MaxDelay]
        BY <1>2, <2>2 DEF RetryInv, RetryTypeOK
      <4> QED BY <4>2, <4>3, <4>4
    <3>3. chain' \in [Keys -> -1..ChainCap]
      BY <1>2, Numbers DEF RetryInv, RetryTypeOK, ChainCap
    <3> QED BY <1>2, <3>1, <3>2, <3>3 DEF RetryInv, RetryTypeOK
  <2>4. AgeCoversChain'
    <3> SUFFICES ASSUME NEW l \in Keys, chain'[l] >= 0
                 PROVE  l \in index' /\ (chain'[l] <= age'[l] \/ age'[l] = MaxAge + 1)
      BY DEF AgeCoversChain
    <3>1. CASE l # k
      BY <1>2, <3>1, Numbers DEF RetryInv, RetryTypeOK, AgeCoversChain
    <3>2. CASE l = k /\ chain[k] = -1
      BY <1>2, <2>1, <3>2, Numbers DEF RetryInv, RetryTypeOK
    <3>3. CASE l = k /\ chain[k] # -1
      <4>1. chain[k] >= 0 /\ k \in index
        BY <3>3, Numbers DEF RetryInv, RetryTypeOK, AgeCoversChain, ChainCap
      <4>2. old = age[k]
        BY <4>1 DEF old, new
      <4> QED BY <1>2, <3>3, <4>1, <4>2 DEF RetryInv, RetryTypeOK, AgeCoversChain
    <3> QED BY <3>1, <3>2, <3>3
  <2>5. FiringBounded'
    <3> SUFFICES ASSUME NEW l \in queued', l # k PROVE firing'[l] + 1 <= MaxFiring
      BY DEF FiringBounded
    <3>1. l \in queued /\ l \in Keys
      BY <1>2 DEF RetryInv, RetryTypeOK
    <3>2. firing[l] + 1 <= MaxFiring /\ firing'[l] <= firing[l]
      BY <3>1 DEF RetryInv, FiringBounded
    <3>3. firing[l] \in Int /\ firing'[l] \in Int
      BY <3>1, Numbers DEF RetryInv, RetryTypeOK
    <3> QED BY <3>2, <3>3, Numbers
  <2>6. AgeKept'
    <3> SUFFICES ASSUME NEW l \in queued', due'[l] > 0
                 PROVE  chain'[l] + due'[l] <= MaxAge + MaxDelay
      BY DEF AgeKept
    <3>1. CASE l # k
      BY <1>2, <3>1, Numbers DEF RetryInv, RetryTypeOK, AgeKept
    <3>2. CASE l = k
      <4>0. chain \in [Keys -> -1..ChainCap] /\ ChainCap \in Int
        BY Numbers DEF RetryInv, RetryTypeOK, ChainCap
      <4>1. chain'[k] \in Int /\ chain'[k] >= 0
        <5>1. CASE chain[k] = -1 BY <1>2, <4>0, <5>1
        <5>2. CASE chain[k] # -1 BY <1>2, <4>0, <5>2
        <5> QED BY <5>1, <5>2
      <4>3. chain'[k] <= age'[k] \/ age'[k] = MaxAge + 1
        BY <2>4, <4>1 DEF AgeCoversChain
      <4>2. age'[k] = old /\ due'[k] = d
        BY <1>2 DEF RetryInv, RetryTypeOK
      <4>4. chain'[k] <= MaxAge
        BY <4>1, <4>2, <4>3, <2>1, Numbers
      <4>5. chain'[k] + d <= MaxAge + MaxDelay
        BY <4>1, <4>4, <2>2, Numbers
      <4> QED BY <3>2, <4>2, <4>5
    <3> QED BY <3>1, <3>2
  <2> QED BY <2>3, <2>4, <2>5, <2>6 DEF RetryInv
<1> QED BY <1>1, <1>2 DEF Add

\* Every step keeps the invariant.
LEMMA RetryStep ==
  ASSUME RetryInv, [RetryNext]_retryVars
  PROVE  RetryInv'
<1>0. firing \in [Keys -> 0..MaxFiring] /\ \A l \in Keys : firing[l] <= firing[l]
  BY Numbers DEF RetryInv, RetryTypeOK
<1>1. ASSUME NEW k \in Keys, DispatchFails(k) PROVE RetryInv'
  <2>1. firing[k] + 1 <= MaxFiring
    BY <1>1, Numbers DEF DispatchFails, RetryInv, RetryTypeOK, FiringBounded
  <2>2. PICK class \in Classes : Add(k, class)
    BY <1>1 DEF DispatchFails
  <2>3. firing' = firing /\ loopAt' = loopAt /\ timer' = timer
    BY <1>1 DEF DispatchFails
  <2> QED BY <2>1, <2>2, <2>3, <1>0, AddKeeps
<1>2. ASSUME NEW k \in Keys, Drop(k) PROVE RetryInv'
  BY <1>0, <1>2, RemoveKeeps DEF Drop, loop, RetryInv, RetryTypeOK
<1>3. ASSUME NEW k \in Keys, firing[k] > 0, firing' = [firing EXCEPT ![k] = @ - 1]
      PROVE  /\ firing' \in [Keys -> 0..MaxFiring]
             /\ \A l \in Keys : firing'[l] <= firing[l]
             /\ firing'[k] + 1 <= MaxFiring
  <2>1. firing[k] \in 0..MaxFiring /\ firing[k] - 1 \in 0..MaxFiring
    BY <1>0, <1>3, Numbers
  <2>2. firing' \in [Keys -> 0..MaxFiring]
    BY <1>0, <1>3, <2>1
  <2>3. firing'[k] = firing[k] - 1 /\ \A l \in Keys : l # k => firing'[l] = firing[l]
    BY <1>0, <1>3
  <2>4. firing'[k] + 1 <= MaxFiring /\ firing'[k] <= firing[k]
    BY <2>1, <2>3, Numbers
  <2>5. \A l \in Keys : firing'[l] <= firing[l]
    BY <1>0, <2>3, <2>4
  <2> QED BY <2>2, <2>4, <2>5
<1>4. ASSUME NEW k \in Keys, AttemptSucceeds(k) PROVE RetryInv'
  BY <1>3, <1>4, RemoveKeeps DEF AttemptSucceeds, loop, RetryInv, RetryTypeOK
<1>5. ASSUME NEW k \in Keys, AttemptFails(k) PROVE RetryInv'
  <2>1. PICK class \in Classes : Add(k, class)
    BY <1>5 DEF AttemptFails
  <2> QED BY <1>3, <1>5, <2>1, AddKeeps DEF AttemptFails
<1>6. ASSUME NEW k \in Keys, AttemptRefused(k) PROVE RetryInv'
  <2>1. RetryTypeOK'
    BY <1>3, <1>6 DEF AttemptRefused, items, loop, RetryInv, RetryTypeOK
  <2> QED BY <1>3, <1>6, <2>1, Numbers
          DEF AttemptRefused, items, loop, RetryInv, RetryTypeOK, AgeCoversChain, FiringBounded, AgeKept
<1>7. CASE Scan
  <2>1. RetryTypeOK'
    BY <1>7, Numbers DEF Scan, items, RetryInv, RetryTypeOK
  <2> QED BY <1>7, <2>1 DEF Scan, items, RetryInv, AgeCoversChain, FiringBounded, AgeKept
<1>8. CASE Woken
  BY <1>8 DEF Woken, items, RetryInv, RetryTypeOK, AgeCoversChain, FiringBounded, AgeKept
<1>9. CASE fireDue
  <2>1. \A k \in Due : k \in Keys /\ firing[k] + 1 <= MaxFiring
    BY Numbers DEF Due, RetryInv, RetryTypeOK, FiringBounded
  <2>2. RetryTypeOK'
    BY <1>9, <2>1, Numbers DEF fireDue, RetryInv, RetryTypeOK
  <2>3. AgeCoversChain' /\ AgeKept'
    BY <1>9 DEF fireDue, RetryInv, RetryTypeOK, AgeCoversChain, AgeKept
  <2>4. FiringBounded'
    BY <1>9, <2>1, Numbers DEF fireDue, Due, RetryInv, RetryTypeOK, FiringBounded
  <2> QED BY <2>2, <2>3, <2>4 DEF RetryInv
<1>10. CASE Tick
  <2>1. UNCHANGED <<index, queued, tries, wake, loopAt, firing>>
    BY <1>10 DEF Tick
  <2>2. /\ due \in [Keys -> 0..MaxDelay] /\ age \in [Keys -> 0..(MaxAge + 1)]
        /\ chain \in [Keys -> -1..ChainCap] /\ timer \in -1..MaxDelay
        /\ index \subseteq Keys /\ queued \subseteq index /\ ChainCap \in Nat
    BY Numbers DEF RetryInv, RetryTypeOK, ChainCap
  <2>3. ASSUME NEW k \in Keys
        PROVE  /\ due'[k] \in 0..MaxDelay
               /\ due'[k] = IF due[k] > 0 THEN due[k] - 1 ELSE 0
    BY <1>10, <2>2, Numbers DEF Tick
  <2>4. ASSUME NEW k \in Keys
        PROVE  /\ age'[k] \in 0..(MaxAge + 1)
               /\ age'[k] = IF k \in index /\ age[k] <= MaxAge THEN age[k] + 1 ELSE age[k]
    BY <1>10, <2>2, Numbers DEF Tick
  <2>5. ASSUME NEW k \in Keys
        PROVE  /\ chain'[k] \in -1..ChainCap
               /\ chain'[k] = IF chain[k] \in 0..(ChainCap - 1) THEN chain[k] + 1 ELSE chain[k]
    BY <1>10, <2>2, Numbers DEF Tick
  <2>6. timer' \in -1..MaxDelay
    BY <1>10, <2>2, Numbers DEF Tick
  <2>7. RetryTypeOK'
    <3>1. due' \in [Keys -> 0..MaxDelay]
      BY <1>10, <2>3 DEF Tick
    <3>2. age' \in [Keys -> 0..(MaxAge + 1)]
      BY <1>10, <2>4 DEF Tick
    <3>3. chain' \in [Keys -> -1..ChainCap]
      BY <1>10, <2>5 DEF Tick
    <3> QED BY <2>1, <2>6, <3>1, <3>2, <3>3 DEF RetryInv, RetryTypeOK, ChainCap
  <2>8. AgeCoversChain'
    <3> SUFFICES ASSUME NEW k \in Keys, chain'[k] >= 0
                 PROVE  k \in index /\ (chain'[k] <= age'[k] \/ age'[k] = MaxAge + 1)
      BY <2>1 DEF AgeCoversChain
    <3>1. chain[k] >= 0 /\ chain'[k] <= chain[k] + 1
      BY <2>2, <2>5
    <3>2. k \in index /\ (chain[k] <= age[k] \/ age[k] = MaxAge + 1)
      BY <3>1 DEF RetryInv, AgeCoversChain
    <3>3. age[k] \in Int /\ chain[k] \in Int /\ chain'[k] \in Int
      BY <2>2, <2>5
    <3>4. CASE age[k] <= MaxAge
      <4>1. age'[k] = age[k] + 1 /\ chain[k] <= age[k]
        BY <2>4, <3>2, <3>4, Numbers
      <4> QED BY <3>1, <3>2, <3>3, <4>1
    <3>5. CASE age[k] > MaxAge
      <4>1. age[k] = MaxAge + 1 /\ age'[k] = age[k]
        BY <2>2, <2>4, <3>3, <3>5, Numbers
      <4> QED BY <3>2, <4>1
    <3> QED BY <3>3, <3>4, <3>5, Numbers
  <2>9. FiringBounded'
    BY <2>1 DEF RetryInv, FiringBounded
  <2>10. AgeKept'
    <3> SUFFICES ASSUME NEW k \in queued, due'[k] > 0
                 PROVE  chain'[k] + due'[k] <= MaxAge + MaxDelay
      BY <2>1 DEF AgeKept
    <3>1. k \in Keys
      BY <2>2
    <3>2. due[k] > 0 /\ due'[k] = due[k] - 1
      BY <2>2, <2>3, <3>1
    <3>3. chain'[k] <= chain[k] + 1
      BY <2>2, <2>5, <3>1
    <3>4. chain[k] + due[k] <= MaxAge + MaxDelay
      BY <3>2 DEF RetryInv, AgeKept
    <3>5. /\ due[k] \in Int /\ due'[k] \in Int
          /\ chain[k] \in Int /\ chain'[k] \in Int
      BY <2>2, <2>3, <2>5, <3>1
    <3> QED BY <3>2, <3>3, <3>4, <3>5, Numbers
  <2> QED BY <2>7, <2>8, <2>9, <2>10 DEF RetryInv
<1>11. CASE UNCHANGED retryVars
  BY <1>11 DEF retryVars, items, loop, RetryInv, RetryTypeOK, AgeCoversChain, FiringBounded, AgeKept
<1> QED BY <1>1, <1>2, <1>4, <1>5, <1>6, <1>7, <1>8, <1>9, <1>10, <1>11 DEF RetryNext

\* The empty queue satisfies the inductive invariant.
LEMMA RetryInitially == RetryInit => RetryInv
<1> SUFFICES ASSUME RetryInit PROVE RetryInv
  OBVIOUS
<1>1. RetryTypeOK
  <2>1. /\ 0 \in 0..Len(Schedule) /\ 0 \in 0..(MaxAge + 1) /\ 0 \in 0..MaxDelay
        /\ 0 \in 0..MaxFiring /\ -1 \in -1..ChainCap /\ -1 \in -1..MaxDelay
    BY Numbers DEF ChainCap
  <2> QED BY <2>1 DEF RetryInit, RetryTypeOK
<1>2. AgeCoversChain /\ FiringBounded /\ AgeKept
  BY DEF RetryInit, AgeCoversChain, FiringBounded, AgeKept
<1> QED BY <1>1, <1>2 DEF RetryInv

\* The retry queue keeps its types (in particular: what is in the heap is in
\* the index, where Drop looks) and its age budget, for every set of jobs,
\* every ladder of delays and every behaviour of attempts and events.
THEOREM AgeBudget == RetrySpec => [](RetryTypeOK /\ AgeKept)
<1>1. RetryInv => RetryTypeOK /\ AgeKept
  BY DEF RetryInv
<1>2. RetryInv /\ [RetryNext]_retryVars => RetryInv'
  BY RetryStep
<1> QED BY <1>1, <1>2, RetryInitially, PTL DEF RetrySpec
=============================================================================
