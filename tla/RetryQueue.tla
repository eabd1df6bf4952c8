------------------------------ MODULE RetryQueue ------------------------------
(***************************************************************************)
(* The scheduler's retry queue (pkg/scheduler/retry_queue.go): a heap of   *)
(* pending retries with an index by job, one goroutine that sleeps until   *)
(* the earliest of them, and one goroutine per attempt that has fired.     *)
(*                                                                         *)
(* Time is kept relative: due[k] is the time left until k's next attempt,  *)
(* age[k] the time since its first failure, timer the time left on the     *)
(* loop's timer.  Both clocks stop counting where the code stops telling   *)
(* values apart, so the state space is finite and time is not bounded.     *)
(***************************************************************************)
EXTENDS Integers, Sequences, FiniteSets

CONSTANTS
  Keys,         \* the jobs (jobKey)
  Schedule,     \* cfg.Schedule: the ladder of base delays
  MaxAge,       \* cfg.MaxAge
  Jitter,       \* cfg.Jitter, in tenths
  ResetSlack,   \* what is added to a rate-limit reset (5s + [0, 20s))
  Hints,        \* the times to reset that cfg.RateHint may report
  NoHint,       \* no usable rate hint: none, stale, or budget left
  MaxDelay,     \* an upper bound of every delay
  MaxFiring     \* bound of the model: attempts of one job in flight

Classes == {"rate", "other"}          \* the retryable classes of classifyErr

\* jittered: any value of [base - span, base + span), or base without jitter.
Jittered(base) ==
  IF Jitter = 0 THEN {base}
  ELSE {d \in 0..(2 * base) : base * (10 - Jitter) <= 10 * d /\ 10 * d < base * (10 + Jitter)}

\* nextDelayLocked: a rate error with a usable hint waits for the reset, any
\* other failure takes its step of the ladder, the last step repeating.
nextDelay(n, class, hint) ==
  IF class = "rate" /\ hint # NoHint
  THEN {hint + s : s \in 1..ResetSlack}
  ELSE Jittered(Schedule[IF n > Len(Schedule) THEN Len(Schedule) ELSE n])

ASSUME RetryAssumption ==
  /\ Len(Schedule) \in Nat \ {0}
  /\ MaxAge \in Nat /\ MaxDelay \in Nat /\ MaxFiring \in Nat
  /\ \A n \in 1..Len(Schedule), c \in Classes, h \in Hints \cup {NoHint} :
       nextDelay(n, c, h) \subseteq 0..MaxDelay

VARIABLES
  index,      \* q.index: the jobs with an item
  queued,     \* q.heap: the items waiting for their time
  tries,      \* item.attempts, up to the length of the ladder
  age,        \* now - item.firstFailure, up to MaxAge + 1
  due,        \* item.nextAttempt - now, at least 0
  firing,     \* runOne goroutines in flight, by job
  wake,       \* q.wake, a channel of capacity one
  loopAt,     \* where Run is: before its look at the heap, or in its select
  timer,      \* time left on Run's timer, -1 without one
  chain       \* history: how long a job has been retried since the failure that
              \* began it, -1 before it and after a success, a drop or a give-up

items == <<index, queued, tries, age, due>>
loop == <<wake, loopAt, timer>>
retryVars == <<items, loop, firing, chain>>

ChainCap == MaxAge + MaxDelay + 1

\* The type invariant.  Every item of the heap is in the index (Drop and Add
\* find items by the index only).
RetryTypeOK ==
  /\ index \subseteq Keys
  /\ queued \subseteq index
  /\ tries \in [Keys -> 0..Len(Schedule)]
  /\ age \in [Keys -> 0..(MaxAge + 1)]
  /\ due \in [Keys -> 0..MaxDelay]
  /\ firing \in [Keys -> 0..MaxFiring]
  /\ wake \in BOOLEAN
  /\ loopAt \in {"scan", "select"}
  /\ timer \in -1..MaxDelay
  /\ chain \in [Keys -> -1..ChainCap]

RetryInit ==
  /\ index = {} /\ queued = {}
  /\ tries = [k \in Keys |-> 0]
  /\ age = [k \in Keys |-> 0]
  /\ due = [k \in Keys |-> 0]
  /\ firing = [k \in Keys |-> 0]
  /\ wake = FALSE /\ loopAt = "scan" /\ timer = -1
  /\ chain = [k \in Keys |-> -1]

-----------------------------------------------------------------------------
\* removeLocked, for Drop, a success and a give-up: the item leaves the heap
\* and the index.
removeLocked(k) ==
  /\ index' = index \ {k}
  /\ queued' = queued \ {k}
  /\ tries' = [tries EXCEPT ![k] = 0]
  /\ age' = [age EXCEPT ![k] = 0]
  /\ due' = [due EXCEPT ![k] = 0]
  /\ chain' = [chain EXCEPT ![k] = -1]

Add_NoSignal(k, class) ==
  LET new == k \notin index
      n == IF new THEN 1 ELSE IF tries[k] < Len(Schedule) THEN tries[k] + 1 ELSE tries[k]
      old == IF new THEN 0 ELSE age[k]
  IN \/ /\ old > MaxAge
        /\ removeLocked(k)
        /\ UNCHANGED wake
     \/ /\ old <= MaxAge
        /\ \E h \in Hints \cup {NoHint} : \E d \in nextDelay(n, class, h) :
             due' = [due EXCEPT ![k] = d]
        /\ index' = index \cup {k}
        /\ queued' = queued \cup {k}
        /\ tries' = [tries EXCEPT ![k] = n]
        /\ age' = [age EXCEPT ![k] = old]
        /\ chain' = IF chain[k] = -1 THEN [chain EXCEPT ![k] = 0] ELSE chain
        /\ UNCHANGED wake

\* Add after a retryable failure: the item of the job, or a new one, moves one
\* step up the ladder and is pushed (or moved) to its next time; once the first
\* failure is too long ago it is removed instead.
Add(k, class) ==
  LET new == k \notin index
      n == IF new THEN 1 ELSE IF tries[k] < Len(Schedule) THEN tries[k] + 1 ELSE tries[k]
      old == IF new THEN 0 ELSE age[k]
  IN \/ /\ old > MaxAge
        /\ removeLocked(k)
        /\ UNCHANGED wake
     \/ /\ old <= MaxAge
        /\ \E h \in Hints \cup {NoHint} : \E d \in nextDelay(n, class, h) :
             due' = [due EXCEPT ![k] = d]
        /\ index' = index \cup {k}
        /\ queued' = queued \cup {k}
        /\ tries' = [tries EXCEPT ![k] = n]
        /\ age' = [age EXCEPT ![k] = old]
        /\ chain' = IF chain[k] = -1 THEN [chain EXCEPT ![k] = 0] ELSE chain
        /\ wake' = TRUE

\* enqueueRetryIfEligible, off the retry path: a dispatch that some event
\* started has failed.  A job can have one while a retry of it is in flight.
DispatchFails(k) ==
  /\ firing[k] + (IF k \in queued THEN 1 ELSE 0) < MaxFiring
  /\ \E class \in Classes : Add(k, class)
  /\ UNCHANGED <<firing, loopAt, timer>>

\* Drop, from an in_progress or a completed event.
Drop(k) ==
  /\ removeLocked(k)
  /\ UNCHANGED <<loop, firing>>

\* runOne, after the handler has returned nil: the item goes.
AttemptSucceeds(k) ==
  /\ firing[k] > 0
  /\ firing' = [firing EXCEPT ![k] = @ - 1]
  /\ removeLocked(k)
  /\ UNCHANGED loop

\* runOne, after the handler has returned an error worth a retry.
AttemptFails(k) ==
  /\ firing[k] > 0
  /\ firing' = [firing EXCEPT ![k] = @ - 1]
  /\ \E class \in Classes : Add(k, class)
  /\ UNCHANGED <<loopAt, timer>>

\* runOne, after an error that is not: Add returns at once, the item that
\* fireDue left in the index stays there.
AttemptRefused(k) ==
  /\ firing[k] > 0
  /\ firing' = [firing EXCEPT ![k] = @ - 1]
  /\ UNCHANGED <<items, loop, chain>>

\* Run, the top of its loop: look at the head of the heap and set the timer.
Scan ==
  /\ loopAt = "scan"
  /\ loopAt' = "select"
  /\ \/ queued = {} /\ timer' = -1
     \/ \E k \in queued : /\ \A l \in queued : due[k] <= due[l]
                          /\ timer' = due[k]
  /\ UNCHANGED <<items, wake, firing, chain>>

\* Run, woken by a signal.
Woken ==
  /\ loopAt = "select" /\ wake
  /\ wake' = FALSE
  /\ loopAt' = "scan"
  /\ UNCHANGED <<items, timer, firing, chain>>

Due == {k \in queued : due[k] = 0}

fireDue_Deletes ==
  /\ loopAt = "select" /\ timer = 0
  /\ loopAt' = "scan"
  /\ queued' = queued \ Due
  /\ index' = index \ Due
  /\ tries' = [k \in Keys |-> IF k \in Due THEN 0 ELSE tries[k]]
  /\ age' = [k \in Keys |-> IF k \in Due THEN 0 ELSE age[k]]
  /\ firing' = [k \in Keys |-> IF k \in Due THEN firing[k] + 1 ELSE firing[k]]
  /\ UNCHANGED <<due, wake, timer, chain>>

\* Run, when the timer fires: fireDue pops everything due and starts an attempt
\* for each; the items stay in the index, so that a failure finds them.
fireDue ==
  /\ loopAt = "select" /\ timer = 0
  /\ loopAt' = "scan"
  /\ queued' = queued \ Due
  /\ firing' = [k \in Keys |-> IF k \in Due THEN firing[k] + 1 ELSE firing[k]]
  /\ UNCHANGED <<index, tries, age, due, wake, timer, chain>>

\* Time passes.
Tick ==
  /\ due' = [k \in Keys |-> IF due[k] > 0 THEN due[k] - 1 ELSE 0]
  /\ age' = [k \in Keys |-> IF k \in index /\ age[k] <= MaxAge THEN age[k] + 1 ELSE age[k]]
  /\ chain' = [k \in Keys |-> IF chain[k] \in 0..(ChainCap - 1) THEN chain[k] + 1 ELSE chain[k]]
  /\ timer' = IF timer > 0 THEN timer - 1 ELSE timer
  /\ UNCHANGED <<index, queued, tries, wake, loopAt, firing>>

RetryNext ==
  \/ \E k \in Keys : \/ DispatchFails(k) \/ Drop(k)
                     \/ AttemptSucceeds(k) \/ AttemptFails(k) \/ AttemptRefused(k)
  \/ Scan \/ Woken \/ fireDue \/ Tick

\* Run is one goroutine that is always scheduled, and time goes on.  Go's
\* select chooses at random among the cases that are ready, so a timer that is
\* ready again and again is chosen in the end.  Nothing is assumed of attempts:
\* a handler may wait for a slot for as long as it likes.
RetryFairness ==
  /\ WF_retryVars(Tick)
  /\ WF_retryVars(Scan)
  /\ WF_retryVars(Woken)
  /\ SF_retryVars(fireDue)

RetrySpec == RetryInit /\ [][RetryNext]_retryVars /\ RetryFairness

-----------------------------------------------------------------------------
\* The age budget is kept (MaxAge, "giving up after"): no retry is scheduled
\* for later than MaxAge after the failure that began the chain, plus one
\* delay, however often the job fires, fails and is added again.
AgeKept ==
  \A k \in queued : due[k] > 0 => chain[k] + due[k] <= MaxAge + MaxDelay

\* No retry is forgotten: an item in the heap fires, is dropped or is given up,
\* whatever the loop was doing when it was pushed, and although other failures
\* of the job keep moving it.
RetryResolved == \A k \in Keys : k \in queued ~> k \notin queued
=============================================================================
