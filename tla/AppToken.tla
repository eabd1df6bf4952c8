------------------------------ MODULE AppToken ------------------------------
(***************************************************************************)
(* The installation token of a GitHub App (pkg/github/appauth.go): a loop  *)
(* that renews it in the background, and callers that renew it themselves, *)
(* one at a time, when they find it about to expire.  A token is named by  *)
(* the time it expires.  http.DefaultClient sets no timeout: MaxLate, how  *)
(* long an exchange may take, is an assumption about GitHub.               *)
(***************************************************************************)
EXTENDS Integers

CONSTANTS
  Callers,         \* API calls under way at once
  Life,            \* how long a token lives (one hour)
  LoopMargin,      \* the loop renews it so long before (15 minutes)
  CallMargin,      \* and Token itself so long before (5 minutes)
  MaxLate,         \* how long an exchange may take
  MaxClock,        \* a bound on the clock
  MaxExchErrs      \* a bound on failed exchanges

Loop == "loop"   \* refreshLoop, among those that exchange

(* The margins leave room for an exchange: one that the loop sends in time  *)
(* ends before callers renew, and brings a token that is not due yet.       *)
ASSUME TokenAssumption ==
  /\ {Life, LoopMargin, CallMargin, MaxLate, MaxClock, MaxExchErrs} \subseteq Nat
  /\ CallMargin + MaxLate < LoopMargin /\ LoopMargin < Life /\ LoopMargin + MaxLate <= Life
  /\ Loop \notin Callers

VARIABLES
  clock,
  expires,     \* the cached token
  callerAt,    \* where each call of Token is
  callFailed,  \* its exchange failed
  refreshMu,   \* who holds it: a caller or "free"
  renewAt,      \* refreshLoop: "sleep", "exchange" or "pause"
  wakeAt,      \* when it wakes
  exchSent,       \* when each exchange under way was sent, -1: none
  minted,      \* the token GitHub made for it, -1: not yet
  served,      \* the last token handed out, when, and whether its caller's exchange failed
  exchErrs

tokenVars == <<clock, expires, callerAt, callFailed, refreshMu, renewAt, wakeAt, exchSent, minted, served, exchErrs>>

Exchangers == Callers \cup {Loop}

TokenTypeOK ==
  /\ clock \in 0..MaxClock /\ expires \in 0..(MaxClock + Life)
  /\ callerAt \in [Callers -> {"idle", "lock", "look", "exchange", "read"}]
  /\ callFailed \in [Callers -> BOOLEAN] /\ refreshMu \in Callers \cup {"free"}
  /\ renewAt \in {"sleep", "exchange", "pause"} /\ wakeAt \in 0..(MaxClock + Life)
  /\ exchSent \in [Exchangers -> -1..MaxClock] /\ minted \in [Exchangers -> -1..(MaxClock + Life)]
  /\ served.token \in 0..(MaxClock + Life) /\ served.at \in 0..MaxClock /\ served.failed \in BOOLEAN
  /\ exchErrs \in 0..MaxExchErrs

(* NewAppAuth: the first exchange is done before the loop starts.           *)
TokenInit ==
  /\ clock = 0 /\ expires = Life /\ callerAt = [c \in Callers |-> "idle"]
  /\ callFailed = [c \in Callers |-> FALSE] /\ refreshMu = "free"
  /\ renewAt = "sleep" /\ wakeAt = Life - LoopMargin
  /\ exchSent = [p \in Exchangers |-> -1] /\ minted = [p \in Exchangers |-> -1]
  /\ served = [token |-> Life, at |-> 0, failed |-> FALSE] /\ exchErrs = 0

(* Within five minutes of the expiry.                                       *)
Soon == expires - clock <= CallMargin
Hand(c) == served' = [token |-> expires, at |-> clock, failed |-> callFailed[c]]
TokenTo(c, from, to) == callerAt[c] = from /\ callerAt' = [callerAt EXCEPT ![c] = to]
LoopSame == UNCHANGED <<renewAt, wakeAt>>
ExchSame == UNCHANGED <<exchSent, minted, exchErrs>>

(* Token: the cached one, or wait for refreshMu.                            *)
Token(c) ==
  /\ callFailed' = [callFailed EXCEPT ![c] = FALSE]
  /\ \/ Soon /\ TokenTo(c, "idle", "lock") /\ UNCHANGED served
     \/ ~Soon /\ callerAt[c] = "idle" /\ served' = [token |-> expires, at |-> clock, failed |-> FALSE]
        /\ UNCHANGED callerAt
  /\ UNCHANGED <<clock, expires, refreshMu>> /\ LoopSame /\ ExchSame

LockRefresh(c) ==
  /\ refreshMu = "free" /\ refreshMu' = c /\ TokenTo(c, "lock", "look")
  /\ UNCHANGED <<clock, expires, callFailed, served>> /\ LoopSame /\ ExchSame

(* The second look under the lock: another caller may have renewed it.      *)
LookAgain(c) ==
  /\ \/ ~Soon /\ TokenTo(c, "look", "read") /\ UNCHANGED exchSent
     \/ Soon /\ TokenTo(c, "look", "exchange") /\ exchSent' = [exchSent EXCEPT ![c] = clock]
  /\ UNCHANGED <<clock, expires, callFailed, refreshMu, served, minted, exchErrs>> /\ LoopSame

(* GitHub mints a token for an exchange under way.                          *)
Mint(p) ==
  /\ exchSent[p] >= 0 /\ minted[p] = -1 /\ minted' = [minted EXCEPT ![p] = clock + Life]
  /\ UNCHANGED <<clock, expires, callerAt, callFailed, refreshMu, served, exchSent, exchErrs>> /\ LoopSame

ExchOver(p) == exchSent' = [exchSent EXCEPT ![p] = -1] /\ minted' = [minted EXCEPT ![p] = -1]

(* refresh: the answer is stored, whatever was stored since it was asked.      *)
Stored(p) == minted[p] >= 0 /\ expires' = minted[p] /\ UNCHANGED exchErrs
Refused == exchErrs < MaxExchErrs /\ exchErrs' = exchErrs + 1 /\ UNCHANGED expires

CallerExchange(c) ==
  /\ TokenTo(c, "exchange", "read") /\ ExchOver(c)
  /\ \/ Stored(c) /\ UNCHANGED callFailed
     \/ Refused /\ callFailed' = [callFailed EXCEPT ![c] = TRUE]
  /\ UNCHANGED <<clock, refreshMu, served>> /\ LoopSame

(* The token is read again and returned; refreshMu is released.             *)
ReadToken(c) ==
  /\ TokenTo(c, "read", "idle") /\ Hand(c) /\ refreshMu' = "free"
  /\ UNCHANGED <<clock, expires, callFailed>> /\ LoopSame /\ ExchSame

LoopWakes ==
  /\ renewAt = "sleep" /\ clock >= wakeAt /\ renewAt' = "exchange" /\ exchSent' = [exchSent EXCEPT ![Loop] = clock]
  /\ UNCHANGED <<clock, expires, callerAt, callFailed, refreshMu, wakeAt, minted, served, exchErrs>>

(* refreshLoop sleeps until LoopMargin before the expiry it reads, and at   *)
(* least the 30 seconds that are less than a tick.                          *)
NextWake(e) == IF e - LoopMargin > clock THEN e - LoopMargin ELSE clock

LoopExchange ==
  /\ renewAt = "exchange" /\ ExchOver(Loop)
  /\ \/ Stored(Loop) /\ renewAt' = "sleep" /\ wakeAt' = NextWake(minted[Loop])
     \/ Refused /\ renewAt' = "pause" /\ UNCHANGED wakeAt
  /\ UNCHANGED <<clock, callerAt, callFailed, refreshMu, served>>

(* After a failure it pauses, then reads the expiry afresh.                 *)
LoopResumes ==
  /\ renewAt = "pause" /\ renewAt' = "sleep" /\ wakeAt' = NextWake(expires)
  /\ UNCHANGED <<clock, expires, callerAt, callFailed, refreshMu, served>> /\ ExchSame

(* Time passes, but not past a timer that is due, an exchange that must     *)
(* have ended, or two reads that follow each other at once.                 *)
TokenTick ==
  /\ clock < MaxClock /\ clock' = clock + 1
  /\ renewAt # "pause" /\ (renewAt = "sleep" => clock < wakeAt)
  /\ \A p \in Exchangers : exchSent[p] >= 0 => clock < exchSent[p] + MaxLate
  /\ \A c \in Callers : callerAt[c] \notin {"look", "read"}
  /\ UNCHANGED <<expires, callerAt, callFailed, refreshMu, renewAt, wakeAt, served>> /\ ExchSame

CallerStep(c) == LockRefresh(c) \/ LookAgain(c) \/ CallerExchange(c) \/ ReadToken(c)

TokenNext ==
  \/ TokenTick \/ LoopWakes \/ LoopExchange \/ LoopResumes
  \/ \E c \in Callers : Token(c) \/ CallerStep(c)
  \/ \E p \in Exchangers : Mint(p)

(* Goroutines run; GitHub answers.                                          *)
TokenFairness ==
  /\ \A c \in Callers : WF_tokenVars(LookAgain(c)) /\ WF_tokenVars(CallerExchange(c)) /\ WF_tokenVars(ReadToken(c))
                        /\ SF_tokenVars(LockRefresh(c))
  /\ \A p \in Exchangers : WF_tokenVars(Mint(p))

TokenSpec == TokenInit /\ [][TokenNext]_tokenVars /\ TokenFairness

-----------------------------------------------------------------------------
(* A caller is never handed an expired token unless its own exchange        *)
(* failed: also when the loop stores an older answer over a newer one.      *)
ServedFresh == served.token > served.at \/ served.failed

(* As long as no exchange fails, callers never have to renew the token      *)
(* themselves: the loop is always ahead of them.                            *)
LoopRenewsFirst == exchErrs = 0 => \A c \in Callers : callerAt[c] = "idle"

(* Every call of Token returns, also after failed exchanges.                *)
TokenReturns == \A c \in Callers : (callerAt[c] = "lock") ~> (callerAt[c] = "idle")
=============================================================================
