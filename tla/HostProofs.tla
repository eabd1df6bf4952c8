------------------------------ MODULE HostProofs ------------------------------
(***************************************************************************)
(* What the daemon keeps about itself: the macOS VMs stay accounted for,   *)
(* start-up, shutdown and upgrade keep their order, the App's token and    *)
(* the tunnel's client are safe, the forges are told right, and the state  *)
(* of every part and store is of its type, for every number of VMs,        *)
(* upgrades, callers, children, repositories, tasks and steps, and for     *)
(* every sequence of failures, deaths and restarts.                        *)
(***************************************************************************)
EXTENDS CacheProofs, RetryQueueProofs, MacPoolProofs, SequenceTheorems

-----------------------------------------------------------------------------
(* The pool moves when it is in focus, and stays as it started otherwise.   *)
(* For any number of macOS VMs, slots and any cap: a VM whose stop was      *)
(* walked away from is charged once, and a guest that nobody has asked to   *)
(* stop keeps its disk, whatever the other attempts and the sweep remove.   *)
THEOREM VmsStayAccounted == HostSpec => []VmsAccounted
<1>1. HostStart => PoolInv /\ LiveOwned
  <2>1. HostStart => PoolInit
    BY DEF HostStart, HostInit
  <2>2. PoolInit => LiveOwned
    BY DEF PoolInit, VMInit, LiveOwned
  <2> QED BY <2>1, <2>2, PoolInitially
<1>2. PoolInv /\ LiveOwned /\ [HostNext]_<<focus, hostVars>> => (PoolInv /\ LiveOwned)'
  <2>1. [HostNext]_<<focus, hostVars>> => [PoolNext]_poolVars
    BY DEF HostNext, HostFrozen, HostMoves, hostVars
  <2> QED BY <2>1, PoolStepKeeps, LiveOwnedStep
<1>3. PoolInv /\ LiveOwned => VmsAccounted
  BY DEF PoolInv, LiveOwned, OneTeardown, VmsAccounted, ChargedOnce, LiveHasFiles
<1> QED BY <1>1, <1>2, <1>3, PTL DEF HostSpec

-----------------------------------------------------------------------------
(* AppToken.                                                                *)
Renewal == Nat \cup {-1}

TokenTyped ==
  /\ clock \in Nat /\ expires \in Nat /\ wakeAt \in Nat /\ exchErrs \in Nat
  /\ callerAt \in [Callers -> {"idle", "lock", "look", "exchange", "read"}]
  /\ callFailed \in [Callers -> BOOLEAN] /\ renewAt \in {"sleep", "exchange", "pause"}
  /\ exchSent \in [Exchangers -> Renewal] /\ minted \in [Exchangers -> Renewal]

(* An exchange is under way while somebody waits for it, for no longer than *)
(* it may take, and a token lives from the time it was minted.              *)
ExchangesTimed ==
  /\ \A c \in Callers : callerAt[c] # "exchange" => exchSent[c] = -1
  /\ renewAt # "exchange" => exchSent[Loop] = -1
  /\ \A p \in Exchangers :
       /\ exchSent[p] = -1 => minted[p] = -1
       /\ exchSent[p] # -1 => exchSent[p] <= clock /\ clock <= exchSent[p] + MaxLate
       /\ minted[p] # -1 => exchSent[p] + Life <= minted[p]

(* The token that a caller is about to read is not expired.                 *)
ReadsFresh == \A c \in Callers : callerAt[c] = "read" => callFailed[c] \/ expires > clock

(* The loop keeps its margin as long as nothing fails.                      *)
LoopAhead ==
  exchErrs = 0 =>
    /\ \A c \in Callers : callerAt[c] = "idle"
    /\ \/ renewAt = "sleep" /\ wakeAt + LoopMargin = expires /\ clock <= wakeAt
       \/ renewAt = "exchange" /\ exchSent[Loop] # -1 /\ exchSent[Loop] + LoopMargin = expires

TokenInv == TokenTyped /\ ExchangesTimed /\ ReadsFresh /\ LoopAhead /\ ServedFresh

LEMMA TokenNumbers ==
  /\ Life \in Nat /\ LoopMargin \in Nat /\ CallMargin \in Nat /\ MaxLate \in Nat /\ MaxClock \in Nat
  /\ CallMargin + MaxLate < LoopMargin /\ LoopMargin < Life /\ LoopMargin + MaxLate <= Life
  /\ Loop \notin Callers /\ Loop \in Exchangers /\ \A c \in Callers : c \in Exchangers /\ c # Loop
  BY TokenAssumption DEF Exchangers

(* What an exchange brings is not due when it is stored.                    *)
LEMMA MintedLasts ==
  ASSUME TokenInv, NEW p \in Exchangers, minted[p] >= 0
  PROVE  /\ minted[p] \in Nat /\ clock \in Nat /\ minted[p] >= clock + LoopMargin
<1>1. minted[p] \in Renewal /\ exchSent[p] \in Renewal /\ clock \in Nat
  BY DEF TokenInv, TokenTyped
<1>2. minted[p] # -1
  BY <1>1 DEF Renewal
<1>3. exchSent[p] # -1 /\ clock <= exchSent[p] + MaxLate /\ exchSent[p] + Life <= minted[p]
  BY <1>1, <1>2 DEF TokenInv, ExchangesTimed
<1> DEFINE m == minted[p]  e == exchSent[p]
<1>4. m \in Nat /\ e \in Nat /\ clock <= e + MaxLate /\ e + Life <= m
  BY <1>1, <1>2, <1>3 DEF Renewal
<1> HIDE DEF m, e
<1>5. m \in Nat /\ m >= clock + LoopMargin
  BY <1>1, <1>4, TokenNumbers
<1> QED BY <1>1, <1>5 DEF m

(* No caller renews while the loop is ahead.                                *)
LEMMA LoopKeepsMargin ==
  ASSUME TokenInv, exchErrs = 0
  PROVE  ~Soon
<1>1. clock \in Nat /\ expires \in Nat /\ wakeAt \in Nat /\ exchSent[Loop] \in Renewal
  BY TokenNumbers DEF TokenInv, TokenTyped
<1>2. CASE renewAt = "sleep" /\ wakeAt + LoopMargin = expires /\ clock <= wakeAt
  BY <1>1, <1>2, TokenNumbers DEF Soon
<1>3. CASE renewAt = "exchange" /\ exchSent[Loop] # -1 /\ exchSent[Loop] + LoopMargin = expires
  <2>1. clock <= exchSent[Loop] + MaxLate
    BY <1>3, TokenNumbers DEF TokenInv, ExchangesTimed
  <2> DEFINE e == exchSent[Loop]
  <2>2. e \in Nat /\ clock <= e + MaxLate /\ e + LoopMargin = expires
    BY <1>1, <1>3, <2>1 DEF Renewal
  <2> HIDE DEF e
  <2> QED BY <1>1, <2>2, TokenNumbers DEF Soon
<1> QED BY <1>2, <1>3 DEF TokenInv, LoopAhead

LEMMA TokenInvStep == TokenInv /\ [TokenNext]_tokenVars => TokenInv'
<1> SUFFICES ASSUME TokenInv, [TokenNext]_tokenVars PROVE TokenInv'
  OBVIOUS
<1>0. TokenTyped /\ ExchangesTimed /\ ReadsFresh /\ LoopAhead /\ ServedFresh
  BY DEF TokenInv
<1> USE TokenNumbers DEF LoopSame, ExchSame
<1>1. CASE TokenTick
  <2>1. /\ clock' = clock + 1
        /\ renewAt # "pause" /\ (renewAt = "sleep" => clock < wakeAt)
        /\ \A p \in Exchangers : exchSent[p] >= 0 => clock < exchSent[p] + MaxLate
        /\ \A c \in Callers : callerAt[c] \notin {"look", "read"}
        /\ UNCHANGED <<expires, callerAt, callFailed, refreshMu, renewAt, wakeAt, served, exchSent, minted, exchErrs>>
    BY <1>1 DEF TokenTick
  <2>2. TokenTyped'
    BY <1>0, <2>1 DEF TokenTyped
  <2>3. ExchangesTimed'
    <3>1. ASSUME NEW p \in Exchangers, exchSent[p] # -1
          PROVE  exchSent[p] <= clock + 1 /\ clock + 1 <= exchSent[p] + MaxLate
      <4>1. exchSent[p] \in Nat /\ clock \in Nat
        BY <1>0, <3>1 DEF TokenTyped, Renewal
      <4>2. exchSent[p] <= clock
        BY <1>0, <3>1 DEF ExchangesTimed
      <4>3. clock < exchSent[p] + MaxLate
        BY <2>1, <4>1
      <4> QED BY <4>1, <4>2, <4>3
    <3> QED BY <1>0, <2>1, <3>1 DEF ExchangesTimed
  <2>4. ReadsFresh' /\ ServedFresh'
    BY <1>0, <2>1 DEF ReadsFresh, ServedFresh
  <2>5. LoopAhead'
    BY <1>0, <2>1 DEF LoopAhead, TokenTyped
  <2> QED BY <2>2, <2>3, <2>4, <2>5 DEF TokenInv
<1>2. ASSUME NEW c \in Callers, Token(c) PROVE TokenInv'
  <2>1. /\ callFailed' = [callFailed EXCEPT ![c] = FALSE] /\ callerAt[c] = "idle"
        /\ UNCHANGED <<clock, expires, refreshMu, renewAt, wakeAt, exchSent, minted, exchErrs>>
        /\ \/ Soon /\ callerAt' = [callerAt EXCEPT ![c] = "lock"] /\ UNCHANGED served
           \/ ~Soon /\ served' = [token |-> expires, at |-> clock, failed |-> FALSE] /\ UNCHANGED callerAt
    BY <1>2 DEF Token, TokenTo
  <2>2. TokenTyped' /\ ExchangesTimed' /\ ReadsFresh'
    BY <1>0, <2>1 DEF TokenTyped, ExchangesTimed, ReadsFresh
  <2>3. ServedFresh'
    <3>1. ~Soon => expires > clock
      BY <1>0 DEF Soon, TokenTyped
    <3> QED BY <1>0, <2>1, <3>1 DEF ServedFresh
  <2>4. LoopAhead'
    <3>1. exchErrs = 0 => ~Soon
      BY LoopKeepsMargin
    <3> QED BY <1>0, <2>1, <3>1 DEF LoopAhead
  <2> QED BY <2>2, <2>3, <2>4 DEF TokenInv
<1>3. ASSUME NEW c \in Callers, LockRefresh(c) \/ LookAgain(c) PROVE TokenInv'
  <2>1. /\ UNCHANGED <<clock, expires, callFailed, renewAt, wakeAt, served, minted, exchErrs>>
        /\ callerAt[c] \in {"lock", "look"}
        /\ \/ callerAt' = [callerAt EXCEPT ![c] = "look"] /\ UNCHANGED exchSent
           \/ ~Soon /\ callerAt' = [callerAt EXCEPT ![c] = "read"] /\ UNCHANGED exchSent
           \/ callerAt' = [callerAt EXCEPT ![c] = "exchange"] /\ exchSent' = [exchSent EXCEPT ![c] = clock]
    BY <1>3 DEF LockRefresh, LookAgain, TokenTo
  <2>2. TokenTyped' /\ ServedFresh'
    BY <1>0, <2>1 DEF TokenTyped, ServedFresh, Renewal
  <2>3. exchErrs # 0
    BY <1>0, <2>1 DEF LoopAhead
  <2>4. ReadsFresh'
    <3>1. ~Soon => expires > clock
      BY <1>0 DEF Soon, TokenTyped
    <3> QED BY <1>0, <2>1, <3>1 DEF ReadsFresh, TokenTyped
  <2>5. ExchangesTimed'
    <3>1. exchSent[c] = -1 /\ minted[c] = -1 /\ clock \in Nat
      BY <1>0, <2>1 DEF ExchangesTimed, TokenTyped
    <3>2. clock <= clock + MaxLate /\ clock # -1
      BY <3>1
    <3> QED BY <1>0, <2>1, <3>1, <3>2 DEF ExchangesTimed, TokenTyped
  <2> QED BY <2>1, <2>2, <2>3, <2>4, <2>5 DEF TokenInv, LoopAhead
<1>4. ASSUME NEW c \in Callers, CallerExchange(c) PROVE TokenInv'
  <2>1. /\ callerAt[c] = "exchange" /\ callerAt' = [callerAt EXCEPT ![c] = "read"]
        /\ exchSent' = [exchSent EXCEPT ![c] = -1] /\ minted' = [minted EXCEPT ![c] = -1]
        /\ UNCHANGED <<clock, refreshMu, served, renewAt, wakeAt>>
        /\ \/ minted[c] >= 0 /\ expires' = minted[c] /\ UNCHANGED <<exchErrs, callFailed>>
           \/ /\ exchErrs' = exchErrs + 1 /\ UNCHANGED expires
              /\ callFailed' = [callFailed EXCEPT ![c] = TRUE]
    BY <1>4 DEF CallerExchange, TokenTo, ExchOver, Stored, Refused
  <2>2. minted[c] >= 0 => minted[c] \in Nat /\ minted[c] > clock
    BY MintedLasts
  <2>3. TokenTyped'
    <3>1. expires' \in Nat /\ exchErrs' \in Nat
      BY <1>0, <2>1, <2>2 DEF TokenTyped
    <3>2. exchSent' \in [Exchangers -> Renewal] /\ minted' \in [Exchangers -> Renewal]
      BY <1>0, <2>1 DEF TokenTyped, Renewal
    <3>3. callFailed' \in [Callers -> BOOLEAN] /\ callerAt' \in [Callers -> {"idle", "lock", "look", "exchange", "read"}]
      BY <1>0, <2>1 DEF TokenTyped
    <3> QED BY <1>0, <2>1, <3>1, <3>2, <3>3 DEF TokenTyped
  <2>4. ExchangesTimed' /\ ServedFresh'
    BY <1>0, <2>1 DEF TokenTyped, ExchangesTimed, ServedFresh
  <2>5. ReadsFresh'
    BY <1>0, <2>1, <2>2 DEF TokenTyped, ReadsFresh
  <2>6. exchErrs # 0 /\ exchErrs' # 0
    BY <1>0, <2>1 DEF LoopAhead, TokenTyped
  <2> QED BY <2>3, <2>4, <2>5, <2>6 DEF TokenInv, LoopAhead
<1>5. ASSUME NEW c \in Callers, ReadToken(c) PROVE TokenInv'
  <2>1. /\ callerAt[c] = "read" /\ callerAt' = [callerAt EXCEPT ![c] = "idle"]
        /\ served' = [token |-> expires, at |-> clock, failed |-> callFailed[c]]
        /\ UNCHANGED <<clock, expires, callFailed, renewAt, wakeAt, exchSent, minted, exchErrs>>
    BY <1>5 DEF ReadToken, TokenTo, Hand
  <2>2. TokenTyped' /\ ExchangesTimed' /\ ReadsFresh'
    BY <1>0, <2>1 DEF TokenTyped, ExchangesTimed, ReadsFresh
  <2>3. served'.token = expires /\ served'.at = clock /\ served'.failed = callFailed[c]
    BY <2>1
  <2>4. ServedFresh'
    BY <1>0, <2>1, <2>3 DEF ReadsFresh, ServedFresh
  <2>5. exchErrs # 0
    BY <1>0, <2>1 DEF LoopAhead
  <2> QED BY <2>1, <2>2, <2>4, <2>5 DEF TokenInv, LoopAhead
<1>6. ASSUME NEW p \in Exchangers, Mint(p) PROVE TokenInv'
  <2>1. /\ exchSent[p] >= 0 /\ minted[p] = -1 /\ minted' = [minted EXCEPT ![p] = clock + Life]
        /\ UNCHANGED <<clock, expires, callerAt, callFailed, renewAt, wakeAt, served, exchSent, exchErrs>>
    BY <1>6 DEF Mint
  <2>2. TokenTyped' /\ ReadsFresh' /\ LoopAhead' /\ ServedFresh'
    BY <1>0, <2>1 DEF TokenTyped, Renewal, ReadsFresh, LoopAhead, ServedFresh
  <2>3. exchSent[p] # -1 /\ exchSent[p] + Life <= clock + Life
    <3>1. exchSent[p] \in Nat /\ clock \in Nat /\ exchSent[p] # -1
      BY <1>0, <2>1 DEF TokenTyped, Renewal
    <3>2. exchSent[p] <= clock
      BY <1>0, <3>1 DEF ExchangesTimed
    <3> QED BY <3>1, <3>2
  <2>4. ExchangesTimed'
    BY <1>0, <2>1, <2>3 DEF ExchangesTimed, TokenTyped
  <2> QED BY <2>2, <2>4 DEF TokenInv
<1>7. CASE LoopWakes
  <2>1. /\ renewAt = "sleep" /\ clock >= wakeAt /\ renewAt' = "exchange"
        /\ exchSent' = [exchSent EXCEPT ![Loop] = clock]
        /\ UNCHANGED <<clock, expires, callerAt, callFailed, wakeAt, minted, served, exchErrs>>
    BY <1>7 DEF LoopWakes
  <2>2. clock \in Nat /\ wakeAt \in Nat /\ expires \in Nat /\ exchSent \in [Exchangers -> Renewal]
    BY <1>0 DEF TokenTyped
  <2>3. exchSent'[Loop] = clock /\ \A p \in Exchangers : p # Loop => exchSent'[p] = exchSent[p]
    BY <2>1, <2>2
  <2>4. TokenTyped' /\ ReadsFresh' /\ ServedFresh'
    BY <1>0, <2>1 DEF TokenTyped, Renewal, ReadsFresh, ServedFresh
  <2>5. ExchangesTimed'
    <3>1. exchSent[Loop] = -1 /\ minted[Loop] = -1
      BY <1>0, <2>1 DEF ExchangesTimed
    <3>2. clock <= clock + MaxLate /\ clock # -1
      BY <2>2
    <3>3. ASSUME NEW p \in Exchangers
          PROVE  /\ exchSent'[p] = -1 => minted'[p] = -1
                 /\ exchSent'[p] # -1 => exchSent'[p] <= clock' /\ clock' <= exchSent'[p] + MaxLate
                 /\ minted'[p] # -1 => exchSent'[p] + Life <= minted'[p]
      <4>1. CASE p = Loop
        BY <2>1, <2>2, <2>3, <3>1, <3>2, <4>1
      <4>2. CASE p # Loop
        BY <1>0, <2>1, <2>3, <4>2 DEF ExchangesTimed
      <4> QED BY <4>1, <4>2
    <3>4. \A c \in Callers : exchSent'[c] = exchSent[c]
      BY <2>3
    <3> QED BY <1>0, <2>1, <3>3, <3>4 DEF ExchangesTimed
  <2>6. LoopAhead'
    <3>1. exchErrs = 0 => clock # -1 /\ clock + LoopMargin = expires
      BY <1>0, <2>1, <2>2 DEF LoopAhead
    <3> QED BY <1>0, <2>1, <2>3, <3>1 DEF LoopAhead
  <2> QED BY <2>4, <2>5, <2>6 DEF TokenInv
<1>8. CASE LoopExchange
  <2>1. /\ renewAt = "exchange"
        /\ exchSent' = [exchSent EXCEPT ![Loop] = -1] /\ minted' = [minted EXCEPT ![Loop] = -1]
        /\ UNCHANGED <<clock, callerAt, callFailed, served>>
        /\ \/ /\ minted[Loop] >= 0 /\ expires' = minted[Loop] /\ UNCHANGED exchErrs
              /\ renewAt' = "sleep" /\ wakeAt' = NextWake(minted[Loop])
           \/ exchErrs' = exchErrs + 1 /\ UNCHANGED <<expires, wakeAt>> /\ renewAt' = "pause"
    BY <1>8 DEF LoopExchange, ExchOver, Stored, Refused
  <2>2. minted[Loop] >= 0 =>
          /\ minted[Loop] \in Nat /\ minted[Loop] > clock
          /\ NextWake(minted[Loop]) + LoopMargin = minted[Loop] /\ clock <= NextWake(minted[Loop])
          /\ NextWake(minted[Loop]) \in Nat
    <3> SUFFICES ASSUME minted[Loop] >= 0
                 PROVE  /\ minted[Loop] \in Nat /\ minted[Loop] > clock
                        /\ NextWake(minted[Loop]) + LoopMargin = minted[Loop] /\ clock <= NextWake(minted[Loop])
                        /\ NextWake(minted[Loop]) \in Nat
      OBVIOUS
    <3>1. minted[Loop] \in Nat /\ clock \in Nat /\ minted[Loop] >= clock + LoopMargin
      BY MintedLasts
    <3> DEFINE m == minted[Loop]
    <3>2. m \in Nat /\ m >= clock + LoopMargin
      BY <3>1
    <3> HIDE DEF m
    <3>3. /\ m > clock /\ NextWake(m) + LoopMargin = m /\ clock <= NextWake(m) /\ NextWake(m) \in Nat
      BY <3>1, <3>2 DEF NextWake
    <3> QED BY <3>2, <3>3 DEF m
  <2>3. TokenTyped'
    BY <1>0, <2>1, <2>2 DEF TokenTyped, Renewal
  <2>4. ExchangesTimed' /\ ServedFresh'
    BY <1>0, <2>1 DEF TokenTyped, ExchangesTimed, ServedFresh
  <2>5. ReadsFresh'
    BY <1>0, <2>1, <2>2 DEF ReadsFresh
  <2>6. LoopAhead'
    <3>1. CASE minted[Loop] >= 0 /\ expires' = minted[Loop] /\ UNCHANGED exchErrs
               /\ renewAt' = "sleep" /\ wakeAt' = NextWake(minted[Loop])
      <4>1. wakeAt' + LoopMargin = expires' /\ clock' <= wakeAt'
        BY <2>1, <2>2, <3>1
      <4>2. exchErrs' = 0 => \A c \in Callers : callerAt'[c] = "idle"
        BY <1>0, <2>1, <3>1 DEF LoopAhead
      <4>3. renewAt' = "sleep"
        BY <3>1
      <4> QED BY <4>1, <4>2, <4>3 DEF LoopAhead
    <3>2. CASE exchErrs' = exchErrs + 1
      BY <1>0, <3>2 DEF LoopAhead, TokenTyped
    <3> QED BY <2>1, <3>1, <3>2
  <2> QED BY <2>3, <2>4, <2>5, <2>6 DEF TokenInv
<1>9. CASE LoopResumes
  <2>1. /\ renewAt = "pause" /\ renewAt' = "sleep" /\ wakeAt' = NextWake(expires)
        /\ UNCHANGED <<clock, expires, callerAt, callFailed, served, exchSent, minted, exchErrs>>
    BY <1>9 DEF LoopResumes
  <2>2. NextWake(expires) \in Nat
    BY <1>0 DEF NextWake, TokenTyped
  <2>3. TokenTyped' /\ ExchangesTimed' /\ ReadsFresh' /\ ServedFresh'
    BY <1>0, <2>1, <2>2 DEF TokenTyped, ExchangesTimed, ReadsFresh, ServedFresh
  <2>4. exchErrs # 0
    BY <1>0, <2>1 DEF LoopAhead
  <2> QED BY <2>1, <2>3, <2>4 DEF TokenInv, LoopAhead
<1>10. CASE UNCHANGED tokenVars
  BY <1>0, <1>10 DEF tokenVars, TokenInv, TokenTyped, ExchangesTimed, ReadsFresh, LoopAhead, ServedFresh
<1> QED BY <1>1, <1>2, <1>3, <1>4, <1>5, <1>6, <1>7, <1>8, <1>9, <1>10 DEF TokenNext, CallerStep

-----------------------------------------------------------------------------
(* Cloudflared.  Children start one after the other, those of this daemon   *)
(* from ours on; the one that runs is cmd, and the waiter of one that runs  *)
(* is still in cmd.Wait.                                                    *)
StartedUpTo(n) == \A k \in Kids : (child[k] # "none") <=> k <= n

CfTyped ==
  /\ cfHost \in {"linux", "windows"} /\ cfAt \in {"idle", "ready", "up", "signal", "wait"}
  /\ child \in [Kids -> {"none", "run", "exited", "waited"}] /\ ours \in Nat
  /\ cmd \in 0..MaxChildren /\ waiter \in [Kids -> {"off", "wait", "read", "done"}]
  /\ spared \subseteq Kids
  /\ \E n \in 0..MaxChildren : StartedUpTo(n) /\ ours <= n + 1

CfCommand ==
  /\ cfAt = "idle" <=> cmd = 0
  /\ cmd # 0 => ours <= cmd
  /\ \A k \in Alive : k >= ours => k = cmd /\ waiter[k] = "wait"
  /\ \A k \in Kids : waiter[k] \in {"wait", "read"} => k = cmd
  /\ cfHost = "linux" => \A k \in Alive : k >= ours

CfListener ==
  /\ cfAt \in {"ready", "up"} /\ cmd \in Alive => openLn = cmd
  /\ cfAt \notin {"ready", "up"} => openLn = 0
  /\ cfAt \in {"ready", "up"} => \A k \in Alive : k < ours => k \in spared

CfInv == CfTyped /\ CfCommand /\ CfListener

LEMMA CfNumbers == MaxChildren \in Nat /\ MaxChildren # 0 /\ \A k \in Kids : k \in Nat /\ k # 0 /\ k \in 0..MaxChildren
  BY CfAssumption DEF Kids

LEMMA NextKidIs ==
  ASSUME CfTyped
  PROVE  /\ NextKid \in Nat /\ ours <= NextKid
         /\ NextKid - 1 \in 0..MaxChildren /\ StartedUpTo(NextKid - 1)
<1> DEFINE n == CHOOSE m \in 0..MaxChildren : \A k \in Kids : (child[k] # "none") <=> k <= m
<1>1. NextKid = 1 + n
  BY DEF NextKid
<1>2. PICK m \in 0..MaxChildren : StartedUpTo(m) /\ ours <= m + 1
  BY DEF CfTyped
<1>3. n \in 0..MaxChildren /\ StartedUpTo(n)
  BY <1>2 DEF StartedUpTo
<1> HIDE DEF n
<1>4. n \in Nat /\ m \in Nat /\ ours \in Nat /\ n <= MaxChildren /\ m <= MaxChildren
  BY <1>2, <1>3, CfNumbers DEF CfTyped
<1>5. n = m
  <2>1. CASE n < m
    <3>1. m \in Kids /\ m <= m /\ ~(m <= n)
      BY <1>4, <2>1, CfNumbers DEF Kids
    <3> QED BY <1>2, <1>3, <3>1 DEF StartedUpTo
  <2>2. CASE m < n
    <3>1. n \in Kids /\ n <= n /\ ~(n <= m)
      BY <1>4, <2>2, CfNumbers DEF Kids
    <3> QED BY <1>2, <1>3, <3>1 DEF StartedUpTo
  <2> QED BY <1>4, <2>1, <2>2
<1>6. 1 + n \in Nat /\ (1 + n) - 1 = n /\ ours <= 1 + n
  BY <1>2, <1>4, <1>5
<1> QED BY <1>1, <1>3, <1>6

(* A step that starts no child keeps their order.                           *)
LEMMA NoneStarted ==
  ASSUME CfTyped, ours' = ours, \A k \in Kids : child'[k] = "none" <=> child[k] = "none"
  PROVE  \E n \in 0..MaxChildren : StartedUpTo(n)' /\ ours' <= n + 1
<1>1. PICK n \in 0..MaxChildren : StartedUpTo(n) /\ ours <= n + 1
  BY DEF CfTyped
<1>2. StartedUpTo(n)'
  BY <1>1 DEF StartedUpTo
<1> QED BY <1>1, <1>2

LEMMA StartKeeps == CfInv /\ startCloudflared => CfInv'
<1> SUFFICES ASSUME CfInv, startCloudflared PROVE CfInv'
  OBVIOUS
<1>0. CfTyped /\ CfCommand /\ CfListener
  BY DEF CfInv
<1>a. PICK kid \in Nat : kid = NextKid
  BY <1>0, NextKidIs
<1>1. kid \in Nat /\ ours <= kid /\ kid - 1 \in 0..MaxChildren /\ StartedUpTo(kid - 1) /\ ours \in Nat
  BY <1>0, <1>a, NextKidIs DEF CfTyped
<1>2. PICK swept \in SUBSET Strays :
        /\ reapStrayCloudflared(swept)
        /\ child' = [j \in Kids |-> IF j = kid THEN "run" ELSE IF j \in swept THEN "waited" ELSE child[j]]
  BY <1>a DEF startCloudflared
<1>3. /\ cfAt = "idle" /\ cfAt' = "ready" /\ cmd = 0 /\ kid \in Kids /\ openLn = 0
      /\ cmd' = kid /\ openLn' = kid /\ waiter' = [waiter EXCEPT ![kid] = "wait"]
      /\ UNCHANGED <<cfHost, ours>>
  BY <1>a DEF startCloudflared, CfTo
<1>4. /\ spared' \in {spared, spared \cup Strays}
      /\ swept = IF cfHost = "windows" THEN Strays \ spared' ELSE {}
  BY <1>2 DEF reapStrayCloudflared
<1>5. child[kid] = "none"
  <2>1. ~(kid <= kid - 1)
    BY <1>1
  <2> QED BY <1>1, <1>3, <2>1 DEF StartedUpTo
<1>6. /\ child \in [Kids -> {"none", "run", "exited", "waited"}] /\ waiter \in [Kids -> {"off", "wait", "read", "done"}]
      /\ spared \subseteq Kids
  BY <1>0 DEF CfTyped
<1>7. /\ child' \in [Kids -> {"none", "run", "exited", "waited"}]
      /\ child'[kid] = "run"
      /\ \A j \in Kids : j # kid => child'[j] = child[j] \/ (j \in swept /\ child'[j] = "waited")
      /\ \A j \in Kids : j # kid /\ j \in swept => child'[j] = "waited"
  BY <1>2, <1>3, <1>6
<1>8. \A k \in Alive : k < ours
  <2>1. \A k \in Alive : k \in Kids /\ (k >= ours => k = 0)
    BY <1>0, <1>3 DEF CfCommand, Alive
  <2> QED BY <1>1, <2>1, CfNumbers
<1>9. \A j \in Alive' : j = kid \/ (j \in Alive /\ j \notin swept)
  BY <1>7 DEF Alive
<1>10. CfTyped'
  <2>1. StartedUpTo(kid)'
    <3>1. ASSUME NEW k \in Kids PROVE (child'[k] # "none") <=> k <= kid
      <4>1. CASE k = kid
        BY <1>1, <1>7, <4>1
      <4>2. CASE k # kid
        <5>1. k <= kid <=> k <= kid - 1
          BY <1>1, <4>2, CfNumbers
        <5>2. (child'[k] # "none") <=> (child[k] # "none")
          <6>1. k \in swept => child[k] = "run"
            BY <1>2 DEF Strays, Alive
          <6> QED BY <1>7, <4>2, <6>1
        <5> QED BY <1>1, <5>1, <5>2 DEF StartedUpTo
      <4> QED BY <4>1, <4>2
    <3> QED BY <3>1, <1>3 DEF StartedUpTo
  <2>2. kid \in 0..MaxChildren /\ ours' <= kid + 1
    BY <1>1, <1>3, CfNumbers
  <2>3. spared' \subseteq Kids
    BY <1>4, <1>6 DEF Strays, Alive
  <2>4. waiter' \in [Kids -> {"off", "wait", "read", "done"}]
    BY <1>3, <1>6
  <2>5. cmd' \in 0..MaxChildren /\ ours' \in Nat /\ cfAt' \in {"idle", "ready", "up", "signal", "wait"} /\ cfHost' \in {"linux", "windows"}
    BY <1>0, <1>1, <1>3, <2>2 DEF CfTyped
  <2> QED BY <1>7, <2>1, <2>2, <2>3, <2>4, <2>5 DEF CfTyped
<1>11. CfCommand'
  <2>1. kid # 0 /\ ours' <= kid /\ kid >= ours'
    BY <1>1, <1>3, CfNumbers
  <2>2. waiter'[kid] = "wait" /\ \A k \in Kids : k # kid => waiter'[k] = waiter[k]
    BY <1>3, <1>6
  <2>3. ASSUME NEW k \in Alive', k # kid PROVE ~(k >= ours')
    BY <1>1, <1>3, <1>8, <1>9, <2>3, CfNumbers DEF Alive
  <2>4. ASSUME NEW k \in Kids, waiter'[k] \in {"wait", "read"} PROVE k = kid
    <3>1. \A j \in Kids : waiter[j] \in {"wait", "read"} => j = 0
      BY <1>0, <1>3 DEF CfCommand
    <3> QED BY <2>2, <2>4, <3>1, CfNumbers
  <2>5. cfHost = "linux" => Alive = {}
    <3>1. cfHost = "linux" => \A k \in Alive : k >= ours /\ k < ours
      BY <1>0, <1>8 DEF CfCommand
    <3>2. \A k \in Alive : k \in Nat
      BY CfNumbers DEF Alive
    <3>3. ASSUME NEW k \in Alive PROVE ~(k >= ours /\ k < ours)
      BY <1>1, <3>2
    <3> QED BY <3>1, <3>3
  <2>6. cfHost' = "linux" => \A k \in Alive' : k >= ours'
    BY <1>3, <1>9, <2>1, <2>5
  <2> QED BY <1>3, <2>1, <2>2, <2>3, <2>4, <2>6 DEF CfCommand
<1>12. CfListener'
  <2>1. ASSUME NEW k \in Alive', k < ours' PROVE k \in spared'
    <3>1. k # kid
      BY <1>1, <1>3, <2>1
    <3>2. k \in Strays /\ k \notin swept
      BY <1>3, <1>9, <2>1, <3>1 DEF Strays
    <3>3. cfHost # "linux"
      <4>1. k \in Nat /\ ~(k >= ours)
        BY <1>1, <1>3, <2>1, <3>2, CfNumbers DEF Strays, Alive
      <4> QED BY <1>0, <3>2, <4>1 DEF CfCommand, Strays
    <3> QED BY <1>0, <1>4, <3>2, <3>3 DEF CfTyped
  <2> QED BY <1>3, <2>1 DEF CfListener
<1> QED BY <1>10, <1>11, <1>12 DEF CfInv

LEMMA KillKeeps == CfInv /\ KillTunnel => CfInv'
<1> SUFFICES ASSUME CfInv, KillTunnel PROVE CfInv'
  OBVIOUS
<1>0. CfTyped /\ CfCommand /\ CfListener
  BY DEF CfInv
<1>a. PICK n \in 0..MaxChildren : n = NextKid - 1
  BY <1>0, NextKidIs
<1>1. n \in 0..MaxChildren /\ StartedUpTo(n) /\ NextKid \in Nat /\ NextKid = n + 1 /\ n \in Nat
  BY <1>0, <1>a, NextKidIs, CfNumbers
<1>2. /\ cfAt' = "idle" /\ cmd' = 0 /\ openLn' = 0 /\ ours' = NextKid
      /\ child' = [k \in Kids |-> IF child[k] = "exited" \/ (k \in Alive /\ k = cmd /\ bindChildLifetime)
                                  THEN "waited" ELSE child[k]]
      /\ waiter' = [k \in Kids |-> "off"] /\ UNCHANGED <<cfHost, spared>>
  BY DEF KillTunnel
<1>3. child \in [Kids -> {"none", "run", "exited", "waited"}]
  BY <1>0 DEF CfTyped
<1>4. /\ child' \in [Kids -> {"none", "run", "exited", "waited"}]
      /\ \A k \in Kids : (child'[k] # "none") <=> (child[k] # "none")
      /\ \A k \in Kids : child'[k] = "run" => child[k] = "run" /\ ~(k = cmd /\ bindChildLifetime)
  BY <1>2, <1>3 DEF Alive
<1>5. StartedUpTo(n)'
  BY <1>1, <1>4 DEF StartedUpTo
<1>6. CfTyped'
  <2>1. ours' <= n + 1 /\ ours' \in Nat
    BY <1>1, <1>2
  <2> QED BY <1>0, <1>1, <1>2, <1>4, <1>5, <2>1, CfNumbers DEF CfTyped
<1>7. \A k \in Alive' : k < ours'
  <2> SUFFICES ASSUME NEW k \in Alive' PROVE k < ours'
    OBVIOUS
  <2>1. k \in Kids /\ child[k] # "none"
    BY <1>4 DEF Alive
  <2>2. k <= n /\ k \in Nat
    BY <1>1, <2>1, CfNumbers DEF StartedUpTo
  <2> QED BY <1>1, <1>2, <2>2
<1>8. \A k \in Alive' : k \in Nat /\ ~(k >= ours')
  BY <1>1, <1>2, <1>7, CfNumbers DEF Alive
<1>9. cfHost' = "linux" => Alive' = {}
  BY <1>0, <1>2, <1>4 DEF CfCommand, Alive, bindChildLifetime
<1>10. CfCommand'
  BY <1>2, <1>8, <1>9 DEF CfCommand
<1>11. CfListener'
  BY <1>2 DEF CfListener
<1> QED BY <1>6, <1>10, <1>11 DEF CfInv

LEMMA CfInvStep == CfInv /\ [CfNext]_cfVars => CfInv'
<1> SUFFICES ASSUME CfInv, [CfNext]_cfVars PROVE CfInv'
  OBVIOUS
<1> USE DEF CfTo, cfChildren, cfOwn, cfWait
<1>0. CfTyped /\ CfCommand /\ CfListener
  BY DEF CfInv
<1>1. CASE startCloudflared
  BY <1>1, StartKeeps
<1>2. CASE KillTunnel
  BY <1>2, KillKeeps
<1>3. CASE waitForReady
  <2>1. CfTyped'
    BY <1>0, <1>3, NoneStarted DEF waitForReady, CfTyped
  <2> QED BY <1>0, <1>3, <2>1 DEF waitForReady, CfInv, CfCommand, CfListener, Alive
<1>4. CASE closeTunnel
  <2>1. CfTyped'
    BY <1>0, <1>4, NoneStarted DEF closeTunnel, CfTyped
  <2> QED BY <1>0, <1>4, <2>1 DEF closeTunnel, CfInv, CfCommand, CfListener, Alive
<1>5. ASSUME NEW k \in Kids, ChildExits(k) PROVE CfInv'
  <2>1. CfTyped'
    BY <1>0, <1>5, NoneStarted DEF ChildExits, CfTyped, Alive
  <2>2. Alive' \subseteq Alive
    BY <1>0, <1>5 DEF ChildExits, CfTyped, Alive
  <2> QED BY <1>0, <1>5, <2>1, <2>2 DEF ChildExits, CfInv, CfCommand, CfListener
<1>6. ASSUME NEW k \in Kids, WaiterReads(k) PROVE CfInv'
  <2>1. CfTyped'
    BY <1>0, <1>6, NoneStarted DEF WaiterReads, CfTyped
  <2>2. Alive' = Alive /\ k \notin Alive /\ \A j \in Kids : j # k => waiter'[j] = waiter[j]
    BY <1>0, <1>6 DEF WaiterReads, CfTyped, Alive
  <2>3. k = cmd
    BY <1>0, <1>6 DEF WaiterReads, CfCommand
  <2>4. \A j \in Alive : j # k /\ j \in Kids
    BY <2>2 DEF Alive
  <2> QED BY <1>0, <1>6, <2>1, <2>2, <2>3, <2>4 DEF WaiterReads, CfInv, CfCommand, CfListener
<1>7. ASSUME NEW k \in Kids, WaiterActs(k) PROVE CfInv'
  <2>1. CfTyped'
    BY <1>0, <1>7, NoneStarted DEF WaiterActs, CfTyped
  <2>2. waiter[k] = "read" /\ k = cmd /\ k \notin Alive
    <3>1. waiter[k] = "read" /\ k = cmd
      BY <1>0, <1>7 DEF WaiterActs, CfCommand
    <3>2. k \in Nat /\ ours \in Nat /\ k >= ours
      BY <1>0, <3>1, CfNumbers DEF CfTyped, CfCommand
    <3> QED BY <1>0, <3>1, <3>2 DEF CfCommand
  <2>3. /\ UNCHANGED <<cfHost, cfAt, child, ours, spared, cmd>>
        /\ waiter' = [waiter EXCEPT ![k] = "done"] /\ openLn' \in {0, openLn}
    BY <1>7 DEF WaiterActs
  <2>4. Alive' = Alive /\ \A j \in Kids : j # k => waiter'[j] = waiter[j]
    BY <1>0, <2>3 DEF CfTyped, Alive
  <2>5. waiter'[k] = "done"
    BY <1>0, <2>3 DEF CfTyped
  <2>6. \A j \in Alive : j # k /\ j \in Kids
    BY <2>2 DEF Alive
  <2>7. CfCommand'
    BY <1>0, <2>3, <2>4, <2>5, <2>6 DEF CfCommand
  <2> QED BY <1>0, <2>1, <2>2, <2>3, <2>4, <2>7 DEF CfInv, CfListener
<1>8. CASE SignalChild
  <2>0. cfAt = "signal" /\ cfAt' = "wait" /\ cmd \in Kids
    BY <1>0, <1>8, CfNumbers DEF SignalChild, CfTyped, CfCommand, Kids
  <2>1. CfTyped'
    BY <1>0, <1>8, <2>0, NoneStarted DEF SignalChild, CfTyped
  <2>2. Alive' \subseteq Alive
    BY <1>0, <1>8, <2>0 DEF SignalChild, CfTyped, Alive
  <2> QED BY <1>0, <1>8, <2>0, <2>1, <2>2 DEF SignalChild, CfInv, CfCommand, CfListener
<1>9. CASE WaitTimesOut
  <2>0. cfAt = "wait" /\ cmd \in Kids
    BY <1>0, <1>9, CfNumbers DEF WaitTimesOut, CfTyped, CfCommand, Kids
  <2>1. CfTyped'
    BY <1>0, <1>9, <2>0, NoneStarted DEF WaitTimesOut, CfTyped
  <2>2. Alive' \subseteq Alive
    BY <1>0, <1>9, <2>0 DEF WaitTimesOut, CfTyped, Alive
  <2> QED BY <1>0, <1>9, <2>0, <2>1, <2>2 DEF WaitTimesOut, CfInv, CfCommand, CfListener
<1>10. CASE WaitDone
  <2>0. cfAt = "wait" /\ cmd \in Kids /\ waiter[cmd] = "done"
    BY <1>0, <1>10, CfNumbers DEF WaitDone, CfTyped, CfCommand, Kids
  <2>1. cmd \notin Alive
    <3>1. cmd \in Nat /\ ours \in Nat /\ cmd >= ours
      BY <1>0, <2>0, CfNumbers DEF CfTyped, CfCommand
    <3> QED BY <1>0, <2>0, <3>1 DEF CfCommand
  <2>2. /\ UNCHANGED <<cfHost, ours, spared, openLn, waiter>> /\ cfAt' = "idle" /\ cmd' = 0
        /\ child' = child
    <3>1. child[cmd] # "run" /\ child \in [Kids -> {"none", "run", "exited", "waited"}]
      BY <1>0, <2>0, <2>1 DEF Alive, CfTyped
    <3>2. child' = [child EXCEPT ![cmd] = IF child[cmd] = "run" /\ cmd \in bound THEN "exited" ELSE child[cmd]]
      BY <1>10 DEF WaitDone, Closed
    <3> QED BY <1>10, <3>1, <3>2 DEF WaitDone, Closed
  <2>3. CfTyped'
    BY <1>0, <2>2, NoneStarted, CfNumbers DEF CfTyped
  <2>4. Alive' = Alive
    BY <2>2 DEF Alive
  <2>5. \A k \in Kids : waiter[k] \notin {"wait", "read"}
    BY <1>0, <2>0 DEF CfCommand
  <2>6. \A k \in Alive : ~(k >= ours)
    BY <1>0, <2>1 DEF CfCommand
  <2>7. CfCommand'
    BY <1>0, <2>2, <2>4, <2>5, <2>6 DEF CfCommand
  <2> QED BY <1>0, <2>0, <2>2, <2>3, <2>7 DEF CfInv, CfListener
<1>11. CASE UNCHANGED cfVars
  <2>1. CfTyped'
    BY <1>0, <1>11, NoneStarted DEF cfVars, CfTyped
  <2> QED BY <1>0, <1>11, <2>1 DEF cfVars, CfInv, CfCommand, CfListener, Alive
<1> QED BY <1>1, <1>2, <1>3, <1>4, <1>5, <1>6, <1>7, <1>8, <1>9, <1>10, <1>11 DEF CfNext

LEMMA CfStarts == CfInit => CfInv
<1> SUFFICES ASSUME CfInit PROVE CfInv
  OBVIOUS
<1>1. StartedUpTo(0) /\ 0 \in 0..MaxChildren /\ 1 <= 0 + 1
  BY CfNumbers DEF CfInit, StartedUpTo
<1>2. Alive = {}
  BY DEF CfInit, Alive
<1> QED BY <1>1, <1>2, CfNumbers DEF CfInit, CfInv, CfTyped, CfCommand, CfListener

-----------------------------------------------------------------------------
LEMMA TokenStarts == TokenInit => TokenInv
<1> SUFFICES ASSUME TokenInit PROVE TokenInv
  OBVIOUS
<1>1. /\ clock = 0 /\ expires = Life /\ renewAt = "sleep" /\ wakeAt = Life - LoopMargin /\ exchErrs = 0
      /\ callerAt = [c \in Callers |-> "idle"] /\ callFailed = [c \in Callers |-> FALSE]
      /\ exchSent = [p \in Exchangers |-> -1] /\ minted = [p \in Exchangers |-> -1]
      /\ served = [token |-> Life, at |-> 0, failed |-> FALSE]
  BY DEF TokenInit
<1>2. wakeAt \in Nat /\ wakeAt + LoopMargin = expires /\ clock <= wakeAt /\ Life > 0 /\ Life \in Nat
  BY <1>1, TokenNumbers
<1>3. TokenTyped
  BY <1>1, <1>2 DEF TokenTyped, Renewal
<1>4. ExchangesTimed
  BY <1>1, TokenNumbers DEF ExchangesTimed
<1>5. ReadsFresh /\ LoopAhead
  BY <1>1, <1>2 DEF ReadsFresh, LoopAhead
<1>6. ServedFresh
  BY <1>1, <1>2 DEF ServedFresh
<1> QED BY <1>3, <1>4, <1>5, <1>6 DEF TokenInv

LEMMA CfSafe == CfInv => OneClient /\ OwnListener /\ CloseLeavesNothing
<1> SUFFICES ASSUME CfInv PROVE OneClient /\ OwnListener /\ CloseLeavesNothing
  OBVIOUS
<1>1. CfTyped /\ CfCommand /\ CfListener
  BY DEF CfInv
<1>2. \A k \in Alive : k \in Nat /\ ours \in Nat /\ k # 0
  BY <1>1, CfNumbers DEF CfTyped, Alive
<1>3. \A k \in Alive : k >= ours \/ k < ours
  BY <1>2
<1>4. OneClient
  BY <1>1, <1>3 DEF CfCommand, CfListener, OneClient
<1>5. OwnListener
  BY <1>1 DEF CfListener, OwnListener
<1>6. CloseLeavesNothing
  BY <1>1, <1>2, <1>3 DEF CfCommand, CfListener, CloseLeavesNothing
<1> QED BY <1>4, <1>5, <1>6

(* No API call is sent with an expired token unless its own exchange has    *)
(* just failed, the loop renews it before any caller has to as long as no   *)
(* exchange fails, one tunnel client at most is left to the daemon, its     *)
(* listener is its own, and close leaves neither: for any number of calls,  *)
(* children, failed exchanges, refused signals and restarts.                *)
THEOREM TokenAndTunnelStaySafe == HostSpec => TokenAndTunnelSafe
<1>1. HostStart => TokenInv /\ CfInv
  BY TokenStarts, CfStarts DEF HostStart, HostInit
<1>2. TokenInv /\ CfInv /\ [HostNext]_<<focus, hostVars>> => (TokenInv /\ CfInv)'
  <2>1. [HostNext]_<<focus, hostVars>> => [TokenNext]_tokenVars /\ [CfNext]_cfVars
    BY DEF HostNext, HostFrozen, HostMoves, hostVars
  <2> QED BY <2>1, TokenInvStep, CfInvStep
<1>3. TokenInv /\ CfInv =>
        /\ focus = "token" => ServedFresh /\ LoopRenewsFirst
        /\ focus = "tunnel" => OneClient /\ OwnListener /\ CloseLeavesNothing
  BY CfSafe DEF TokenInv, LoopAhead, LoopRenewsFirst
<1> QED BY <1>1, <1>2, <1>3, PTL DEF HostSpec, TokenAndTunnelSafe

-----------------------------------------------------------------------------
(* Upgrade.  Where the upgrades are: no two use the staging directory, or   *)
(* swap, at once unless the histories say so, and none is busy while the    *)
(* daemon is down.                                                          *)
UpgradeRuns ==
  /\ upAt \in [Upgrades -> {"new", "over"} \cup UpPhases \cup Supervising]
  /\ ~mixed => \A u, v \in Upgrades : upAt[u] \in Staging /\ upAt[v] \in Staging => u = v
  /\ ~crossed => \A u, v \in Upgrades : upAt[u] \in Swapping /\ upAt[v] \in Swapping => u = v
  /\ daemon = "down" => \A u \in Upgrades : upAt[u] \in {"new", "over"}

(* What an upgrade that is alone has staged is known by how far it has come. *)
StagedKnown ==
  ~mixed => \A u \in Upgrades :
    /\ upAt[u] = "extract" => archive = "good"
    /\ upAt[u] = "probe" => stagedBin \in {"new", "wrong"}
    /\ upAt[u] \in {"swap", "moving", "aside"} => stagedBin = "new"

(* No binary is at the install path only between two renames, while the     *)
(* daemon is down after a death there, or once a rollback failed; and one   *)
(* that swaps alone has its backup between the two.                         *)
SwapHalfway ==
  /\ ~crossed => \A u \in Upgrades : upAt[u] \in {"aside", "rollback"} => bak # "none"
  /\ bin = "none" => stranded \/ daemon = "down" \/ \E u \in Upgrades : upAt[u] \in {"aside", "rollback"}

(* An unspoilt drain still has its cordon, and past it no job is claimed.   *)
DrainKept ==
  /\ didCordon \subseteq Upgrades /\ job \in {"none", "claimed", "running"}
  /\ \A u \in didCordon : upAt[u] # "new"
  /\ \A u \in didCordon \ spoilt : cordoned /\ (upAt[u] \in Installing => job = "none")

UpgradeInv == UpgradeRuns /\ StagedKnown /\ SwapHalfway /\ SwapRecoverable /\ DrainKept

LEMMA UpgradeStarts == UpgradeInit => UpgradeInv
<1> SUFFICES ASSUME UpgradeInit PROVE UpgradeInv
  OBVIOUS
<1>1. UpgradeRuns
  BY DEF UpgradeInit, UpgradeRuns, Staging, Swapping
<1>2. StagedKnown /\ SwapHalfway /\ SwapRecoverable /\ DrainKept
  BY DEF UpgradeInit, StagedKnown, SwapHalfway, SwapRecoverable, DrainKept
<1> QED BY <1>1, <1>2 DEF UpgradeInv

(* A step of an upgrade moves its own place only, and only the making of    *)
(* the directory and the removal of the backup enter what the histories     *)
(* watch.                                                                   *)
LEMMA UpMoves ==
  ASSUME UpgradeRuns, NEW u \in Upgrades, daemon # "down", UNCHANGED daemon,
         NEW to \in {"over"} \cup UpPhases \cup Supervising, upAt' = [upAt EXCEPT ![u] = to],
         (mixed \/ (upAt[u] \notin Staging /\ to \in Staging /\ OthersIn(u, Staging))) => mixed',
         (crossed \/ (upAt[u] \notin Swapping /\ to \in Swapping /\ OthersIn(u, Swapping))) => crossed'
  PROVE  /\ UpgradeRuns'
         /\ upAt'[u] = to /\ \A v \in Upgrades : v # u => upAt'[v] = upAt[v]
<1>1. upAt'[u] = to /\ \A v \in Upgrades : v # u => upAt'[v] = upAt[v]
  BY DEF UpgradeRuns
<1>2. upAt' \in [Upgrades -> {"new", "over"} \cup UpPhases \cup Supervising]
  BY DEF UpgradeRuns
<1>3. ~mixed' => \A v, w \in Upgrades : upAt'[v] \in Staging /\ upAt'[w] \in Staging => v = w
  BY <1>1 DEF UpgradeRuns, OthersIn
<1>4. ~crossed' => \A v, w \in Upgrades : upAt'[v] \in Swapping /\ upAt'[w] \in Swapping => v = w
  BY <1>1 DEF UpgradeRuns, OthersIn
<1> QED BY <1>1, <1>2, <1>3, <1>4 DEF UpgradeRuns

(* The drains, over a step of an upgrade that leaves the jobs alone.        *)
LEMMA DrainStep ==
  ASSUME UpgradeInv, NEW u \in Upgrades, NEW to \in {"over"} \cup UpPhases \cup Supervising, UNCHANGED job,
         upAt[u] # "new", upAt'[u] = to, \A v \in Upgrades : v # u => upAt'[v] = upAt[v],
         (to = "over" /\ undrain(u)) \/ (UNCHANGED <<didCordon, cordoned, spoilt>> /\ upAt[u] \in Installing)
  PROVE  DrainKept'
<1>1. DrainKept /\ to # "new"
  BY DEF UpgradeInv, UpPhases, Supervising, Staging, Swapping
<1>2. CASE to = "over" /\ undrain(u)
  <2>1. didCordon' = didCordon \ {u} /\ (u \notin didCordon => UNCHANGED <<cordoned, spoilt>>)
        /\ (u \in didCordon => didCordon' \subseteq spoilt')
    BY <1>2 DEF undrain
  <2> QED BY <1>1, <2>1 DEF DrainKept
<1>3. CASE UNCHANGED <<didCordon, cordoned, spoilt>> /\ upAt[u] \in Installing
  BY <1>1, <1>3 DEF DrainKept
<1> QED BY <1>2, <1>3

LEMMA UpgradeInvStep == UpgradeInv /\ [UpgradeNext]_upgradeVars => UpgradeInv'
<1> SUFFICES ASSUME UpgradeInv, [UpgradeNext]_upgradeVars PROVE UpgradeInv'
  OBVIOUS
<1>0. UpgradeRuns /\ StagedKnown /\ SwapHalfway /\ SwapRecoverable /\ DrainKept
  BY DEF UpgradeInv
<1>1. ASSUME NEW u \in Upgrades, Run(u) PROVE UpgradeInv'
  <2>1. /\ upAt[u] = "new" /\ daemon # "down"
        /\ UNCHANGED <<archive, stagedBin, bin, bak, stranded, daemon, job, mixed, crossed, spoilt>>
    BY <1>1 DEF Run, upFiles, upGhosts
  <2>2. PICK to \in {"over", "stage", "drain"} :
          /\ upAt' = [upAt EXCEPT ![u] = to]
          /\ to # "drain" => UNCHANGED <<didCordon, cordoned>>
          /\ to = "drain" => didCordon' = didCordon \cup {u} /\ cordoned'
    BY <1>1 DEF Run, UpTo
  <2>3. to \in {"over"} \cup UpPhases /\ to \notin Staging /\ to \notin Swapping
    BY DEF UpPhases, Staging, Swapping
  <2>4. UpgradeRuns' /\ upAt'[u] = to /\ \A v \in Upgrades : v # u => upAt'[v] = upAt[v]
    BY <1>0, <2>1, <2>2, <2>3, UpMoves
  <2>5. StagedKnown' /\ SwapHalfway' /\ SwapRecoverable'
    BY <1>0, <2>1, <2>4 DEF StagedKnown, SwapHalfway, SwapRecoverable
  <2>6. "drain" \notin Installing
    BY DEF Installing, Supervising
  <2>7. DrainKept'
    BY <1>0, <2>1, <2>2, <2>4, <2>6 DEF DrainKept
  <2> QED BY <2>4, <2>5, <2>7 DEF UpgradeInv
<1>2. ASSUME NEW u \in Upgrades, waitDrain(u) PROVE UpgradeInv'
  <2>1. /\ upAt[u] = "drain" /\ upAt' = [upAt EXCEPT ![u] = "stage"] /\ job # "running"
        /\ spoilt' = IF job = "claimed" THEN spoilt \cup {u} ELSE spoilt
        /\ UNCHANGED <<archive, stagedBin, bin, bak, stranded, daemon, job, mixed, crossed, didCordon, cordoned>>
    BY <1>2 DEF waitDrain, UpTo, upFiles
  <2>2. "stage" \in UpPhases /\ "stage" \notin Staging /\ "stage" \notin Swapping
    BY DEF UpPhases, Staging, Swapping
  <2>3. daemon # "down"
    BY <1>0, <2>1 DEF UpgradeRuns
  <2>4. UpgradeRuns' /\ upAt'[u] = "stage" /\ \A v \in Upgrades : v # u => upAt'[v] = upAt[v]
    BY <1>0, <2>1, <2>2, <2>3, UpMoves
  <2>5. StagedKnown' /\ SwapHalfway' /\ SwapRecoverable'
    BY <1>0, <2>1, <2>4 DEF StagedKnown, SwapHalfway, SwapRecoverable
  <2>6. DrainKept'
    BY <1>0, <2>1, <2>4 DEF DrainKept
  <2> QED BY <2>4, <2>5, <2>6 DEF UpgradeInv
(* The rest of an upgrade, by what it does to the files.                    *)
<1>3. ASSUME NEW u \in Upgrades, upAt[u] \in UpPhases \cup Supervising,
             NEW to \in {"over"} \cup UpPhases \cup Supervising, upAt' = [upAt EXCEPT ![u] = to],
             UNCHANGED <<daemon, job>>,
             (to = "over" /\ undrain(u)) \/ (UNCHANGED <<didCordon, cordoned, spoilt>> /\ upAt[u] \in Installing),
             (mixed \/ (upAt[u] \notin Staging /\ to \in Staging /\ OthersIn(u, Staging))) => mixed',
             (crossed \/ (upAt[u] \notin Swapping /\ to \in Swapping /\ OthersIn(u, Swapping))) => crossed',
             StagedKnown', SwapHalfway', SwapRecoverable'
      PROVE  UpgradeInv'
  <2>1. upAt[u] \notin {"new", "over"}
    BY <1>3 DEF UpPhases, Supervising, Staging, Swapping
  <2>2. daemon # "down"
    BY <1>0, <2>1 DEF UpgradeRuns
  <2>3. UpgradeRuns' /\ upAt'[u] = to /\ \A v \in Upgrades : v # u => upAt'[v] = upAt[v]
    BY <1>0, <1>3, <2>2, UpMoves
  <2>4. DrainKept'
    BY <1>3, <2>1, <2>3, DrainStep
  <2> QED BY <1>3, <2>3, <2>4 DEF UpgradeInv
(* Where an upgrade is alone with what it has staged, or swaps alone.       *)
<1>4. ASSUME NEW u \in Upgrades, upAt[u] \in Staging, ~mixed
      PROVE  \A v \in Upgrades : v # u => upAt[v] \notin Staging
  BY <1>0, <1>4 DEF UpgradeRuns
<1>5. ASSUME NEW u \in Upgrades, upAt[u] \in Swapping, ~crossed
      PROVE  \A v \in Upgrades : v # u => upAt[v] \notin Swapping
  BY <1>0, <1>5 DEF UpgradeRuns
<1>6. {"download", "verify", "extract", "probe", "swap", "moving", "aside", "rollback", "leave"} \subseteq Staging
      /\ {"moving", "aside", "rollback"} \subseteq Swapping /\ Swapping \subseteq Staging /\ Staging \subseteq UpPhases
      /\ Staging \subseteq Installing /\ "stage" \in Installing /\ "stage" \in UpPhases /\ "drain" \in UpPhases
      /\ {"over", "stage", "drain", "delay", "restart", "watch"} \cap Staging = {} /\ Supervising \subseteq Installing
      /\ {"download", "verify", "extract", "probe", "swap", "leave"} \cap Swapping = {}
      /\ {"delay", "restart", "watch"} \subseteq Supervising
  BY DEF Staging, Swapping, UpPhases, Installing, Supervising
<1>7. ASSUME NEW u \in Upgrades, Aborted(u) \/ MoveAsideFails(u) PROVE UpgradeInv'
  <2>1. /\ upAt[u] \in {"drain", "stage", "download", "verify", "extract", "probe", "swap", "moving"}
        /\ upAt' = [upAt EXCEPT ![u] = "over"] /\ undrain(u)
        /\ upAt[u] \notin Staging => UNCHANGED <<archive, stagedBin>>
        /\ UNCHANGED <<bin, bak, stranded, daemon, job, mixed, crossed>>
    BY <1>7 DEF Aborted, MoveAsideFails, Fail
  <2>2. upAt'[u] = "over" /\ \A v \in Upgrades : v # u => upAt'[v] = upAt[v]
    BY <1>0, <2>1 DEF UpgradeRuns
  <2>3. StagedKnown'
    <3>1. CASE upAt[u] \in Staging
      BY <1>0, <1>4, <1>6, <2>1, <2>2, <3>1 DEF StagedKnown
    <3>2. CASE upAt[u] \notin Staging
      BY <1>0, <2>1, <2>2, <3>2 DEF StagedKnown
    <3> QED BY <3>1, <3>2
  <2>4. SwapHalfway' /\ SwapRecoverable'
    BY <1>0, <2>1, <2>2 DEF SwapHalfway, SwapRecoverable
  <2> QED BY <1>3, <1>6, <2>1, <2>3, <2>4
<1>8. ASSUME NEW u \in Upgrades, MakeStage(u) PROVE UpgradeInv'
  <2>1. /\ upAt[u] = "stage" /\ upAt' = [upAt EXCEPT ![u] = "download"] /\ mixed' = (mixed \/ OthersIn(u, Staging))
        /\ UNCHANGED <<stagedBin, bin, bak, stranded, daemon, job, crossed, didCordon, cordoned, spoilt>>
    BY <1>8 DEF MakeStage, UpTo
  <2>2. upAt'[u] = "download" /\ \A v \in Upgrades : v # u => upAt'[v] = upAt[v]
    BY <1>0, <2>1 DEF UpgradeRuns
  <2>3. StagedKnown'
    BY <1>0, <1>6, <2>1, <2>2 DEF StagedKnown, OthersIn
  <2>4. SwapHalfway' /\ SwapRecoverable'
    BY <1>0, <2>1, <2>2 DEF SwapHalfway, SwapRecoverable
  <2> QED BY <1>3, <1>6, <2>1, <2>3, <2>4
<1>9. ASSUME NEW u \in Upgrades, downloadFile(u) \/ verifyChecksum(u) \/ extractBinary(u) \/ probeVersion(u)
      PROVE  UpgradeInv'
  <2>1. /\ upAt[u] \in {"download", "verify", "extract", "probe"}
        /\ UNCHANGED <<bin, bak, stranded, daemon, job, mixed, crossed, didCordon, cordoned, spoilt>>
    BY <1>9 DEF downloadFile, verifyChecksum, extractBinary, probeVersion, UpTo, upFiles, upGhosts
  <2>2. PICK to \in {"verify", "extract", "probe", "swap"} :
          /\ upAt' = [upAt EXCEPT ![u] = to]
          /\ to = "extract" => archive' = "good"
          /\ to = "probe" /\ ~mixed => stagedBin' \in {"new", "wrong"}
          /\ to = "swap" /\ ~mixed => stagedBin' = "new"
    <3>1. extractBinary(u) /\ ~mixed => archive = "good"
      BY <1>0 DEF extractBinary, StagedKnown, UpTo
    <3>2. probeVersion(u) /\ ~mixed => stagedBin = "new" /\ UNCHANGED stagedBin
      BY <1>0 DEF probeVersion, StagedKnown, UpTo, upFiles
    <3> QED BY <1>9, <3>1, <3>2 DEF downloadFile, verifyChecksum, extractBinary, probeVersion, UpTo, upFiles
  <2>3. upAt'[u] = to /\ \A v \in Upgrades : v # u => upAt'[v] = upAt[v]
    BY <1>0, <2>2 DEF UpgradeRuns
  <2>4. StagedKnown'
    BY <1>4, <1>6, <2>1, <2>2, <2>3 DEF StagedKnown
  <2>5. SwapHalfway' /\ SwapRecoverable'
    BY <1>0, <2>1, <2>3 DEF SwapHalfway, SwapRecoverable
  <2>6. to \in UpPhases /\ to \notin Swapping /\ upAt[u] \in Staging
    BY <1>6, <2>1
  <2>7. /\ (crossed \/ (upAt[u] \notin Swapping /\ to \in Swapping /\ OthersIn(u, Swapping))) => crossed'
        /\ (mixed \/ (upAt[u] \notin Staging /\ to \in Staging /\ OthersIn(u, Staging))) => mixed'
    BY <2>1, <2>6
  <2> QED BY <1>3, <1>6, <2>1, <2>2, <2>4, <2>5, <2>6, <2>7
<1>10. ASSUME NEW u \in Upgrades, RemoveBackup(u) PROVE UpgradeInv'
  <2>1. /\ upAt[u] = "swap" /\ upAt' = [upAt EXCEPT ![u] = "moving"] /\ crossed' = (crossed \/ OthersIn(u, Swapping))
        /\ bak' \in {"none", bak}
        /\ UNCHANGED <<stagedBin, archive, bin, stranded, daemon, job, mixed, didCordon, cordoned, spoilt>>
    BY <1>10 DEF RemoveBackup, UpTo
  <2>2. upAt'[u] = "moving" /\ \A v \in Upgrades : v # u => upAt'[v] = upAt[v]
    BY <1>0, <2>1 DEF UpgradeRuns
  <2>3. StagedKnown'
    BY <1>0, <2>1, <2>2 DEF StagedKnown
  <2>4. ~crossed' => \A v \in Upgrades : upAt[v] \notin {"aside", "rollback"}
    BY <1>6, <2>1 DEF OthersIn
  <2>5. daemon # "down"
    BY <1>0, <2>1 DEF UpgradeRuns
  <2>6. SwapHalfway'
    BY <1>0, <2>1, <2>2, <2>4 DEF SwapHalfway
  <2>7. SwapRecoverable'
    BY <1>0, <2>1, <2>4, <2>5 DEF SwapRecoverable, SwapHalfway
  <2> QED BY <1>3, <1>6, <2>1, <2>3, <2>6, <2>7
<1>11. ASSUME NEW u \in Upgrades, swapBinary(u) PROVE UpgradeInv'
  <2>1. /\ upAt[u] = "moving" /\ upAt' = [upAt EXCEPT ![u] = "aside"] /\ bin # "none" /\ bak' = bin /\ bin' = "none"
        /\ UNCHANGED <<stagedBin, archive, stranded, daemon, job, mixed, crossed, didCordon, cordoned, spoilt>>
    BY <1>11 DEF swapBinary, UpTo, upGhosts
  <2>2. upAt'[u] = "aside" /\ \A v \in Upgrades : v # u => upAt'[v] = upAt[v]
    BY <1>0, <2>1 DEF UpgradeRuns
  <2>3. StagedKnown' /\ SwapHalfway' /\ SwapRecoverable'
    BY <1>0, <2>1, <2>2 DEF StagedKnown, SwapHalfway, SwapRecoverable
  <2> QED BY <1>3, <1>6, <2>1, <2>3
<1>12. ASSUME NEW u \in Upgrades, MoveIn(u) PROVE UpgradeInv'
  <2>1. /\ upAt[u] = "aside" /\ upAt' = [upAt EXCEPT ![u] = "leave"]
        /\ stagedBin # "none" /\ bin' = stagedBin /\ stagedBin' = "none"
        /\ UNCHANGED <<archive, bak, stranded, daemon, job, mixed, crossed, didCordon, cordoned, spoilt>>
    BY <1>12 DEF MoveIn, UpTo, upGhosts
  <2>2. upAt'[u] = "leave" /\ \A v \in Upgrades : v # u => upAt'[v] = upAt[v]
    BY <1>0, <2>1 DEF UpgradeRuns
  <2>3. StagedKnown'
    BY <1>4, <1>6, <2>1, <2>2 DEF StagedKnown
  <2>4. SwapHalfway'
    BY <1>0, <2>1, <2>2 DEF SwapHalfway
  <2>5. SwapRecoverable'
    BY <1>0, <2>1 DEF SwapRecoverable, StagedKnown
  <2> QED BY <1>3, <1>6, <2>1, <2>3, <2>4, <2>5
<1>13. ASSUME NEW u \in Upgrades, MoveInFails(u) PROVE UpgradeInv'
  <2>1. /\ upAt[u] = "aside" /\ upAt' = [upAt EXCEPT ![u] = "rollback"]
        /\ UNCHANGED <<archive, stagedBin, bin, bak, stranded, daemon, job, mixed, crossed, didCordon, cordoned, spoilt>>
    BY <1>13 DEF MoveInFails, UpTo, upFiles, upGhosts
  <2>2. upAt'[u] = "rollback" /\ \A v \in Upgrades : v # u => upAt'[v] = upAt[v]
    BY <1>0, <2>1 DEF UpgradeRuns
  <2>3. StagedKnown' /\ SwapHalfway' /\ SwapRecoverable'
    BY <1>0, <2>1, <2>2 DEF StagedKnown, SwapHalfway, SwapRecoverable
  <2> QED BY <1>3, <1>6, <2>1, <2>3
<1>14. ASSUME NEW u \in Upgrades, Rollback(u) PROVE UpgradeInv'
  <2>1. /\ upAt[u] = "rollback" /\ upAt' = [upAt EXCEPT ![u] = "over"] /\ undrain(u)
        /\ UNCHANGED <<daemon, job, mixed, crossed>>
    BY <1>14 DEF Rollback, Fail
  <2>2. \/ bak # "none" /\ bin' = bak /\ bak' = "none" /\ UNCHANGED stranded
        \/ stranded' = TRUE /\ UNCHANGED <<bin, bak>>
    BY <1>14 DEF Rollback
  <2>3. upAt'[u] = "over" /\ \A v \in Upgrades : v # u => upAt'[v] = upAt[v]
    BY <1>0, <2>1 DEF UpgradeRuns
  <2>4. StagedKnown'
    BY <1>4, <1>6, <2>1, <2>3 DEF StagedKnown
  <2>5. ~crossed => \A v \in Upgrades : upAt'[v] \notin {"aside", "rollback"}
    BY <1>5, <1>6, <2>1, <2>3
  <2>6. SwapHalfway' /\ SwapRecoverable'
    BY <1>0, <2>1, <2>2, <2>5 DEF SwapHalfway, SwapRecoverable
  <2> QED BY <1>3, <1>6, <2>1, <2>4, <2>6
<1>15. ASSUME NEW u \in Upgrades, LeaveStage(u) PROVE UpgradeInv'
  <2>1. /\ upAt[u] = "leave" /\ upAt' = [upAt EXCEPT ![u] = "delay"]
        /\ UNCHANGED <<bin, bak, stranded, daemon, job, mixed, crossed, didCordon, cordoned, spoilt>>
    BY <1>15 DEF LeaveStage, UpTo, upGhosts
  <2>2. upAt'[u] = "delay" /\ \A v \in Upgrades : v # u => upAt'[v] = upAt[v]
    BY <1>0, <2>1 DEF UpgradeRuns
  <2>3. StagedKnown'
    BY <1>4, <1>6, <2>1, <2>2 DEF StagedKnown
  <2>4. SwapHalfway' /\ SwapRecoverable'
    BY <1>0, <2>1, <2>2 DEF SwapHalfway, SwapRecoverable
  <2>5. "delay" \notin Staging /\ "delay" \notin Swapping /\ "delay" \in Supervising /\ upAt[u] \in Installing
        /\ upAt[u] \in UpPhases
    BY <1>6, <2>1
  <2> QED BY <1>3, <2>1, <2>3, <2>4, <2>5
<1>16. ASSUME NEW u \in Upgrades, superviseRestart(u) \/ triggerRestart(u) \/ waitUnlessShutdown(u) PROVE UpgradeInv'
  <2>1. /\ upAt[u] \in {"delay", "restart", "watch"}
        /\ UNCHANGED <<archive, stagedBin, bin, bak, stranded, daemon, job, mixed, crossed>>
    BY <1>16 DEF superviseRestart, triggerRestart, waitUnlessShutdown, UpTo, upFiles, upGhosts
  <2>2. PICK to \in {"restart", "watch", "over"} :
          /\ upAt' = [upAt EXCEPT ![u] = to]
          /\ (to = "over" /\ undrain(u)) \/ UNCHANGED <<didCordon, cordoned, spoilt>>
    BY <1>16 DEF superviseRestart, triggerRestart, waitUnlessShutdown, UpTo, upGhosts
  <2>3. upAt'[u] = to /\ \A v \in Upgrades : v # u => upAt'[v] = upAt[v]
    BY <1>0, <2>2 DEF UpgradeRuns
  <2>4. StagedKnown' /\ SwapHalfway' /\ SwapRecoverable'
    BY <1>0, <2>1, <2>3 DEF StagedKnown, SwapHalfway, SwapRecoverable
  <2>5. to \notin Staging /\ to \notin Swapping /\ to \in {"over"} \cup Supervising /\ upAt[u] \in Installing
        /\ upAt[u] \in Supervising
    BY <1>6, <2>1
  <2> QED BY <1>3, <2>1, <2>2, <2>4, <2>5
<1>17. CASE RestartTakes \/ DaemonDies
  <2>1. /\ daemon' = "down" /\ didCordon' = {} /\ job' = "none" /\ UNCHANGED <<bin, bak, stranded, mixed, crossed>>
        /\ upAt' = [u \in Upgrades |-> IF upAt[u] = "new" THEN "new" ELSE "over"]
    BY <1>17 DEF RestartTakes, DaemonDies, DaemonGoes, upFiles
  <2>2. \A u \in Upgrades : upAt'[u] \in {"new", "over"} /\ upAt'[u] \notin Staging /\ upAt'[u] \notin Swapping
    BY <2>1 DEF Staging, Swapping
  <2>3. UpgradeRuns'
    BY <2>1, <2>2 DEF UpgradeRuns
  <2>4. StagedKnown' /\ SwapHalfway'
    BY <2>1, <2>2 DEF StagedKnown, SwapHalfway
  <2>5. SwapRecoverable' /\ DrainKept'
    BY <1>0, <2>1 DEF SwapRecoverable, DrainKept
  <2> QED BY <2>3, <2>4, <2>5 DEF UpgradeInv
<1>18. CASE UpBoots
  <2>1. /\ daemon = "down" /\ bin # "none" /\ daemon' = bin
        /\ UNCHANGED <<upAt, archive, stagedBin, bin, bak, stranded, mixed, crossed, didCordon, cordoned, spoilt, job>>
    BY <1>18 DEF UpBoots, upFiles, upGhosts
  <2>2. UpgradeRuns'
    BY <1>0, <2>1 DEF UpgradeRuns
  <2>3. StagedKnown' /\ SwapHalfway' /\ SwapRecoverable'
    BY <1>0, <2>1 DEF StagedKnown, SwapHalfway, SwapRecoverable
  <2>4. DrainKept'
    BY <1>0, <2>1 DEF DrainKept
  <2> QED BY <2>2, <2>3, <2>4 DEF UpgradeInv
<1>19. CASE Cordon \/ Uncordon \/ ClaimJob \/ JobStarts \/ JobEnds
  <2>1. UNCHANGED <<upAt, archive, stagedBin, bin, bak, stranded, daemon, mixed, crossed, didCordon>>
    BY <1>19 DEF Cordon, Uncordon, ClaimJob, JobStarts, JobEnds, upFiles, upGhosts
  <2>2. UpgradeRuns'
    BY <1>0, <2>1 DEF UpgradeRuns
  <2>3. StagedKnown' /\ SwapHalfway' /\ SwapRecoverable'
    BY <1>0, <2>1 DEF StagedKnown, SwapHalfway, SwapRecoverable
  <2>4. DrainKept'
    <3>1. CASE Cordon \/ Uncordon
      BY <1>0, <2>1, <3>1 DEF Cordon, Uncordon, DrainKept, upGhosts
    <3>2. CASE ClaimJob
      BY <1>0, <2>1, <3>2 DEF ClaimJob, DrainKept, upGhosts
    <3>3. CASE JobStarts
      BY <1>0, <2>1, <3>3 DEF JobStarts, DrainKept, upGhosts
    <3>4. CASE JobEnds
      BY <1>0, <2>1, <3>4 DEF JobEnds, DrainKept, upGhosts
    <3> QED BY <1>19, <3>1, <3>2, <3>3, <3>4
  <2> QED BY <2>2, <2>3, <2>4 DEF UpgradeInv
<1>20. CASE UNCHANGED upgradeVars
  <2>1. UNCHANGED <<upAt, archive, stagedBin, bin, bak, stranded, daemon, mixed, crossed, didCordon, cordoned, spoilt, job>>
    BY <1>20 DEF upgradeVars, upFiles, upGhosts
  <2>2. UpgradeRuns'
    BY <1>0, <2>1 DEF UpgradeRuns
  <2>3. StagedKnown' /\ SwapHalfway' /\ SwapRecoverable' /\ DrainKept'
    BY <1>0, <2>1 DEF StagedKnown, SwapHalfway, SwapRecoverable, DrainKept
  <2> QED BY <2>2, <2>3 DEF UpgradeInv
<1> QED BY <1>1, <1>2, <1>7, <1>8, <1>9, <1>10, <1>11, <1>12, <1>13, <1>14, <1>15, <1>16, <1>17, <1>18, <1>19, <1>20
        DEF UpgradeNext, UpgradeStep

(* What it says of the upgrades is what the runs check.                     *)
LEMMA UpgradeSafe == UpgradeInv => SwapRecoverable /\ DrainedFirst
  BY DEF UpgradeInv, DrainKept, DrainedFirst

-----------------------------------------------------------------------------
(* Daemon.  Where each stage is among those of a host and of a worker.      *)
HostStage(n) ==
  CASE n = 0 -> "config" [] n = 1 -> "containerd" [] n = 2 -> "extract" [] n = 3 -> "network" [] n = 4 -> "firewall"
    [] n = 5 -> "gomod" [] n = 6 -> "cargo" [] n = 7 -> "pkg" [] n = 8 -> "actions" [] n = 9 -> "buildkit"
    [] n = 10 -> "runtime" [] n = 11 -> "sweeper" [] n = 12 -> "providers" [] n = 13 -> "dispatch"
    [] n = 14 -> "tunnel" [] OTHER -> "run"

WorkerStage(n) ==
  CASE n = 0 -> "config" [] n = 1 -> "containerd" [] n = 2 -> "extract" [] n = 3 -> "network" [] n = 4 -> "firewall"
    [] n = 5 -> "buildkit" [] n = 6 -> "runtime" [] n = 7 -> "sweeper" [] n = 8 -> "dispatchServer"
    [] n = 9 -> "debug" [] OTHER -> "run"

LastStage == IF role = "host" THEN 15 ELSE 10

LEMMA StagesAre ==
  ASSUME serveStage \in 0..LastStage
  PROVE  /\ Len(Stages) = LastStage + 1 /\ Len(HostStages) = 16
         /\ Here = IF role = "host" THEN HostStage(serveStage) ELSE WorkerStage(serveStage)
         /\ AtLast <=> serveStage = LastStage
<1>1. Len(HostStages) = 16 /\ Len(WorkerStages) = 11
  BY DEF HostStages, WorkerStages
<1>2. ASSUME NEW n \in 0..15 PROVE HostStages[n + 1] = HostStage(n)
  <2>1. n \in {0, 1, 2, 3, 4, 5, 6, 7, 8, 9, 10, 11, 12, 13, 14, 15}
    BY <1>2
  <2> QED BY <2>1 DEF HostStages, HostStage
<1>3. ASSUME NEW n \in 0..10 PROVE WorkerStages[n + 1] = WorkerStage(n)
  <2>1. n \in {0, 1, 2, 3, 4, 5, 6, 7, 8, 9, 10}
    BY <1>3
  <2> QED BY <2>1 DEF WorkerStages, WorkerStage
<1>4. Len(Stages) = LastStage + 1
  <2>1. CASE role = "host"
    <3>1. Stages = HostStages /\ LastStage = 15
      BY <2>1 DEF Stages, LastStage
    <3> QED BY <1>1, <3>1
  <2>2. CASE role # "host"
    <3>1. Stages = WorkerStages /\ LastStage = 10
      BY <2>2 DEF Stages, LastStage
    <3> QED BY <1>1, <3>1
  <2> QED BY <2>1, <2>2
<1>5. Here = IF role = "host" THEN HostStage(serveStage) ELSE WorkerStage(serveStage)
  <2>1. CASE role = "host"
    <3>1. serveStage \in 0..15
      BY <2>1 DEF LastStage
    <3> QED BY <1>2, <2>1, <3>1 DEF Here, Stages
  <2>2. CASE role # "host"
    <3>1. serveStage \in 0..10
      BY <2>2 DEF LastStage
    <3> QED BY <1>3, <2>2, <3>1 DEF Here, Stages
  <2> QED BY <2>1, <2>2
<1>6. AtLast <=> serveStage = LastStage
  BY <1>4 DEF AtLast, LastStage
<1> QED BY <1>1, <1>4, <1>5, <1>6

(* The stage says what is up: on the way in nothing that was started has    *)
(* been stopped, and every stage has deferred one cleanup at most.          *)
Deferrable == Caches \cup {"containerd", "network", "actions", "buildkit", "providers", "dispatchServer", "debug"}

ServeCounts ==
  /\ role \in {"host", "worker"} /\ onLinux \in BOOLEAN /\ dJobs \in BOOLEAN /\ exiting \in BOOLEAN
  /\ serveStage \in 0..LastStage /\ netTries \in 0..NetAttempts /\ (~exiting => netTries < NetAttempts)
  /\ defers \in Seq(Deferrable) /\ Len(defers) <= serveStage
  /\ serveStage = 0 => role = "host"

ServeUp ==
  ~exiting =>
    /\ serveStage > 1 => "containerd" \in up
    /\ serveStage > 3 => "network" \in up
    /\ serveStage > 4 /\ onLinux => "firewall" \in up
    /\ advertised \subseteq up
    /\ "dispatchServer" \in up => role = "worker" /\ serveStage > 8

ServeJobs ==
  /\ dJobs /\ role = "host" => ~exiting /\ serveStage = 15
  /\ dJobs /\ role = "worker" /\ ~exiting => serveStage > 8

DaemonInv == ServeCounts /\ ServeUp /\ ServeJobs /\ AdvertisedAnswers

Startable == Caches \cup {"extract", "actions", "sweeper", "tunnel", "dispatchServer", "debug", "network", "firewall",
                          "buildkit", "runtime", "providers"}

LEMMA DaemonNumbers == NetAttempts \in Nat /\ NetAttempts # 0
  BY DaemonAssumption

LEMMA DaemonStarts == DaemonInit => DaemonInv
<1> SUFFICES ASSUME DaemonInit PROVE DaemonInv
  OBVIOUS
<1>1. defers = <<>> /\ serveStage = 0 /\ netTries = 0 /\ role = "host" /\ up = {} /\ advertised = {}
      /\ onLinux = TRUE /\ exiting = FALSE /\ dJobs = FALSE
  BY DEF DaemonInit
<1>2. defers \in Seq(Deferrable) /\ Len(defers) = 0
  BY <1>1
<1>3. ServeCounts
  <2>1. LastStage = 15 /\ serveStage \in 0..LastStage /\ netTries \in 0..NetAttempts /\ netTries < NetAttempts
    BY <1>1, DaemonNumbers DEF LastStage
  <2>2. Len(defers) <= serveStage
    BY <1>1, <1>2
  <2>3. role = "host" /\ onLinux = TRUE /\ exiting = FALSE /\ dJobs = FALSE
    BY <1>1
  <2> QED BY <1>2, <2>1, <2>2, <2>3 DEF ServeCounts
<1>4. ServeUp
  BY <1>1 DEF ServeUp
<1>5. ServeJobs /\ AdvertisedAnswers
  BY <1>1 DEF ServeJobs, AdvertisedAnswers
<1> QED BY <1>3, <1>4, <1>5 DEF DaemonInv

(* One cleanup more, or none.                                               *)
LEMMA PushesOne ==
  ASSUME defers \in Seq(Deferrable), NEW d \in Deferrable, Push(d)
  PROVE  defers' \in Seq(Deferrable) /\ Len(defers') = Len(defers) + 1
  BY DEF Push

LEMMA DaemonInvStep ==
  ASSUME DaemonInv, [DaemonNext]_daemonVars
  PROVE  DaemonInv' /\ (<<serveStage, netTries, defers, exiting>>' # <<serveStage, netTries, defers, exiting>>
                          => Distance' < Distance)
<1>0. ServeCounts /\ ServeUp /\ ServeJobs /\ AdvertisedAnswers
  BY DEF DaemonInv
<1>1. /\ Len(Stages) = LastStage + 1 /\ Len(HostStages) = 16
      /\ Here = IF role = "host" THEN HostStage(serveStage) ELSE WorkerStage(serveStage)
      /\ AtLast <=> serveStage = LastStage
  BY <1>0, StagesAre DEF ServeCounts
<1>p. /\ Here = "network" <=> serveStage = 3
      /\ Here = "firewall" <=> serveStage = 4
      /\ Here = "containerd" <=> serveStage = 1
      /\ AtLast => Here = "run"
  <2>1. serveStage \in Nat /\ serveStage <= LastStage
    BY <1>0 DEF ServeCounts, LastStage
  <2>2. CASE role = "host"
    BY <1>1, <2>1, <2>2 DEF HostStage, LastStage
  <2>3. CASE role # "host"
    BY <1>1, <2>1, <2>3 DEF WorkerStage, LastStage
  <2> QED BY <2>2, <2>3
(* Whatever returns from serve comes nearer to the end, and so does         *)
(* whatever passes a stage or uses up an attempt.                           *)
<1>2. /\ ~exiting => Distance = 16 + ((LastStage + 1) - serveStage) + (NetAttempts - netTries)
      /\ exiting => Distance = Len(defers)
      /\ Len(defers) \in Nat /\ serveStage \in Nat /\ netTries \in Nat /\ LastStage \in Nat /\ serveStage <= LastStage
      /\ netTries <= NetAttempts /\ Len(defers) <= serveStage /\ serveStage <= 15
  BY <1>0, <1>1, DaemonNumbers DEF ServeCounts, Distance, LastStage
<1>3. ASSUME ~exiting, ~AtLast, UNCHANGED role, Pass, netTries' = netTries,
             Len(defers') <= Len(defers) + 1, defers' \in Seq(Deferrable),
             UNCHANGED <<onLinux, dJobs>>
      PROVE  ServeCounts' /\ Distance' < Distance
  <2>1. serveStage' = serveStage + 1 /\ ~exiting' /\ exiting' = exiting /\ LastStage' = LastStage
    BY <1>3 DEF Pass, LastStage
  <2>2. Len(defers') \in Nat /\ Len(defers') <= serveStage' /\ serveStage' \in 0..LastStage' /\ serveStage' # 0
    BY <1>1, <1>2, <1>3, <2>1
  <2>3. ServeCounts'
    BY <1>0, <1>3, <2>1, <2>2 DEF ServeCounts
  <2>4. Len(Stages)' = LastStage' + 1 /\ Len(HostStages) = 16
    BY <1>1, <1>3, <2>1 DEF Stages
  <2>5. Distance' = 16 + ((LastStage + 1) - (serveStage + 1)) + (NetAttempts - netTries)
    BY <1>3, <2>1, <2>4 DEF Distance
  <2> QED BY <1>2, <1>3, <2>3, <2>5, DaemonNumbers
<1>4. ASSUME ~exiting, UNCHANGED role, Return, netTries' \in 0..NetAttempts, UNCHANGED <<defers, onLinux>>, dJobs' \in BOOLEAN
      PROVE  ServeCounts' /\ Distance' < Distance
  <2>1. serveStage' = serveStage /\ exiting' = TRUE /\ LastStage' = LastStage
    BY <1>4 DEF Return, LastStage
  <2>2. ServeCounts'
    BY <1>0, <1>4, <2>1 DEF ServeCounts
  <2>3. Distance' = Len(defers)
    BY <1>4, <2>1 DEF Distance
  <2> QED BY <1>2, <1>4, <2>2, <2>3, DaemonNumbers
<1>5. CASE LoadConfig
  <2>1. /\ ~exiting /\ serveStage = 0 /\ role = "host" /\ serveStage' = 1 /\ exiting' = FALSE
        /\ role' \in {"host", "worker"} /\ onLinux' \in BOOLEAN
        /\ UNCHANGED <<netTries, defers, up, advertised, answering, dJobs>>
    <3>1. ~exiting /\ Here = "config" /\ serveStage' = serveStage + 1 /\ exiting' = exiting
          /\ role' \in {"host", "worker"} /\ onLinux' \in BOOLEAN
          /\ UNCHANGED <<netTries, defers, up, advertised, answering, dJobs>>
      BY <1>5 DEF LoadConfig, Pass
    <3>2. serveStage = 0
      BY <1>0, <1>1, <3>1 DEF HostStage, WorkerStage, ServeCounts, LastStage
    <3> QED BY <1>0, <3>1, <3>2 DEF ServeCounts
  <2>2. Len(defers) = 0 /\ ~dJobs
    BY <1>0, <1>2, <2>1 DEF ServeJobs
  <2>3. ServeCounts'
    <3>1. (serveStage \in 0..LastStage)'
      BY <2>1 DEF LastStage
    <3>2. (Len(defers) <= serveStage)' /\ serveStage' # 0
      BY <2>1, <2>2
    <3> QED BY <1>0, <2>1, <3>1, <3>2 DEF ServeCounts
  <2>4. ServeUp' /\ ServeJobs' /\ AdvertisedAnswers'
    <3>1. ServeUp'
      BY <1>0, <2>1 DEF ServeUp
    <3>2. ServeJobs' /\ AdvertisedAnswers'
      BY <1>0, <2>1, <2>2 DEF ServeJobs, AdvertisedAnswers
    <3> QED BY <3>1, <3>2
  <2>5. Distance' < Distance
    <3>1. (serveStage \in 0..LastStage)'
      BY <2>3 DEF ServeCounts
    <3>2. Len(Stages)' \in {11, 16} /\ Len(HostStages) = 16
      BY <1>1, <2>1 DEF Stages, HostStages, WorkerStages
    <3>3. Distance' = 16 + (Len(Stages)' - 1) + (NetAttempts - netTries)
      BY <2>1, <3>2 DEF Distance
    <3>4. Distance = 16 + (16 - 0) + (NetAttempts - netTries)
      BY <1>2, <2>1 DEF LastStage
    <3> DEFINE l == Len(Stages)'  togo == NetAttempts - netTries
    <3>5. l \in {11, 16} /\ togo \in Int /\ Distance' = 16 + (l - 1) + togo /\ Distance = 16 + (16 - 0) + togo
      BY <1>2, <2>1, <3>2, <3>3, <3>4, DaemonNumbers
    <3> HIDE DEF l, togo
    <3> QED BY <3>5
  <2>6. DaemonInv'
    BY <2>3, <2>4 DEF DaemonInv
  <2> QED BY <2>5, <2>6
<1>6. CASE NewContainerd
  <2>1. ~exiting /\ Here = "containerd" /\ UNCHANGED <<netTries, advertised, answering, role, onLinux, dJobs>>
    BY <1>6 DEF NewContainerd, given, Stay
  <2>2. serveStage = 1 /\ ~AtLast
    BY <1>0, <1>1, <2>1 DEF HostStage, WorkerStage, ServeCounts, LastStage
  <2>3. CASE startContainerd
    <3>1. Pass /\ up' = up \cup {"containerd"} /\ Push("containerd") /\ serveStage' = serveStage + 1
      BY <2>1, <2>3 DEF startContainerd, Pass
    <3>2. "containerd" \in Deferrable
      BY DEF Deferrable
    <3>3. ServeCounts' /\ Distance' < Distance
      BY <1>0, <1>2, <1>3, <2>1, <2>2, <3>1, <3>2, PushesOne DEF ServeCounts
    <3>4. ServeUp' /\ ServeJobs' /\ AdvertisedAnswers'
      BY <1>0, <1>2, <2>1, <2>2, <3>1 DEF ServeUp, ServeJobs, AdvertisedAnswers, Pass
    <3> QED BY <3>3, <3>4 DEF DaemonInv
  <2>4. CASE Return /\ UNCHANGED <<up, defers>>
    <3>1. ServeCounts' /\ Distance' < Distance
      BY <1>0, <1>2, <1>4, <2>1, <2>4, DaemonNumbers DEF ServeCounts
    <3>2. ServeUp' /\ ServeJobs' /\ AdvertisedAnswers'
      BY <1>0, <1>2, <2>1, <2>2, <2>4 DEF ServeUp, ServeJobs, AdvertisedAnswers, Return
    <3> QED BY <3>1, <3>2 DEF DaemonInv
  <2> QED BY <1>6, <2>3, <2>4 DEF NewContainerd
(* A stage that is neither of those two, nor a network attempt, either      *)
(* passes with what it starts, or ends serve.                               *)
<1>7. ASSUME ~exiting, ~AtLast, UNCHANGED <<role, onLinux, dJobs, netTries>>, Pass,
             NEW started \in SUBSET Startable,
             up' = up \cup started,
             serveStage # 1,
             serveStage = 3 => "network" \in started,
             serveStage = 4 /\ onLinux => "firewall" \in started,
             "dispatchServer" \in started => role = "worker" /\ serveStage = 8,
             advertised' \subseteq advertised \cup started,
             AdvertisedAnswers',
             Len(defers') <= Len(defers) + 1, defers' \in Seq(Deferrable)
      PROVE  DaemonInv' /\ Distance' < Distance
  <2>1. ServeCounts' /\ Distance' < Distance
    BY <1>3, <1>7
  <2>2. serveStage' = serveStage + 1 /\ ~exiting'
    BY <1>7 DEF Pass
  <2>3. ServeUp'
    BY <1>0, <1>2, <1>7, <2>2 DEF ServeUp
  <2>4. ServeJobs'
    BY <1>0, <1>1, <1>2, <1>7, <2>2 DEF ServeJobs, LastStage, ServeCounts
  <2> QED BY <1>7, <2>1, <2>3, <2>4 DEF DaemonInv
<1>8. ASSUME ~exiting, ~AtLast, UNCHANGED <<role, onLinux, dJobs, advertised, answering, defers>>, Return, netTries' \in 0..NetAttempts
      PROVE  DaemonInv' /\ Distance' < Distance
  <2>1. ServeCounts' /\ Distance' < Distance
    BY <1>0, <1>4, <1>8 DEF ServeCounts
  <2>2. exiting' = TRUE
    BY <1>8 DEF Return
  <2>3. ~(dJobs /\ role = "host")
    BY <1>0, <1>1, <1>8 DEF ServeJobs, LastStage
  <2>4. ServeUp' /\ ServeJobs' /\ AdvertisedAnswers'
    BY <1>0, <1>8, <2>2, <2>3 DEF ServeUp, ServeJobs, AdvertisedAnswers
  <2> QED BY <2>1, <2>4 DEF DaemonInv
<1>9. CASE StageUp
  <2>1. ~exiting /\ ~AtLast /\ Here \in {"extract", "actions", "sweeper", "tunnel", "dispatchServer", "debug"}
        /\ Pass /\ up' = up \cup {Here} /\ (defers' = defers \/ (Here \in DaemonDeferred /\ Push(Here)))
        /\ UNCHANGED <<role, onLinux, dJobs, netTries, advertised, answering>>
    BY <1>9 DEF StageUp, given, Stay
  <2>2. serveStage \notin {1, 3, 4} /\ (Here = "dispatchServer" => role = "worker" /\ serveStage = 8)
    BY <1>0, <1>1, <2>1 DEF HostStage, WorkerStage, ServeCounts, LastStage
  <2>3. Len(defers') <= Len(defers) + 1 /\ defers' \in Seq(Deferrable)
    <3>1. DaemonDeferred \subseteq Deferrable
      BY DEF DaemonDeferred, Deferrable
    <3> QED BY <1>0, <1>2, <2>1, <3>1, PushesOne DEF ServeCounts
  <2>4. AdvertisedAnswers'
    BY <1>0, <2>1 DEF AdvertisedAnswers
  <2> DEFINE h == Here
  <2> HIDE DEF h
  <2>5. {h} \in SUBSET Startable
    BY <2>1 DEF h, Startable
  <2>6. up' = up \cup {h} /\ ("dispatchServer" \in {h} => role = "worker" /\ serveStage = 8)
    BY <2>1, <2>2 DEF h
  <2> QED BY <1>7, <2>1, <2>2, <2>3, <2>4, <2>5, <2>6
<1>10. CASE StageFails
  <2>1. ~exiting /\ ~AtLast /\ UNCHANGED <<role, onLinux, dJobs, netTries, advertised, answering, defers, up>>
        /\ Here \notin {"containerd", "network"} /\ (Here = "firewall" => onLinux)
        /\ IF Here \in Fatal THEN Return ELSE Pass
    BY <1>10 DEF StageFails, given, Stay
  <2>2. CASE Here \in Fatal
    BY <1>0, <1>8, <2>1, <2>2 DEF ServeCounts
  <2>3. CASE Here \notin Fatal
    <3>1. serveStage \notin {1, 3} /\ (serveStage = 4 => ~onLinux)
      BY <1>0, <1>1, <2>1, <2>3 DEF HostStage, WorkerStage, ServeCounts, LastStage, Fatal
    <3>2. Len(defers') <= Len(defers) + 1 /\ defers' \in Seq(Deferrable) /\ AdvertisedAnswers' /\ up' = up \cup {}
      BY <1>0, <1>2, <2>1 DEF ServeCounts, AdvertisedAnswers
    <3> QED BY <1>7, <2>1, <2>3, <3>1, <3>2
  <2> QED BY <2>2, <2>3
<1>11. CASE retryInit
  <2>1. ~exiting /\ Here = "network" /\ UNCHANGED <<role, onLinux, dJobs, advertised, answering, defers>>
    BY <1>11 DEF retryInit, given, Stay
  <2>2. serveStage = 3 /\ ~AtLast
    BY <1>0, <1>1, <2>1 DEF HostStage, WorkerStage, ServeCounts, LastStage
  <2>3. CASE Pass /\ up' = up \cup {"network"} /\ UNCHANGED netTries
    <3>1. Len(defers') <= Len(defers) + 1 /\ defers' \in Seq(Deferrable) /\ AdvertisedAnswers'
      BY <1>0, <1>2, <2>1 DEF ServeCounts, AdvertisedAnswers
    <3>2. {"network"} \in SUBSET Startable /\ "dispatchServer" \notin {"network"} /\ serveStage # 1 /\ serveStage # 4
      BY <2>2 DEF Startable
    <3>3. UNCHANGED <<role, onLinux, dJobs, netTries>> /\ advertised' \subseteq advertised \cup {"network"}
      BY <2>1, <2>3
    <3> QED BY <1>7, <2>1, <2>2, <2>3, <3>1, <3>2, <3>3
  <2>4. CASE netTries' = netTries + 1 /\ UNCHANGED up /\ Return
    <3>1. netTries' \in 0..NetAttempts
      BY <1>0, <2>1, <2>4, DaemonNumbers DEF ServeCounts
    <3> QED BY <1>8, <2>1, <2>2, <2>4, <3>1
  <2>5. CASE netTries' = netTries + 1 /\ UNCHANGED <<up, serveStage, exiting>> /\ netTries' # NetAttempts
    <3>1. netTries' \in 0..NetAttempts /\ netTries' < NetAttempts
      BY <1>0, <2>1, <2>5, DaemonNumbers DEF ServeCounts
    <3>2. ServeCounts'
      BY <1>0, <2>1, <2>5, <3>1 DEF ServeCounts, LastStage
    <3>3. ServeUp' /\ ServeJobs' /\ AdvertisedAnswers'
      BY <1>0, <2>1, <2>5 DEF ServeUp, ServeJobs, AdvertisedAnswers
    <3>4. Distance' = 16 + ((LastStage + 1) - serveStage) + (NetAttempts - (netTries + 1))
      BY <1>1, <2>1, <2>5 DEF Distance, Stages
    <3> QED BY <1>2, <2>1, <3>2, <3>3, <3>4, DaemonNumbers DEF DaemonInv
  <2> QED BY <1>11, <2>3, <2>4, <2>5 DEF retryInit
<1>12. CASE enforceFirewallInstall
  <2>1. ~exiting /\ Here = "firewall" /\ Pass /\ Push("network")
        /\ UNCHANGED <<role, onLinux, dJobs, netTries, advertised, answering>>
        /\ (up' = up \cup {"firewall"} \/ (~onLinux /\ up' = up \cup {}))
    BY <1>12 DEF enforceFirewallInstall, given, Stay
  <2>2. serveStage = 4 /\ ~AtLast
    BY <1>0, <1>1, <2>1 DEF HostStage, WorkerStage, ServeCounts, LastStage
  <2>3. Len(defers') <= Len(defers) + 1 /\ defers' \in Seq(Deferrable) /\ AdvertisedAnswers'
    <3>1. "network" \in Deferrable
      BY DEF Deferrable
    <3> QED BY <1>0, <1>2, <2>1, <3>1, PushesOne DEF ServeCounts, AdvertisedAnswers
  <2>4. CASE up' = up \cup {"firewall"}
    <3>1. {"firewall"} \in SUBSET Startable /\ "dispatchServer" \notin {"firewall"} /\ serveStage # 1 /\ serveStage # 3
      BY <2>2 DEF Startable
    <3>2. UNCHANGED <<role, onLinux, dJobs, netTries>> /\ advertised' \subseteq advertised \cup {"firewall"}
      BY <2>1
    <3> QED BY <1>7, <2>1, <2>2, <2>3, <2>4, <3>1, <3>2
  <2>5. CASE ~onLinux /\ up' = up \cup {}
    <3>1. {} \in SUBSET Startable /\ serveStage # 1 /\ serveStage # 3
      BY <2>2
    <3>2. UNCHANGED <<role, onLinux, dJobs, netTries>> /\ advertised' \subseteq advertised \cup {}
      BY <2>1
    <3> QED BY <1>7, <2>1, <2>2, <2>3, <2>5, <3>1, <3>2
  <2> QED BY <2>1, <2>4, <2>5
<1>13. CASE startPkgProxies
  <2>1. ~exiting /\ ~AtLast /\ Here \in Caches /\ Pass /\ UNCHANGED <<role, onLinux, dJobs, netTries>>
    BY <1>13 DEF startPkgProxies, Stay
  <2>2. serveStage \notin {1, 3, 4}
    BY <1>0, <1>1, <2>1 DEF HostStage, WorkerStage, ServeCounts, LastStage, Caches
  <2> DEFINE h == Here
  <2>3. h \in Caches
    BY <2>1
  <2>4. CASE UNCHANGED <<up, defers, advertised, answering>>
    <3>1. Len(defers') <= Len(defers) + 1 /\ defers' \in Seq(Deferrable) /\ AdvertisedAnswers' /\ up' = up \cup {}
      BY <1>0, <1>2, <2>4 DEF ServeCounts, AdvertisedAnswers
    <3> QED BY <1>7, <2>1, <2>2, <2>4, <3>1
  <2>5. ASSUME NEW answers \in BOOLEAN, h = "pkg" => answers,
               up' = up \cup {h}, Push(h), advertised' = advertised \cup {h},
               answering' = IF answers THEN answering \cup {h} ELSE answering
        PROVE  DaemonInv' /\ Distance' < Distance
    <3> HIDE DEF h
    <3>1. h \in Deferrable /\ h # "dispatchServer"
      BY <2>3 DEF Deferrable, Caches
    <3>2. Len(defers') <= Len(defers) + 1 /\ defers' \in Seq(Deferrable)
      BY <1>0, <1>2, <2>5, <3>1, PushesOne DEF ServeCounts
    <3>3. AdvertisedAnswers'
      BY <1>0, <2>5 DEF AdvertisedAnswers
    <3>4. {h} \in SUBSET Startable
      BY <2>3 DEF Startable
    <3> QED BY <1>7, <2>1, <2>2, <2>5, <3>1, <3>2, <3>3, <3>4
  <2> QED BY <1>13, <2>4, <2>5 DEF startPkgProxies
<1>14. CASE startBuildKit \/ newRuntime \/ initProviders \/ waitDispatch
  <2>1. ~exiting /\ Here \in {"buildkit", "runtime", "providers", "dispatch"} /\ Pass
        /\ UNCHANGED <<role, onLinux, dJobs, netTries, advertised, answering>>
    BY <1>14 DEF startBuildKit, newRuntime, initProviders, waitDispatch, given, Stay
  <2>2. serveStage \notin {1, 3, 4} /\ ~AtLast
    BY <1>p, <2>1
  <2> DEFINE h == Here
  <2>3. h \in {"buildkit", "runtime", "providers", "dispatch"}
        /\ (up' = up \cup {h} \/ up' = up \cup {})
        /\ (defers' = defers \/ (h # "runtime" /\ h # "dispatch" /\ Push(h)))
        /\ (up' = up \cup {h} => h # "dispatch" \/ up' = up \cup {})
    BY <1>14, <2>1 DEF startBuildKit, newRuntime, initProviders, waitDispatch
  <2> HIDE DEF h
  <2>4. Len(defers') <= Len(defers) + 1 /\ defers' \in Seq(Deferrable) /\ AdvertisedAnswers'
    <3>1. h # "runtime" /\ h # "dispatch" => h \in Deferrable
      BY <2>3 DEF Deferrable
    <3>2. AdvertisedAnswers'
      BY <1>0, <2>1 DEF AdvertisedAnswers
    <3> QED BY <1>0, <1>2, <2>3, <3>1, <3>2, PushesOne DEF ServeCounts
  <2>5. CASE up' = up \cup {}
    <3>1. {} \in SUBSET Startable /\ "dispatchServer" \notin {} /\ advertised' \subseteq advertised \cup {}
      BY <2>1
    <3> QED BY <1>7, <2>1, <2>2, <2>4, <2>5, <3>1
  <2>6. CASE up' = up \cup {h} /\ h # "dispatch"
    <3>1. {h} \in SUBSET Startable
      BY <2>3, <2>6 DEF Startable
    <3>2. "dispatchServer" \notin {h}
      BY <2>3
    <3> QED BY <1>7, <2>1, <2>2, <2>4, <2>6, <3>1, <3>2
  <2> QED BY <2>3, <2>5, <2>6
<1>15. CASE RunReturns
  <2>1. ~exiting /\ AtLast /\ Return /\ dJobs' = (role = "worker" /\ dJobs)
        /\ UNCHANGED <<role, onLinux, netTries, defers, up, advertised, answering>>
    BY <1>15 DEF RunReturns, given
  <2>2. ServeCounts' /\ Distance' < Distance
    BY <1>0, <1>4, <2>1 DEF ServeCounts
  <2>3. ServeUp' /\ ServeJobs' /\ AdvertisedAnswers'
    BY <1>0, <2>1 DEF ServeUp, ServeJobs, AdvertisedAnswers, Return
  <2> QED BY <2>2, <2>3 DEF DaemonInv
<1>16. CASE Unwind
  <2>1. exiting /\ defers # <<>> /\ defers' = Front(defers)
        /\ UNCHANGED <<role, onLinux, serveStage, netTries, dJobs, exiting, advertised, answering>>
    BY <1>16 DEF Unwind, given
  <2>2. Len(defers') = Len(defers) - 1 /\ defers' \in Seq(Deferrable)
    <3>1. defers' = SubSeq(defers, 1, Len(defers) - 1) /\ defers \in Seq(Deferrable)
      BY <1>0, <2>1 DEF ServeCounts, Front
    <3>2. Len(defers) \in Nat /\ Len(defers) # 0
      BY <2>1, <3>1
    <3>3. SubSeq(defers, 1, Len(defers) - 1) \in Seq(Deferrable)
      BY <3>1, <3>2
    <3>4. Len(SubSeq(defers, 1, Len(defers) - 1)) = Len(defers) - 1
      <4>1. 1 \in Nat /\ Len(defers) - 1 \in Nat
        BY <3>2
      <4>2. Len(SubSeq(defers, 1, Len(defers) - 1)) = IF 1 <= Len(defers) - 1 THEN (Len(defers) - 1) - 1 + 1 ELSE 0
        BY <3>1, <4>1
      <4> QED BY <4>1, <4>2
    <3> QED BY <3>1, <3>3, <3>4
  <2>3. ServeCounts'
    BY <1>0, <1>2, <2>1, <2>2 DEF ServeCounts, LastStage
  <2>4. ServeUp' /\ ServeJobs' /\ AdvertisedAnswers'
    BY <1>0, <2>1 DEF ServeUp, ServeJobs, AdvertisedAnswers
  <2>5. Distance' = Len(defers')
    BY <2>1 DEF Distance
  <2> QED BY <1>2, <2>1, <2>2, <2>3, <2>4, <2>5 DEF DaemonInv
<1>17. CASE TakeJob
  <2>1. TakesJobs /\ dJobs' = TRUE
        /\ UNCHANGED <<role, onLinux, serveStage, netTries, defers, up, exiting, advertised, answering>>
    BY <1>17 DEF TakeJob, given
  <2>2. ~exiting /\ (role = "host" => serveStage = 15) /\ (role = "worker" => serveStage > 8)
    BY <1>0, <1>1, <2>1 DEF TakesJobs, ServeUp, LastStage
  <2>3. ServeCounts' /\ ServeUp' /\ ServeJobs' /\ AdvertisedAnswers'
    BY <1>0, <2>1, <2>2 DEF ServeCounts, ServeUp, ServeJobs, AdvertisedAnswers, LastStage
  <2> QED BY <2>1, <2>3 DEF DaemonInv
<1>18. CASE DaemonJobEnds \/ Signal \/ StaysDown \/ UNCHANGED daemonVars
  <2>1. /\ UNCHANGED <<role, onLinux, serveStage, netTries, defers, up, exiting, advertised, answering>>
        /\ dJobs' \in {dJobs, FALSE}
    BY <1>18 DEF DaemonJobEnds, Signal, StaysDown, daemonVars, given
  <2>2. ServeCounts'
    BY <1>0, <2>1 DEF ServeCounts, LastStage
  <2>3. ServeUp' /\ AdvertisedAnswers'
    BY <1>0, <2>1 DEF ServeUp, AdvertisedAnswers
  <2>4. ServeJobs'
    <3>1. dJobs' => dJobs
      BY <2>1
    <3> QED BY <1>0, <2>1, <3>1 DEF ServeJobs
  <2> QED BY <2>1, <2>2, <2>3, <2>4 DEF DaemonInv
<1> QED BY <1>5, <1>6, <1>9, <1>10, <1>11, <1>12, <1>13, <1>14, <1>15, <1>16, <1>17, <1>18 DEF DaemonNext, ServeStep

LEMMA DaemonSafe == DaemonInv => JobsContained /\ ServicesOutliveJobs /\ AdvertisedAnswers
<1> SUFFICES ASSUME DaemonInv PROVE JobsContained /\ ServicesOutliveJobs
  BY DEF DaemonInv
<1>1. ServeCounts /\ ServeUp /\ ServeJobs
  BY DEF DaemonInv
<1>2. dJobs /\ (role = "host" \/ ~exiting) => ~exiting /\ serveStage > 8
  BY <1>1 DEF ServeCounts, ServeJobs
<1>3. serveStage > 8 => serveStage > 1 /\ serveStage > 3 /\ serveStage > 4
  BY <1>1 DEF ServeCounts, LastStage
<1>4. JobsContained
  BY <1>1, <1>2, <1>3 DEF ServeUp, JobsContained
<1>5. ServicesOutliveJobs
  BY <1>1, <1>2, <1>3 DEF ServeUp, ServicesOutliveJobs
<1> QED BY <1>4, <1>5

-----------------------------------------------------------------------------
(* No job of a Linux node runs outside the firewall, what a host's jobs     *)
(* were given outlives them, no cache that never answered is advertised, a  *)
(* daemon that is told to stop comes nearer to its end with every step of   *)
(* serve; and an upgrade never leaves the node without a binary it could    *)
(* run, nor past its drain a job that was running before: for every number  *)
(* of attempts at the network and of upgrades, over failed stages, refused  *)
(* renames and deaths at any step.                                          *)
THEOREM DaemonStaysOrdered == HostSpec => DaemonOrdered
<1>1. HostStart => DaemonInv /\ UpgradeInv
  BY DaemonStarts, UpgradeStarts DEF HostStart, HostInit
<1>2. [HostNext]_<<focus, hostVars>> => [DaemonNext]_daemonVars /\ [UpgradeNext]_upgradeVars
  BY DEF HostNext, HostFrozen, HostMoves, hostVars
<1>3. DaemonInv /\ UpgradeInv /\ [HostNext]_<<focus, hostVars>> => (DaemonInv /\ UpgradeInv)'
  BY <1>2, DaemonInvStep, UpgradeInvStep
<1>4. DaemonInv /\ [HostNext]_<<focus, hostVars>> =>
        [signalled /\ <<serveStage, netTries, defers, exiting>>' # <<serveStage, netTries, defers, exiting>>
           => Distance' < Distance]_daemonVars
  BY <1>2, DaemonInvStep
<1>5. DaemonInv /\ UpgradeInv =>
        /\ focus = "daemon" => JobsContained /\ ServicesOutliveJobs /\ AdvertisedAnswers
        /\ focus = "upgrade" => SwapRecoverable /\ DrainedFirst
  BY DaemonSafe, UpgradeSafe
<1> QED BY <1>1, <1>3, <1>4, <1>5, PTL DEF HostSpec, DaemonOrdered, SignalEnds

-----------------------------------------------------------------------------
(* JobIntake.  A registration has a hook with the current URL in every      *)
(* repository before the one it is at; the provider remembers hooks only    *)
(* while the tunnel serves and until its loss is handled; and a tunnel's    *)
(* daemon that has failed no delete and was not killed has no other hooks   *)
(* on GitHub than those.                                                    *)
IntakePlaces ==
  /\ hookMode \in {"tunnel", "external", "pool"}
  /\ intakeAt \in {"down", "clean", "listen", "register", "serving", "lost", "relisten", "reregister", "polling"}
  /\ hookMode # "tunnel" => intakeAt \in {"down", "register", "serving"}
  /\ unclean \in BOOLEAN

RegisteredSoFar ==
  Registering =>
    /\ regNext \in 1..(HookRepos + 1) /\ regDone = {r \in HookSites : r < regNext} \X {pubUrl}
    /\ hookMode = "tunnel" => regDone \subseteq hooks

Remembered == intakeAt \notin {"serving", "lost"} => managed = {}

OwnHooksOnly ==
  hookMode = "tunnel" /\ ~unclean =>
    CASE intakeAt \in {"serving", "lost"} -> hooks = managed
      [] Registering -> hooks = regDone
      [] OTHER -> hooks = {}

IntakeInv ==
  /\ IntakePlaces /\ RegisteredSoFar /\ (hookMode = "tunnel" => Remembered) /\ OwnHooksOnly /\ ServingIsHooked

LEMMA HookNumbers == HookRepos \in Nat /\ HookRepos # 0
  BY IntakeAssumption

LEMMA IntakeStarts == IntakeInit => IntakeInv
  BY DEF IntakeInit, IntakeInv, IntakePlaces, RegisteredSoFar, Remembered, OwnHooksOnly, ServingIsHooked, Registering

(* A step that leaves the hooks of GitHub and the provider's alone.         *)
LEMMA HooksUntouched ==
  ASSUME IntakeInv, UNCHANGED <<hookMode, intakeAt, hooks, managed, regDone, regNext, pubUrl, unclean>>
  PROVE  IntakeInv'
  BY DEF IntakeInv, IntakePlaces, RegisteredSoFar, Remembered, OwnHooksOnly, ServingIsHooked, Registering

(* The hooks of a tunnel that is lost or told to stop go, and the provider  *)
(* forgets them.                                                            *)
LEMMA DeregisterKeeps ==
  ASSUME IntakeInv, hookMode = "tunnel", intakeAt \notin {"register", "reregister"},
         intakeAt' \in {"relisten", "polling", "down"}, UNCHANGED <<hookMode, regDone, regNext, pubUrl>>,
         NEW gone \in SUBSET managed, DeregisterWebhooks(gone)
  PROVE  IntakeInv'
<1>1. hooks' = hooks \ (managed \ gone) /\ managed' = {} /\ unclean' = (unclean \/ gone # {})
  BY DEF DeregisterWebhooks
<1>2. IntakePlaces' /\ ~Registering'
  BY <1>1 DEF IntakeInv, IntakePlaces, Registering
<1>3. ~unclean' => hooks' = {}
  <2>0. SUFFICES ASSUME ~unclean' PROVE hooks' = {}
    OBVIOUS
  <2>a. ~unclean /\ gone = {}
    BY <1>1, <2>0
  <2>1. CASE intakeAt \in {"serving", "lost"}
    <3>1. hooks = managed
      BY <2>a, <2>1 DEF IntakeInv, OwnHooksOnly, Registering
    <3>2. managed \ gone = managed /\ managed \ managed = {}
      BY <2>a
    <3> QED BY <1>1, <3>1, <3>2
  <2>2. CASE intakeAt \notin {"serving", "lost"}
    BY <1>1, <2>a, <2>2 DEF IntakeInv, OwnHooksOnly, Registering
  <2> QED BY <2>1, <2>2
<1>4. OwnHooksOnly'
  BY <1>2, <1>3 DEF OwnHooksOnly
<1> QED BY <1>1, <1>2, <1>4 DEF IntakeInv, RegisteredSoFar, Remembered, ServingIsHooked

LEMMA IntakeInvStep ==
  ASSUME IntakeInv, [IntakeNext]_intakeVars
  PROVE  IntakeInv' /\ (hookMode = "pool" => hooks \subseteq hooks')
<1>0. IntakePlaces /\ RegisteredSoFar /\ (hookMode = "tunnel" => Remembered) /\ OwnHooksOnly /\ ServingIsHooked
  BY DEF IntakeInv
<1>1. CASE RunIntake
  <2>1. /\ intakeAt = "down" /\ intakeAt' = IF hookMode = "tunnel" THEN "clean" ELSE "register"
        /\ regNext' = 1 /\ regDone' = {}
        /\ UNCHANGED <<hookMode, hooks, managed, pubUrl, unclean>>
    BY <1>1 DEF RunIntake, IntakeTo
  <2>2. RegisteredSoFar'
    <3>1. {r \in HookSites : r < 1} = {}
      BY HookNumbers DEF HookSites
    <3>2. Registering' => hookMode # "tunnel"
      BY <2>1 DEF Registering
    <3>3. {r \in HookSites : r < regNext'} \X {pubUrl'} = {}
      BY <2>1, <3>1
    <3> QED BY <2>1, <3>2, <3>3, HookNumbers DEF RegisteredSoFar
  <2>3. IntakePlaces' /\ (hookMode = "tunnel" => Remembered)' /\ ServingIsHooked'
    BY <1>0, <2>1 DEF IntakePlaces, Remembered, ServingIsHooked
  <2>4. OwnHooksOnly'
    BY <1>0, <2>1 DEF OwnHooksOnly, Registering
  <2> QED BY <2>1, <2>2, <2>3, <2>4 DEF IntakeInv
<1>2. CASE CleanStaleWebhooks
  <2>1. /\ intakeAt = "clean" /\ intakeAt' = "listen" /\ unclean' = (hooks' # {})
        /\ UNCHANGED <<hookMode, managed, regDone, regNext, pubUrl>>
    BY <1>2 DEF CleanStaleWebhooks, IntakeTo, hookReg
  <2>2. hookMode = "tunnel"
    BY <1>0, <2>1 DEF IntakePlaces
  <2> QED BY <1>0, <2>1, <2>2 DEF IntakeInv, IntakePlaces, RegisteredSoFar, Remembered, OwnHooksOnly, ServingIsHooked,
             Registering
<1>3. CASE ListenTunnel
  <2>1. /\ intakeAt \in {"listen", "relisten"} /\ intakeAt' \in {"register", "down", "reregister", "lost"}
        /\ regNext' = 1 /\ regDone' = {} /\ UNCHANGED <<hookMode, hooks, managed, unclean>>
    BY <1>3 DEF ListenTunnel, Listen, IntakeTo
  <2>2. hookMode = "tunnel" /\ managed = {} /\ (~unclean => hooks = {})
    BY <1>0, <2>1 DEF IntakePlaces, Remembered, OwnHooksOnly, Registering
  <2>3. RegisteredSoFar'
    <3>1. {r \in HookSites : r < 1} = {}
      BY HookNumbers DEF HookSites
    <3>2. {r \in HookSites : r < regNext'} \X {pubUrl'} = {}
      BY <2>1, <3>1
    <3> QED BY <2>1, <3>2, HookNumbers DEF RegisteredSoFar
  <2>4. IntakePlaces' /\ Remembered' /\ ServingIsHooked'
    BY <1>0, <2>1, <2>2 DEF IntakePlaces, Remembered, ServingIsHooked
  <2>5. OwnHooksOnly'
    BY <2>1, <2>2 DEF OwnHooksOnly, Registering
  <2> QED BY <2>1, <2>3, <2>4, <2>5 DEF IntakeInv
<1>4. CASE AdoptHook \/ CreateHook
  <2>1. /\ Registering /\ regNext <= HookRepos /\ regDone' = regDone \cup {<<regNext, pubUrl>>} /\ regNext' = regNext + 1
        /\ UNCHANGED <<intakeAt, managed, unclean, hookMode, pubUrl>>
        /\ hooks' = hooks \cup {<<regNext, pubUrl>>}
    BY <1>4 DEF AdoptHook, CreateHook, HookHeld, HookHere, RegSame
  <2>2. regNext \in 1..(HookRepos + 1) /\ regDone = {r \in HookSites : r < regNext} \X {pubUrl}
    BY <1>0, <2>1 DEF RegisteredSoFar
  <2>3. {r \in HookSites : r < regNext + 1} = {r \in HookSites : r < regNext} \cup {regNext}
    BY <2>1, <2>2, HookNumbers DEF HookSites
  <2>4. regNext' \in 1..(HookRepos + 1)
    BY <2>1, <2>2, HookNumbers
  <2>5. RegisteredSoFar'
    <3>1. regDone' = {r \in HookSites : r < regNext'} \X {pubUrl'}
      BY <2>1, <2>2, <2>3
    <3>2. (hookMode = "tunnel" => regDone \subseteq hooks)'
      BY <1>0, <2>1 DEF RegisteredSoFar
    <3> QED BY <2>4, <3>1, <3>2 DEF RegisteredSoFar
  <2>6. OwnHooksOnly'
    <3>1. Registering' /\ intakeAt' \notin {"serving", "lost"} /\ intakeAt \notin {"serving", "lost"}
      BY <2>1 DEF Registering
    <3>2. hookMode = "tunnel" /\ ~unclean => hooks = regDone
      BY <1>0, <2>1, <3>1 DEF OwnHooksOnly
    <3> QED BY <2>1, <3>1, <3>2 DEF OwnHooksOnly
  <2>7. IntakePlaces' /\ (hookMode = "tunnel" => Remembered)' /\ ServingIsHooked'
    BY <1>0, <2>1 DEF IntakePlaces, Remembered, ServingIsHooked, Registering
  <2> QED BY <2>1, <2>5, <2>6, <2>7 DEF IntakeInv
<1>5. CASE RegisterBreaks
  <2>1. PICK kept \in SUBSET regDone :
          /\ hooks' = IF hookMode = "pool" THEN hooks ELSE hooks \ (regDone \ kept)
          /\ unclean' = (unclean \/ kept # {}) /\ intakeAt' = AfterFailure
          /\ Registering /\ regDone' = {} /\ UNCHANGED <<regNext, managed, hookMode, pubUrl>>
    BY <1>5 DEF RegisterBreaks, RegisterFails, RegSame
  <2>2. /\ hookMode = "tunnel" => intakeAt' \in {"lost", "down"}
        /\ hookMode # "tunnel" => intakeAt' = "serving"
    BY <1>0, <2>1 DEF AfterFailure, Registering, IntakePlaces
  <2>3. hookMode = "tunnel" => managed = {} /\ (~unclean => hooks = regDone)
    BY <1>0, <2>1 DEF Registering, Remembered, OwnHooksOnly
  <2>4. hookMode = "tunnel" /\ ~unclean' => hooks' = {}
    BY <2>1, <2>3
  <2>5. IntakePlaces' /\ ~Registering'
    BY <1>0, <2>1, <2>2 DEF IntakePlaces, Registering
  <2>6. OwnHooksOnly'
    BY <2>1, <2>3, <2>4, <2>5 DEF OwnHooksOnly
  <2> QED BY <2>1, <2>2, <2>3, <2>5, <2>6 DEF IntakeInv, RegisteredSoFar, Remembered, ServingIsHooked
<1>6. CASE Registered
  <2>1. /\ Registering /\ regNext > HookRepos /\ managed' = regDone /\ intakeAt' = "serving"
        /\ UNCHANGED <<hooks, regDone, regNext, unclean, hookMode, pubUrl>>
    BY <1>6 DEF Registered, hookReg, RegSame
  <2>2. {r \in HookSites : r < regNext} = HookSites
    BY <1>0, <2>1, HookNumbers DEF RegisteredSoFar, HookSites
  <2>3. regDone = HookSites \X {pubUrl} /\ (hookMode = "tunnel" => regDone \subseteq hooks)
    BY <1>0, <2>1, <2>2 DEF RegisteredSoFar
  <2>4. ServingIsHooked' /\ IntakePlaces'
    BY <1>0, <2>1, <2>3 DEF ServingIsHooked, IntakePlaces
  <2>5. OwnHooksOnly'
    <3>1. intakeAt \notin {"serving", "lost"}
      BY <2>1 DEF Registering
    <3> QED BY <1>0, <2>1, <3>1 DEF OwnHooksOnly
  <2> QED BY <2>1, <2>4, <2>5 DEF IntakeInv, RegisteredSoFar, Remembered, Registering
<1>7. CASE TunnelDrops
  <2>1. /\ hookMode = "tunnel" /\ intakeAt = "serving" /\ intakeAt' = "lost"
        /\ UNCHANGED <<hookMode, hooks, managed, regDone, regNext, pubUrl, unclean>>
    BY <1>7 DEF TunnelDrops, IntakeTo, hookReg
  <2> QED BY <1>0, <2>1 DEF IntakeInv, IntakePlaces, RegisteredSoFar, Remembered, OwnHooksOnly, ServingIsHooked, Registering
<1>8. CASE TunnelLost
  <2>1. intakeAt = "lost" /\ intakeAt' \in {"relisten", "polling"} /\ UNCHANGED <<hookMode, regDone, regNext, pubUrl>>
    BY <1>8 DEF TunnelLost, IntakeTo, hookReg
  <2>2. PICK gone \in SUBSET managed : DeregisterWebhooks(gone)
    BY <1>8 DEF TunnelLost
  <2>3. hookMode = "tunnel"
    BY <1>0, <2>1 DEF IntakePlaces
  <2> QED BY <2>1, <2>2, <2>3, DeregisterKeeps
<1>9. CASE StopIntake
  <2>1. intakeAt \in {"serving", "relisten", "polling"} /\ intakeAt' = "down" /\ UNCHANGED <<hookMode, regDone, regNext, pubUrl>>
    BY <1>9 DEF StopIntake, hookReg
  <2>2. CASE hookMode = "tunnel"
    <3>1. PICK gone \in SUBSET managed : DeregisterWebhooks(gone)
      BY <1>9, <2>2 DEF StopIntake
    <3> QED BY <2>1, <2>2, <3>1, DeregisterKeeps
  <2>3. CASE hookMode # "tunnel"
    <3>1. UNCHANGED <<hooks, unclean>>
      BY <1>9, <2>3 DEF StopIntake
    <3> QED BY <1>0, <2>1, <2>3, <3>1 DEF IntakeInv, IntakePlaces, RegisteredSoFar, Remembered, OwnHooksOnly, ServingIsHooked,
               Registering
  <2> QED BY <2>2, <2>3
<1>10. CASE KillIntake
  <2>1. /\ intakeAt' = "down" /\ managed' = {} /\ unclean' = (unclean \/ hooks # {})
        /\ UNCHANGED <<hookMode, hooks, regDone, regNext, pubUrl>>
    BY <1>10 DEF KillIntake, hookReg
  <2> QED BY <1>0, <2>1 DEF IntakeInv, IntakePlaces, RegisteredSoFar, Remembered, OwnHooksOnly, ServingIsHooked,
             Registering
<1>11. CASE PoolMate
  <2>1. /\ hookMode = "pool" /\ hooks \subseteq hooks'
        /\ UNCHANGED <<hookMode, intakeAt, managed, regDone, regNext, pubUrl, unclean>>
    BY <1>11 DEF PoolMate, hookReg
  <2> QED BY <1>0, <2>1 DEF IntakeInv, IntakePlaces, RegisteredSoFar, Remembered, OwnHooksOnly, ServingIsHooked, Registering
<1>12. CASE JobQueued \/ JobTaken \/ CatchUpPoll \/ pollLoop \/ \E u \in Urls : WebhookHandler(u) \/ DeliveryLost(u)
  <2>1. UNCHANGED <<hookMode, intakeAt, hooks, managed, regDone, regNext, pubUrl, unclean>>
    BY <1>12 DEF JobQueued, JobTaken, CatchUpPoll, pollLoop, PollJobs, WebhookHandler, DeliveryLost, HearSame, hookReg
  <2> QED BY <2>1, HooksUntouched
<1>13. CASE UNCHANGED intakeVars
  <2>1. UNCHANGED <<hookMode, intakeAt, hooks, managed, regDone, regNext, pubUrl, unclean>>
    BY <1>13 DEF intakeVars, hookReg
  <2> QED BY <2>1, HooksUntouched
<1> QED BY <1>1, <1>2, <1>3, <1>4, <1>5, <1>6, <1>7, <1>8, <1>9, <1>10, <1>11, <1>12, <1>13 DEF IntakeNext, IntakeStep

LEMMA IntakeSafe == IntakeInv => ServingIsHooked /\ HooksWithdrawn
  BY DEF IntakeInv, OwnHooksOnly, HooksWithdrawn, Registering

-----------------------------------------------------------------------------
(* ForgeRunner.  What is buffered follows what the forge has acknowledged,  *)
(* up to the last row written; the forge may have more of it than that.     *)
Consecutive(seq, from) == \A i \in 1..Len(seq) : seq[i] = from + i

LogTyped ==
  /\ frAt \in {"register", "declare", "poll", "backoff", "start", "step", "flush", "report", "close", "done"}
  /\ rows \in Seq(Nat) /\ forgeLog \in Seq(Nat) /\ total \in Nat /\ ackIndex \in Nat

LogFollows ==
  /\ Consecutive(forgeLog, 0) /\ ackIndex <= Len(forgeLog) /\ Len(forgeLog) <= total
  /\ frAt # "done" => ackIndex + Len(rows) = total /\ Consecutive(rows, ackIndex)

LogInv == LogTyped /\ LogFollows

(* The steps before the one the runner is at went well, those after it have *)
(* not begun; the result is a failure once a step failed, and is told to    *)
(* the forge at the end only.                                               *)
Fine(s) == stepResults[s] \in {"success", "skipped"}
NotBegun(s) == stepResults[s] = "unspecified"

StepsSoFar ==
  /\ frStep \in 1..(Steps + 1) /\ stepResults \in [AllSteps -> StepResults]
  /\ frAt \in {"register", "declare", "poll", "backoff", "start", "step"} =>
       jobResult = "success" /\ \A s \in AllSteps : IF s < frStep THEN Fine(s) ELSE NotBegun(s)
  /\ frAt = "flush" =>
       /\ frStep \in AllSteps /\ \A s \in AllSteps : (s < frStep => Fine(s)) /\ (s > frStep => NotBegun(s))
       /\ \/ jobResult = "success" /\ Fine(frStep)
          \/ jobResult = "failure" /\ stepResults[frStep] = "failure"

Verdict(result) ==
  /\ result = "success" => \A s \in AllSteps : Fine(s)
  /\ result = "failure" => \E s \in AllSteps : stepResults[s] = "failure" /\ \A t \in s + 1..Steps : NotBegun(t)

ResultsKnown ==
  /\ frAt \in {"report", "close"} => Verdict(jobResult)
  /\ frAt \notin {"close", "done"} => forgeResult \notin {"success", "failure"}

ForgeInv == LogInv /\ StepsSoFar /\ ResultsKnown /\ ResultTrue

LEMMA ForgeNumbers == Steps \in Nat /\ Steps # 0 /\ AllSteps = {s \in Nat : 1 <= s /\ s <= Steps}
  BY ForgeAssumption DEF AllSteps

(* The rows that the forge takes from the buffer complete its log.          *)
LEMMA TakesTheRest ==
  ASSUME LogInv, frAt # "done"
  PROVE  ForgeTakes \in Seq(Nat) /\ Len(ForgeTakes) = total /\ Consecutive(ForgeTakes, 0)
<1> DEFINE n == Len(forgeLog)  m == Len(rows)
<1>1. /\ rows \in Seq(Nat) /\ forgeLog \in Seq(Nat) /\ total \in Nat /\ ackIndex \in Nat
      /\ Consecutive(forgeLog, 0) /\ ackIndex <= n /\ n <= total /\ ackIndex + m = total /\ Consecutive(rows, ackIndex)
  BY DEF LogInv, LogTyped, LogFollows
<1>2. n \in Nat /\ m \in Nat
  BY <1>1
<1> DEFINE from == n - ackIndex + 1  more == SubSeq(rows, from, m)
<1>3. ForgeTakes = forgeLog \o more
  BY <1>1, <1>2 DEF ForgeTakes
<1>4. from \in Nat /\ 1 <= from /\ from <= m + 1
  BY <1>1, <1>2
<1>5. more \in Seq(Nat) /\ Len(more) = total - n /\ \A i \in 1..Len(more) : more[i] = n + i
  <2>1. \A i \in from..m : rows[i] \in Nat
    BY <1>1, <1>4
  <2>2. from \in Int /\ m \in Int
    BY <1>2, <1>4
  <2> HIDE DEF from, m
  <2>3. /\ more \in Seq(Nat) /\ Len(more) = IF from <= m THEN m - from + 1 ELSE 0
        /\ \A i \in 1..(m - from + 1) : more[i] = rows[from + i - 1]
    BY <2>1, <2>2, SubSeqProperties
  <2> HIDE DEF more
  <2> USE DEF from
  <2>4. Len(more) = total - n
    <3> HIDE DEF n
    <3> QED BY <1>1, <1>2, <1>4, <2>3
  <2>5. ASSUME NEW i \in 1..Len(more) PROVE more[i] = n + i
    <3> HIDE DEF n
    <3>1. i \in 1..(m - from + 1) /\ from + i - 1 \in 1..m /\ ackIndex + (from + i - 1) = n + i
      BY <1>1, <1>2, <1>4, <2>4, <2>5
    <3>2. rows[from + i - 1] = ackIndex + (from + i - 1)
      BY <1>1, <3>1 DEF Consecutive, m
    <3> QED BY <2>3, <3>1, <3>2
  <2> QED BY <2>3, <2>4, <2>5
<1> HIDE DEF more, from
<1>6. ForgeTakes \in Seq(Nat) /\ Len(ForgeTakes) = n + Len(more)
  BY <1>1, <1>3, <1>5
<1>7. Len(ForgeTakes) = total
  <2>1. Len(more) = total - n
    BY <1>5
  <2> HIDE DEF n
  <2> QED BY <1>1, <1>2, <1>6, <2>1
<1>8. ASSUME NEW i \in 1..Len(ForgeTakes) PROVE ForgeTakes[i] = 0 + i
  <2>1. CASE i <= n
    <3>1. ForgeTakes[i] = forgeLog[i] /\ i \in 1..n
      BY <1>1, <1>3, <1>5, <1>6, <1>8, <2>1
    <3> QED BY <1>1, <3>1 DEF Consecutive
  <2>2. CASE ~(i <= n)
    <3>1. i - n \in 1..Len(more) /\ n + (i - n) = i
      BY <1>2, <1>5, <1>6, <1>8, <2>2
    <3>2. ForgeTakes[i] = more[i - n]
      BY <1>1, <1>3, <1>5, <1>6, <1>8, <2>2
    <3> QED BY <1>5, <3>1, <3>2
  <2> QED BY <2>1, <2>2
<1> QED BY <1>6, <1>7, <1>8 DEF Consecutive

(* Rows are added at the end of the buffer.                                 *)
LEMMA AddsRows ==
  ASSUME LogInv, frAt # "done", NEW n \in Nat, AddLine(n), UNCHANGED <<forgeLog, ackIndex>>,
         frAt' \in {"step", "flush"}
  PROVE  LogInv'
<1>1. /\ rows \in Seq(Nat) /\ forgeLog \in Seq(Nat) /\ total \in Nat /\ ackIndex \in Nat
      /\ Consecutive(forgeLog, 0) /\ ackIndex <= Len(forgeLog) /\ Len(forgeLog) <= total
      /\ ackIndex + Len(rows) = total /\ Consecutive(rows, ackIndex)
  BY DEF LogInv, LogTyped, LogFollows
<1> DEFINE more == [i \in 1..n |-> total + i]
<1>2. rows' = rows \o more /\ total' = total + n
  BY DEF AddLine
<1>3. more \in Seq(Nat) /\ Len(more) = n /\ \A i \in 1..n : more[i] = total + i
  <2>1. \A i \in 1..n : total + i \in Nat
    BY <1>1
  <2> QED BY <2>1
<1> HIDE DEF more
<1>a. rows \in Seq(Nat) /\ total \in Nat /\ ackIndex \in Nat /\ ackIndex + Len(rows) = total /\ Len(rows) \in Nat
  BY <1>1
<1>4. rows' \in Seq(Nat) /\ Len(rows') = Len(rows) + n
  <2>1. rows \o more \in Seq(Nat) /\ Len(rows \o more) = Len(rows) + Len(more)
    BY <1>a, <1>3, ConcatProperties
  <2> QED BY <1>2, <1>3, <2>1
<1>5. ASSUME NEW i \in 1..Len(rows') PROVE rows'[i] = ackIndex + i
  <2>1. CASE i <= Len(rows)
    <3>1. rows'[i] = rows[i] /\ i \in 1..Len(rows)
      BY <1>1, <1>2, <1>3, <1>4, <1>5, <2>1
    <3> QED BY <1>1, <3>1 DEF Consecutive
  <2>2. CASE ~(i <= Len(rows))
    <3>1. i - Len(rows) \in 1..n /\ total + (i - Len(rows)) = ackIndex + i
      <4> DEFINE m == Len(rows)
      <4>1. i \in 1..(m + n) /\ ~(i <= m) /\ m \in Nat /\ total \in Nat /\ ackIndex \in Nat /\ ackIndex + m = total
        BY <1>a, <1>4, <1>5, <2>2
      <4> HIDE DEF m
      <4>2. i - m \in 1..n /\ total + (i - m) = ackIndex + i
        BY <4>1
      <4> QED BY <4>2 DEF m
    <3>2. rows'[i] = more[i - Len(rows)]
      BY <1>1, <1>2, <1>3, <1>4, <1>5, <2>2
    <3> QED BY <1>3, <3>1, <3>2
  <2> QED BY <2>1, <2>2
<1>6. total' \in Nat /\ Len(forgeLog') <= total' /\ ackIndex' + Len(rows') = total' /\ ackIndex' <= Len(forgeLog')
  <2> DEFINE m == Len(rows)  k == Len(forgeLog)
  <2>1. /\ m \in Nat /\ k \in Nat /\ total \in Nat /\ ackIndex \in Nat /\ ackIndex + m = total /\ k <= total /\ ackIndex <= k
        /\ Len(rows') = m + n /\ Len(forgeLog') = k /\ total' = total + n /\ ackIndex' = ackIndex
    BY <1>1, <1>2, <1>4
  <2> HIDE DEF m, k
  <2> QED BY <2>1
<1>7. LogTyped'
  BY <1>1, <1>4, <1>6 DEF LogTyped
<1>8. LogFollows'
  BY <1>1, <1>5, <1>6 DEF LogFollows, Consecutive
<1> QED BY <1>7, <1>8 DEF LogInv

LEMMA LogInvStep == LogInv /\ [ForgeNext]_frVars => LogInv'
<1> SUFFICES ASSUME LogInv, [ForgeNext]_frVars PROVE LogInv'
  OBVIOUS
<1>0. LogTyped /\ LogFollows
  BY DEF LogInv
<1>1. ASSUME UNCHANGED <<rows, total, ackIndex, forgeLog>>,
             frAt' \in {"register", "declare", "poll", "backoff", "start", "step", "flush", "report", "close", "done"},
             frAt = "done" => frAt' = "done"
      PROVE  LogInv'
  BY <1>0, <1>1 DEF LogInv, LogTyped, LogFollows, Consecutive
<1>2. CASE RegisterRunner \/ Declare \/ FetchTask \/ FetchTaskFails \/ poll \/ TaskStarts \/ StepsOver \/ UpdateTask
           \/ QueueTask \/ CancelRunner \/ UNCHANGED frVars
  <2>1. UNCHANGED <<rows, total, ackIndex, forgeLog>>
    BY <1>2 DEF RegisterRunner, Declare, FetchTask, FetchTaskFails, poll, TaskStarts, StepsOver, UpdateTask, QueueTask,
       CancelRunner, frVars, frLog, atForge
  <2>2. /\ frAt' \in {frAt, "register", "declare", "poll", "backoff", "start", "step", "flush", "report", "close", "done"}
        /\ frAt = "done" => frAt' = "done"
    BY <1>2 DEF RegisterRunner, Declare, FetchTask, FetchTaskFails, poll, TaskStarts, StepsOver, UpdateTask, QueueTask,
       CancelRunner, frVars, FrTo
  <2>3. frAt' \in {"register", "declare", "poll", "backoff", "start", "step", "flush", "report", "close", "done"}
    BY <1>0, <2>2 DEF LogTyped
  <2> QED BY <1>1, <2>1, <2>2, <2>3
<1>3. CASE RunStep
  <2>1. frAt = "step" /\ frAt' \in {"step", "flush", "report"} /\ UNCHANGED <<ackIndex, forgeLog>>
    BY <1>3 DEF RunStep, FrTo, atForge
  <2>2. UNCHANGED <<rows, total>> \/ (frAt' \in {"step", "flush"} /\ \E n \in {1, 2, 3} : AddLine(n))
    BY <1>3 DEF RunStep, FrTo, StepRows
  <2>3. CASE UNCHANGED <<rows, total>>
    BY <1>1, <2>1, <2>3
  <2>4. ASSUME NEW n \in {1, 2, 3}, AddLine(n), frAt' \in {"step", "flush"} PROVE LogInv'
    <3>1. n \in Nat /\ frAt # "done"
      BY <2>1
    <3> QED BY <2>1, <2>4, <3>1, AddsRows
  <2> QED BY <2>2, <2>3, <2>4
<1>4. CASE Flush
  <2>1. frAt = "flush" /\ frAt' \in {"report", "step"} /\ UNCHANGED total
    BY <1>4 DEF Flush, AfterFlush
  <2>2. ForgeTakes \in Seq(Nat) /\ Len(ForgeTakes) = total /\ Consecutive(ForgeTakes, 0)
    BY <2>1, TakesTheRest
  <2>3. \/ forgeLog' = ForgeTakes /\ ackIndex' = Len(forgeLog') /\ rows' = <<>>
        \/ forgeLog' \in {ForgeTakes, forgeLog} /\ UNCHANGED <<ackIndex, rows>>
    BY <1>4 DEF Flush, UpdateLog
  <2>4. CASE forgeLog' = ForgeTakes /\ ackIndex' = Len(forgeLog') /\ rows' = <<>>
    <3>1. rows' \in Seq(Nat) /\ Len(rows') = 0 /\ ackIndex' = total /\ total \in Nat
      BY <1>0, <2>2, <2>4 DEF LogTyped
    <3>2. LogTyped'
      BY <2>1, <2>2, <2>4, <3>1 DEF LogTyped
    <3>3. Consecutive(rows', ackIndex')
      BY <3>1 DEF Consecutive
    <3> QED BY <2>1, <2>2, <2>4, <3>1, <3>2, <3>3 DEF LogInv, LogFollows, Consecutive
  <2>5. CASE forgeLog' \in {ForgeTakes, forgeLog} /\ UNCHANGED <<ackIndex, rows>>
    <3>1. forgeLog' \in Seq(Nat) /\ ackIndex <= Len(forgeLog') /\ Len(forgeLog') <= total /\ Consecutive(forgeLog', 0)
      <4>1. Len(rows) \in Nat /\ ackIndex + Len(rows) = total /\ ackIndex \in Nat /\ total \in Nat
        BY <1>0, <2>1 DEF LogTyped, LogFollows
      <4>2. ackIndex <= total /\ total <= total
        BY <4>1
      <4>3. CASE forgeLog' = ForgeTakes
        BY <2>2, <4>2, <4>3
      <4>4. CASE forgeLog' = forgeLog
        BY <1>0, <4>4 DEF LogTyped, LogFollows
      <4> QED BY <2>5, <4>3, <4>4
    <3>2. LogTyped'
      BY <1>0, <2>1, <2>5, <3>1 DEF LogTyped
    <3> QED BY <1>0, <2>1, <2>5, <3>1, <3>2 DEF LogInv, LogFollows, Consecutive
  <2> QED BY <2>3, <2>4, <2>5
<1>5. CASE CloseLog
  <2>1. frAt = "close" /\ frAt' = "done" /\ rows' = <<>> /\ UNCHANGED <<total, ackIndex>> /\ forgeLog' \in {ForgeTakes, forgeLog}
    BY <1>5 DEF CloseLog, FrTo, UpdateLog
  <2>2. ForgeTakes \in Seq(Nat) /\ Len(ForgeTakes) = total /\ Consecutive(ForgeTakes, 0)
    BY <2>1, TakesTheRest
  <2>3. Len(rows) \in Nat /\ ackIndex + Len(rows) = total /\ ackIndex \in Nat /\ total \in Nat
    BY <1>0, <2>1 DEF LogTyped, LogFollows
  <2>4. ackIndex <= total /\ total <= total
    BY <2>3
  <2>5. forgeLog' \in Seq(Nat) /\ ackIndex <= Len(forgeLog') /\ Len(forgeLog') <= total /\ Consecutive(forgeLog', 0)
    <3>1. CASE forgeLog' = ForgeTakes
      BY <2>2, <2>4, <3>1
    <3>2. CASE forgeLog' = forgeLog
      BY <1>0, <3>2 DEF LogTyped, LogFollows
    <3> QED BY <2>1, <3>1, <3>2
  <2>6. rows' \in Seq(Nat)
    BY <2>1
  <2>7. LogTyped'
    BY <2>1, <2>3, <2>5, <2>6 DEF LogTyped
  <2> QED BY <2>1, <2>5, <2>7 DEF LogInv, LogFollows, Consecutive
<1> QED BY <1>2, <1>3, <1>4, <1>5 DEF ForgeNext, ForgeStep

-----------------------------------------------------------------------------
LEMMA ResultsKept ==
  ASSUME StepsSoFar, ResultsKnown, ResultTrue, UNCHANGED <<stepResults, frStep, jobResult>>,
         forgeResult' \in {forgeResult, "running"},
         \/ frAt' = frAt
         \/ frAt' = "done"
         \/ frAt \in {"register", "declare", "poll", "backoff", "start"} /\ frAt' \in {"declare", "poll", "backoff", "start", "step"}
  PROVE  StepsSoFar' /\ ResultsKnown' /\ ResultTrue'
<1>1. StepsSoFar'
  BY DEF StepsSoFar, Fine, NotBegun
<1>2. ResultsKnown'
  BY DEF ResultsKnown, Verdict, Fine, NotBegun
<1>3. ResultTrue'
  BY DEF ResultTrue
<1> QED BY <1>1, <1>2, <1>3

LEMMA ResultsStep ==
  ASSUME StepsSoFar, ResultsKnown, ResultTrue, [ForgeNext]_frVars
  PROVE  StepsSoFar' /\ ResultsKnown' /\ ResultTrue'
<1>1. CASE RegisterRunner \/ Declare \/ FetchTask \/ FetchTaskFails \/ poll \/ TaskStarts \/ QueueTask \/ CancelRunner
           \/ CloseLog \/ UNCHANGED frVars
  <2>1. UNCHANGED <<stepResults, frStep, jobResult>> /\ forgeResult' \in {forgeResult, "running"}
    BY <1>1 DEF RegisterRunner, Declare, FetchTask, FetchTaskFails, poll, TaskStarts, QueueTask, CancelRunner, CloseLog,
       frVars, frTask, atForge
  <2>2. \/ frAt' = frAt
        \/ frAt' = "done"
        \/ frAt \in {"register", "declare", "poll", "backoff", "start"} /\ frAt' \in {"declare", "poll", "backoff", "start", "step"}
    BY <1>1 DEF RegisterRunner, Declare, FetchTask, FetchTaskFails, poll, TaskStarts, QueueTask, CancelRunner, CloseLog,
       frVars, FrTo
  <2> QED BY <2>1, <2>2, ResultsKept
<1>2. CASE RunStep
  <2>1. frAt = "step" /\ frStep \in AllSteps /\ UNCHANGED forgeResult /\ jobResult = "success"
        /\ (\A s \in AllSteps : IF s < frStep THEN Fine(s) ELSE NotBegun(s))
        /\ stepResults \in [AllSteps -> StepResults] /\ frStep \in 1..(Steps + 1)
    BY <1>2 DEF RunStep, FrTo, atForge, StepsSoFar
  <2>2. forgeResult \notin {"success", "failure"}
    BY <2>1 DEF ResultsKnown
  <2>3. ResultTrue'
    BY <2>1, <2>2 DEF ResultTrue
  <2>4. CASE frCancelled /\ FrTo("step", "report") /\ jobResult' = "cancelled" /\ UNCHANGED <<frStep, stepResults, rows, total>>
    BY <2>1, <2>2, <2>3, <2>4 DEF StepsSoFar, ResultsKnown, FrTo, Verdict
  <2>5. CASE /\ ~frCancelled /\ FrTo("step", "step") /\ AddLine(1) /\ frStep' = frStep + 1
             /\ stepResults' = [stepResults EXCEPT ![frStep] = "skipped"] /\ UNCHANGED jobResult
    <3>1. frStep' \in 1..(Steps + 1) /\ stepResults' \in [AllSteps -> StepResults]
      BY <2>1, <2>5, ForgeNumbers DEF StepResults
    <3>2. ASSUME NEW s \in AllSteps PROVE IF s < frStep' THEN Fine(s)' ELSE NotBegun(s)'
      <4>1. CASE s = frStep
        BY <2>1, <2>5, <4>1, ForgeNumbers DEF Fine
      <4>2. CASE s # frStep
        <5>1. s < frStep' <=> s < frStep
          BY <2>1, <2>5, <4>2, ForgeNumbers
        <5>2. stepResults'[s] = stepResults[s]
          BY <2>1, <2>5, <4>2
        <5> QED BY <2>1, <5>1, <5>2 DEF Fine, NotBegun
      <4> QED BY <4>1, <4>2
    <3>3. frAt' = "step" /\ jobResult' = "success"
      BY <2>1, <2>5 DEF FrTo
    <3>4. StepsSoFar'
      BY <3>1, <3>2, <3>3 DEF StepsSoFar
    <3> QED BY <2>1, <2>2, <2>3, <3>3, <3>4 DEF ResultsKnown
  <2>6. ASSUME NEW r \in {"success", "failure"}, RunScript(r), FrTo("step", "flush"), UNCHANGED frStep
        PROVE  StepsSoFar' /\ ResultsKnown' /\ ResultTrue'
    <3>1. stepResults' = [stepResults EXCEPT ![frStep] = r] /\ frAt' = "flush"
          /\ ((r = "success" /\ jobResult' = "success") \/ (r = "failure" /\ jobResult' = "failure"))
      BY <2>1, <2>6 DEF RunScript, FrTo
    <3>2. stepResults' \in [AllSteps -> StepResults] /\ stepResults'[frStep] = r
          /\ \A s \in AllSteps : s # frStep => stepResults'[s] = stepResults[s]
      BY <2>1, <3>1 DEF StepResults
    <3>3. ASSUME NEW s \in AllSteps PROVE (s < frStep => Fine(s)') /\ (s > frStep => NotBegun(s)')
      <4>1. (s < frStep => s # frStep) /\ (s > frStep => s # frStep /\ ~(s < frStep))
        BY <2>1, ForgeNumbers
      <4> QED BY <2>1, <3>2, <4>1 DEF Fine, NotBegun
    <3>4. StepsSoFar'
      BY <2>1, <2>6, <3>1, <3>2, <3>3 DEF StepsSoFar, Fine
    <3> QED BY <2>1, <2>2, <2>3, <3>1, <3>4 DEF ResultsKnown
  <2> QED BY <1>2, <2>4, <2>5, <2>6 DEF RunStep
<1>3. CASE StepsOver
  <2>1. frAt = "step" /\ frAt' = "report" /\ frStep > Steps /\ UNCHANGED <<stepResults, frStep, jobResult, forgeResult>>
    BY <1>3 DEF StepsOver, FrTo, frTask, atForge
  <2>2. \A s \in AllSteps : s < frStep
    BY <2>1, ForgeNumbers DEF StepsSoFar
  <2>3. jobResult = "success" /\ \A s \in AllSteps : Fine(s)
    BY <2>1, <2>2 DEF StepsSoFar
  <2> QED BY <2>1, <2>3 DEF StepsSoFar, ResultsKnown, ResultTrue, Verdict, Fine
<1>4. CASE Flush
  <2>1. /\ frAt = "flush" /\ UNCHANGED <<stepResults, jobResult, forgeResult>> /\ frStep \in AllSteps
        /\ \A s \in AllSteps : (s < frStep => Fine(s)) /\ (s > frStep => NotBegun(s))
        /\ \/ jobResult = "success" /\ Fine(frStep)
           \/ jobResult = "failure" /\ stepResults[frStep] = "failure"
    BY <1>4 DEF Flush, StepsSoFar
  <2>2. forgeResult \notin {"success", "failure"} /\ ResultTrue'
    BY <2>1 DEF ResultsKnown, ResultTrue
  <2>3. CASE jobResult = "failure"
    <3>1. frAt' = "report" /\ UNCHANGED frStep
      BY <1>4, <2>3 DEF Flush, AfterFlush
    <3>2. \A t \in frStep + 1..Steps : NotBegun(t)
      BY <2>1, ForgeNumbers
    <3>3. Verdict(jobResult)'
      BY <2>1, <2>3, <3>2 DEF Verdict, NotBegun
    <3>4. StepsSoFar'
      BY <2>1, <3>1 DEF StepsSoFar
    <3> QED BY <2>1, <2>2, <3>1, <3>3, <3>4 DEF ResultsKnown
  <2>4. CASE jobResult # "failure"
    <3>1. frAt' = "step" /\ frStep' = frStep + 1 /\ jobResult = "success" /\ Fine(frStep)
      BY <1>4, <2>1, <2>4 DEF Flush, AfterFlush
    <3>2. ASSUME NEW s \in AllSteps PROVE IF s < frStep' THEN Fine(s)' ELSE NotBegun(s)'
      <4>1. s < frStep' => s < frStep \/ s = frStep
        BY <2>1, <3>1, ForgeNumbers
      <4>2. ~(s < frStep') => s > frStep
        BY <2>1, <3>1, ForgeNumbers
      <4> QED BY <2>1, <3>1, <4>1, <4>2 DEF Fine, NotBegun
    <3>3. frStep' \in 1..(Steps + 1)
      BY <2>1, <3>1, ForgeNumbers
    <3>4. StepsSoFar'
      BY <2>1, <3>1, <3>2, <3>3 DEF StepsSoFar
    <3> QED BY <2>1, <2>2, <3>1, <3>4 DEF ResultsKnown
  <2> QED BY <2>3, <2>4
<1>5. CASE UpdateTask
  <2>1. frAt = "report" /\ frAt' = "close" /\ UNCHANGED <<stepResults, frStep, jobResult>> /\ forgeResult' \in {forgeResult, jobResult}
    BY <1>5 DEF UpdateTask, FrTo, frTask
  <2>2. Verdict(jobResult) /\ Verdict(forgeResult)
    BY <2>1 DEF ResultsKnown, Verdict
  <2>3. ResultTrue'
    BY <2>1, <2>2 DEF ResultTrue, Verdict, Fine, NotBegun
  <2> QED BY <2>1, <2>2, <2>3 DEF StepsSoFar, ResultsKnown, Verdict, Fine, NotBegun
<1> QED BY <1>1, <1>2, <1>3, <1>4, <1>5 DEF ForgeNext, ForgeStep

LEMMA ForgeStarts == ForgeInit => ForgeInv
<1> SUFFICES ASSUME ForgeInit PROVE ForgeInv
  OBVIOUS
<1>1. /\ frAt = "register" /\ frStep = 1 /\ stepResults = [s \in AllSteps |-> "unspecified"] /\ jobResult = "success"
      /\ rows = <<>> /\ total = 0 /\ ackIndex = 0 /\ forgeLog = <<>> /\ forgeResult = "none"
  BY DEF ForgeInit
<1>2. Len(rows) = 0 /\ Len(forgeLog) = 0 /\ rows \in Seq(Nat) /\ forgeLog \in Seq(Nat)
  BY <1>1
<1>3. LogTyped
  BY <1>1, <1>2 DEF LogTyped
<1>4. Consecutive(rows, ackIndex) /\ Consecutive(forgeLog, 0)
  BY <1>2 DEF Consecutive
<1>5. LogFollows
  BY <1>1, <1>2, <1>4 DEF LogFollows
<1>6. StepsSoFar
  <2>1. \A s \in AllSteps : ~(s < 1)
    BY ForgeNumbers
  <2>2. 1 \in 1..(Steps + 1)
    BY ForgeNumbers
  <2> QED BY <1>1, <2>1, <2>2 DEF StepsSoFar, NotBegun, StepResults
<1>7. ResultsKnown /\ ResultTrue
  BY <1>1 DEF ResultsKnown, ResultTrue
<1> QED BY <1>3, <1>5, <1>6, <1>7 DEF ForgeInv, LogInv

LEMMA ForgeSafe == ForgeInv => LogExact /\ ResultTrue
<1> SUFFICES ASSUME ForgeInv PROVE LogExact
  BY DEF ForgeInv
<1>1. LogTyped /\ LogFollows
  BY DEF ForgeInv, LogInv
<1>2. \A i \in 1..Len(forgeLog) : forgeLog[i] = i
  BY <1>1 DEF LogTyped, LogFollows, Consecutive
<1>3. Len(forgeLog) \in ackIndex..total
  BY <1>1 DEF LogTyped, LogFollows
<1> QED BY <1>1, <1>2, <1>3 DEF LogExact, LogFollows

-----------------------------------------------------------------------------
(* While a tunnel serves, every repository has its hook and the daemon      *)
(* knows them; what it hung up it takes down, unless a delete failed or it  *)
(* was killed; a pool's hooks stay.  A task's log at the forge is a prefix  *)
(* of the job's, and its result is what the steps made of it.  For every    *)
(* number of repositories, URLs and steps, and however many tunnels drop,   *)
(* API calls fail and replies are lost.                                     *)
THEOREM ForgesAreToldRight == HostSpec => ForgesToldRight
<1>1. HostStart => IntakeInv /\ ForgeInv
  BY IntakeStarts, ForgeStarts DEF HostStart, HostInit
<1>2. [HostNext]_<<focus, hostVars>> => [IntakeNext]_intakeVars /\ [ForgeNext]_frVars
  BY DEF HostNext, HostFrozen, HostMoves, hostVars
<1>3. IntakeInv /\ ForgeInv /\ [HostNext]_<<focus, hostVars>> => (IntakeInv /\ ForgeInv)'
  BY <1>2, IntakeInvStep, LogInvStep, ResultsStep DEF ForgeInv
<1>4. IntakeInv /\ [HostNext]_<<focus, hostVars>> => [hookMode = "pool" => hooks \subseteq hooks']_intakeVars
  BY <1>2, IntakeInvStep
<1>5. IntakeInv /\ ForgeInv =>
        /\ focus = "intake" => ServingIsHooked /\ HooksWithdrawn
        /\ focus = "forge" => LogExact /\ ResultTrue
  BY IntakeSafe, ForgeSafe
<1> QED BY <1>1, <1>3, <1>4, <1>5, PTL DEF HostSpec, ForgesToldRight, SharedHooksKept

-----------------------------------------------------------------------------
(* A token is due at most its life after the clock's bound, and so is the   *)
(* time at which the loop wakes.                                            *)
LEMMA TokenTypes ==
  ASSUME TokenInv, TokenTypeOK, TokenNext
  PROVE  TokenTypeOK'
<1> DEFINE Limit == MaxClock + Life
           Clocked == clock \in 0..MaxClock /\ expires \in 0..Limit /\ wakeAt \in 0..Limit /\ exchErrs \in 0..MaxExchErrs
           Exchanged == exchSent \in [Exchangers -> -1..MaxClock] /\ minted \in [Exchangers -> -1..Limit]
           Served == served.token \in 0..Limit /\ served.at \in 0..MaxClock /\ served.failed \in BOOLEAN
           Held == refreshMu \in Callers \cup {"free"} /\ callFailed \in [Callers -> BOOLEAN]
<1>1. Clocked /\ Exchanged /\ Served /\ Held
  BY DEF TokenTypeOK
<1>2. TokenTyped'
  BY TokenInvStep DEF TokenInv
<1>3. /\ MaxClock \in Nat /\ Life \in Nat /\ Limit \in Nat /\ LoopMargin \in Nat /\ MaxExchErrs \in Nat
      /\ clock \in Nat /\ clock <= MaxClock /\ clock \in 0..MaxClock /\ clock \in -1..MaxClock
  BY <1>1, TokenAssumption
<1>4. ASSUME NEW e \in 0..Limit PROVE NextWake(e) \in 0..Limit
  BY <1>3, <1>4 DEF NextWake
<1>5. clock + Life \in -1..Limit /\ -1 \in -1..Limit /\ -1 \in -1..MaxClock
  BY <1>3
<1>6. ASSUME NEW p \in Exchangers, Stored(p) PROVE minted[p] \in 0..Limit
  <2>1. minted[p] \in -1..Limit /\ minted[p] >= 0
    BY <1>1, <1>6 DEF Stored
  <2> QED BY <1>3, <2>1
<1>7. Refused => exchErrs' \in 0..MaxExchErrs
  BY <1>1, <1>3 DEF Refused
<1> HIDE DEF Limit
<1> USE DEF LoopSame, ExchSame, TokenTo
<1>8. ASSUME NEW c \in Callers, Token(c) \/ LockRefresh(c) \/ ReadToken(c) PROVE Clocked' /\ Exchanged' /\ Served' /\ Held'
  <2>1. UNCHANGED <<clock, expires, wakeAt, exchErrs, exchSent, minted>>
    BY <1>8 DEF Token, LockRefresh, ReadToken
  <2>2. Served'
    <3>1. ASSUME NEW b \in BOOLEAN, served' = [token |-> expires, at |-> clock, failed |-> b] PROVE Served'
      BY <1>1, <1>3, <3>1
    <3>2. callFailed[c] \in BOOLEAN /\ FALSE \in BOOLEAN
      BY <1>1
    <3>3. served' = served \/ \E b \in {FALSE, callFailed[c]} : served' = [token |-> expires, at |-> clock, failed |-> b]
      BY <1>8 DEF Token, LockRefresh, ReadToken, Hand
    <3> QED BY <1>1, <3>1, <3>2, <3>3
  <2>3. Held'
    BY <1>1, <1>8 DEF Token, LockRefresh, ReadToken
  <2> QED BY <1>1, <2>1, <2>2, <2>3
<1>9. ASSUME NEW c \in Callers, LookAgain(c) PROVE Clocked' /\ Exchanged' /\ Served' /\ Held'
  BY <1>1, <1>3, <1>9 DEF LookAgain, Exchangers
<1>10. ASSUME NEW c \in Callers, CallerExchange(c) PROVE Clocked' /\ Exchanged' /\ Served' /\ Held'
  <2>1. c \in Exchangers /\ UNCHANGED <<clock, wakeAt, served, refreshMu>>
    BY <1>10 DEF CallerExchange, Exchangers
  <2>2. Exchanged'
    BY <1>1, <1>5, <1>10, <2>1 DEF CallerExchange, ExchOver
  <2>3. expires' \in 0..Limit /\ exchErrs' \in 0..MaxExchErrs
    BY <1>1, <1>6, <1>7, <1>10, <2>1 DEF CallerExchange, Stored, Refused
  <2>4. Held'
    BY <1>1, <1>10, <2>1 DEF CallerExchange
  <2> QED BY <1>1, <2>1, <2>2, <2>3, <2>4
<1>11. ASSUME NEW p \in Exchangers, Mint(p) PROVE Clocked' /\ Exchanged' /\ Served' /\ Held'
  BY <1>1, <1>5, <1>11 DEF Mint
<1>12. ASSUME TokenTick PROVE Clocked' /\ Exchanged' /\ Served' /\ Held'
  BY <1>1, <1>3, <1>12 DEF TokenTick
<1>13. ASSUME LoopWakes \/ LoopResumes PROVE Clocked' /\ Exchanged' /\ Served' /\ Held'
  <2>1. Loop \in Exchangers
    BY DEF Exchangers
  <2> QED BY <1>1, <1>3, <1>4, <1>13, <2>1 DEF LoopWakes, LoopResumes
<1>14. ASSUME LoopExchange PROVE Clocked' /\ Exchanged' /\ Served' /\ Held'
  <2>1. Loop \in Exchangers /\ UNCHANGED <<clock, served, callFailed, refreshMu>>
    BY <1>14 DEF Exchangers, LoopExchange
  <2>2. Exchanged'
    BY <1>1, <1>5, <1>14, <2>1 DEF LoopExchange, ExchOver
  <2>3. expires' \in 0..Limit /\ exchErrs' \in 0..MaxExchErrs /\ wakeAt' \in 0..Limit
    BY <1>1, <1>4, <1>6, <1>7, <1>14, <2>1 DEF LoopExchange, Stored, Refused
  <2> QED BY <1>1, <2>1, <2>2, <2>3
<1>15. Clocked' /\ Exchanged' /\ Served' /\ Held'
  BY <1>8, <1>9, <1>10, <1>11, <1>12, <1>13, <1>14 DEF TokenNext, CallerStep
<1> QED BY <1>2, <1>15 DEF Limit, TokenTyped, TokenTypeOK

-----------------------------------------------------------------------------
(* Cloudflared: a child that is started is one of the children there are.   *)
LEMMA CfTypes ==
  ASSUME CfInv, CfTypeOK, CfNext
  PROVE  CfTypeOK'
<1> DEFINE CfNumbered == cfLn \in 0..MaxChildren /\ openLn \in 0..MaxChildren /\ ours \in 1..(MaxChildren + 1)
                      /\ cfFaults \in 0..MaxCfFaults
           Rest == closing \in BOOLEAN /\ bound \subseteq Kids /\ saw \in [Kids -> [closing : BOOLEAN, ln : 0..MaxChildren]]
<1>1. CfNumbered /\ Rest
  BY DEF CfTypeOK
<1>2. CfTyped' /\ CfTyped
  BY CfInvStep DEF CfInv
<1>3. MaxChildren \in Nat /\ MaxCfFaults \in Nat
  BY CfAssumption
<1>4. NextKid \in 1..(MaxChildren + 1)
  <2>1. NextKid \in Nat /\ NextKid - 1 \in 0..MaxChildren
    BY <1>2, NextKidIs
  <2> QED BY <1>3, <2>1
<1>5. CfFault \/ CfFine => cfFaults' \in 0..MaxCfFaults
  BY <1>1, <1>3 DEF CfFault, CfFine
<1>6. 0 \in 0..MaxChildren /\ \A k \in Kids : k \in 0..MaxChildren
  BY CfNumbers
<1>7. ASSUME startCloudflared PROVE CfNumbered' /\ Rest'
  <2> DEFINE k == NextKid
  <2>1. k \in Kids /\ bound' \in {bound, bound \cup {k}} /\ (CfFault \/ CfFine) /\ cfLn' = k /\ openLn' = k /\ closing' = FALSE
        /\ UNCHANGED <<ours, saw>>
    BY <1>7 DEF startCloudflared
  <2> HIDE DEF k
  <2> QED BY <1>1, <1>5, <1>6, <2>1
<1>8. ASSUME waitForReady \/ closeTunnel \/ SignalChild \/ WaitDone \/ WaitTimesOut PROVE CfNumbered' /\ Rest'
  BY <1>1, <1>5, <1>6, <1>8 DEF waitForReady, closeTunnel, SignalChild, WaitDone, WaitTimesOut, Closed, CfFine,
     cfChildren, cfOwn, cfWait
<1>9. ASSUME KillTunnel PROVE CfNumbered' /\ Rest'
  BY <1>1, <1>4, <1>5, <1>6, <1>9 DEF KillTunnel
<1>10. ASSUME NEW k \in Kids, ChildExits(k) \/ WaiterReads(k) \/ WaiterActs(k) PROVE CfNumbered' /\ Rest'
  BY <1>1, <1>5, <1>6, <1>10 DEF ChildExits, WaiterReads, WaiterActs, CfFine, cfChildren, cfOwn, cfWait
<1>11. CfNumbered' /\ Rest'
  BY <1>7, <1>8, <1>9, <1>10 DEF CfNext
<1> QED BY <1>2, <1>11 DEF CfTyped, CfTypeOK

-----------------------------------------------------------------------------
(* A restart is attempted restartAttempts times at most: the supervisor     *)
(* starts with none, and asks again only below the limit.                   *)
TriesCounted ==
  \A u \in Upgrades :
    /\ upAt[u] \in {"new", "delay"} \cup UpPhases => upTries[u] = 0
    /\ upAt[u] = "restart" => upTries[u] < RestartAttempts

UpgradeTypes == UpgradeTypeOK /\ TriesCounted

LEMMA UpgradeTypesStep ==
  ASSUME UpgradeInv, UpgradeTypes, UpgradeNext
  PROVE  UpgradeTypes'
<1> DEFINE Tries == upTries \in [Upgrades -> 0..RestartAttempts]
           Bins == archive \in {"gone", "none", "good", "bad"} /\ {stagedBin, bin, bak} \subseteq Binaries
                   /\ daemon \in {"old", "new", "wrong", "down"}
           Rest == restartAsked \in BOOLEAN /\ cordoned \in BOOLEAN /\ job \in {"none", "claimed", "running"}
                   /\ stranded \in BOOLEAN /\ deaths \in 0..MaxDaemonDeaths
                   /\ mixed \in BOOLEAN /\ crossed \in BOOLEAN /\ spoilt \subseteq Upgrades
           Places == upAt \in [Upgrades -> {"new", "over"} \cup UpPhases \cup Supervising]
<1>1. Tries /\ TriesCounted /\ Bins /\ Rest /\ Places
  BY DEF UpgradeTypes, UpgradeTypeOK
<1>2. UpgradeRuns'
  BY UpgradeInvStep DEF UpgradeInv
<1>3. RestartAttempts \in Nat /\ RestartAttempts > 0 /\ MaxDaemonDeaths \in Nat
  BY UpgradeAssumption
<1> USE DEF UpTo, upFiles, upGhosts, undrain, Fail
<1>4. ASSUME NEW u \in Upgrades, UpgradeStep(u) PROVE Bins' /\ Rest'
  <2>1. Bins'
    <3> USE DEF Binaries
    <3>1. CASE Run(u) \/ waitDrain(u) \/ MakeStage(u) \/ downloadFile(u) \/ verifyChecksum(u)
      BY <1>1, <3>1 DEF Run, waitDrain, MakeStage, downloadFile, verifyChecksum
    <3>2. CASE Aborted(u) \/ extractBinary(u) \/ probeVersion(u) \/ MoveAsideFails(u)
      BY <1>1, <3>2 DEF Aborted, extractBinary, probeVersion, MoveAsideFails
    <3>3. CASE RemoveBackup(u) \/ swapBinary(u) \/ MoveIn(u)
      BY <1>1, <3>3 DEF RemoveBackup, swapBinary, MoveIn
    <3>4. CASE MoveInFails(u) \/ Rollback(u) \/ LeaveStage(u)
      BY <1>1, <3>4 DEF MoveInFails, Rollback, LeaveStage
    <3>5. CASE superviseRestart(u) \/ triggerRestart(u) \/ waitUnlessShutdown(u)
      BY <1>1, <3>5 DEF superviseRestart, triggerRestart, waitUnlessShutdown
    <3> QED BY <1>4, <3>1, <3>2, <3>3, <3>4, <3>5 DEF UpgradeStep
  <2>2. Rest'
    <3>0. didCordon \subseteq Upgrades
      BY DEF UpgradeTypes, UpgradeTypeOK
    <3>1. CASE Run(u) \/ waitDrain(u) \/ MakeStage(u) \/ downloadFile(u) \/ verifyChecksum(u)
      BY <1>1, <3>1 DEF Run, waitDrain, MakeStage, downloadFile, verifyChecksum
    <3>2. CASE Aborted(u) \/ extractBinary(u) \/ probeVersion(u) \/ MoveAsideFails(u)
      BY <1>1, <3>0, <3>2 DEF Aborted, extractBinary, probeVersion, MoveAsideFails
    <3>3. CASE RemoveBackup(u) \/ swapBinary(u) \/ MoveIn(u)
      BY <1>1, <3>3 DEF RemoveBackup, swapBinary, MoveIn
    <3>4. CASE MoveInFails(u) \/ Rollback(u) \/ LeaveStage(u)
      BY <1>1, <3>0, <3>4 DEF MoveInFails, Rollback, LeaveStage
    <3>5. CASE superviseRestart(u) \/ triggerRestart(u) \/ waitUnlessShutdown(u)
      BY <1>1, <3>0, <3>5 DEF superviseRestart, triggerRestart, waitUnlessShutdown
    <3> QED BY <1>4, <3>1, <3>2, <3>3, <3>4, <3>5 DEF UpgradeStep
  <2> QED BY <2>1, <2>2
<1>5. ASSUME NEW u \in Upgrades, UpgradeStep(u) PROVE Tries' /\ TriesCounted'
  <2>1. CASE triggerRestart(u)
    <3>1. upAt[u] = "restart" /\ upAt' = [upAt EXCEPT ![u] = "watch"] /\ upTries' = [upTries EXCEPT ![u] = @ + 1]
      BY <2>1 DEF triggerRestart
    <3>2. upTries[u] + 1 \in 0..RestartAttempts
      BY <1>1, <1>3, <3>1 DEF TriesCounted
    <3>3. Tries'
      BY <1>1, <3>1, <3>2
    <3>4. TriesCounted'
      BY <1>1, <3>1 DEF TriesCounted, UpPhases, Staging, Swapping
    <3> QED BY <3>3, <3>4
  <2>2. CASE superviseRestart(u)
    BY <1>1, <1>3, <2>2 DEF superviseRestart, TriesCounted, UpPhases, Staging, Swapping
  <2>3. CASE waitUnlessShutdown(u)
    BY <1>1, <1>3, <2>3 DEF waitUnlessShutdown, TriesCounted, UpPhases, Staging, Swapping
  <2>4. CASE ~(triggerRestart(u) \/ superviseRestart(u) \/ waitUnlessShutdown(u))
    <3>1. UNCHANGED upTries
      BY <1>5, <2>4 DEF UpgradeStep, Run, waitDrain, Aborted, MakeStage, downloadFile, verifyChecksum, extractBinary,
         probeVersion, RemoveBackup, swapBinary, MoveAsideFails, MoveIn, MoveInFails, Rollback, LeaveStage
    <3>2. PICK p \in UpPhases \cup {"over", "delay"} : upAt[u] \in {"new"} \cup UpPhases /\ upAt' = [upAt EXCEPT ![u] = p]
      <4> USE DEF UpPhases, Staging, Swapping
      <4>1. CASE Run(u)
        BY <4>1 DEF Run
      <4>2. CASE waitDrain(u) \/ Aborted(u) \/ MakeStage(u) \/ downloadFile(u) \/ verifyChecksum(u) \/ extractBinary(u)
        BY <4>2 DEF waitDrain, Aborted, MakeStage, downloadFile, verifyChecksum, extractBinary
      <4>3. CASE probeVersion(u) \/ RemoveBackup(u) \/ swapBinary(u) \/ MoveAsideFails(u) \/ MoveIn(u)
        BY <4>3 DEF probeVersion, RemoveBackup, swapBinary, MoveAsideFails, MoveIn
      <4>4. CASE MoveInFails(u) \/ Rollback(u) \/ LeaveStage(u)
        BY <4>4 DEF MoveInFails, Rollback, LeaveStage
      <4> QED BY <1>5, <2>4, <4>1, <4>2, <4>3, <4>4 DEF UpgradeStep
    <3>3. p # "restart"
      BY DEF UpPhases, Staging, Swapping
    <3> QED BY <1>1, <3>1, <3>2, <3>3 DEF TriesCounted
  <2> QED BY <2>1, <2>2, <2>3, <2>4
<1>6. ASSUME RestartTakes \/ DaemonDies PROVE Tries' /\ TriesCounted' /\ Bins' /\ Rest'
  <2>1. DaemonGoes /\ deaths' \in 0..MaxDaemonDeaths
    BY <1>1, <1>3, <1>6 DEF RestartTakes, DaemonDies
  <2>2. \A u \in Upgrades : upAt'[u] = IF upAt[u] = "new" THEN "new" ELSE "over"
    BY <2>1 DEF DaemonGoes
  <2>3. TriesCounted'
    BY <1>1, <2>1, <2>2 DEF DaemonGoes, TriesCounted, UpPhases, Staging, Swapping
  <2> QED BY <1>1, <2>1, <2>3 DEF DaemonGoes
<1>7. ASSUME UpBoots \/ Cordon \/ Uncordon \/ ClaimJob \/ JobStarts \/ JobEnds
      PROVE  Tries' /\ TriesCounted' /\ Bins' /\ Rest'
  <2>1. didCordon \subseteq Upgrades
    BY DEF UpgradeTypes, UpgradeTypeOK
  <2>2. CASE UpBoots
    BY <1>1, <2>2 DEF UpBoots, TriesCounted
  <2>3. CASE Cordon \/ Uncordon
    BY <1>1, <2>1, <2>3 DEF Cordon, Uncordon, TriesCounted
  <2>4. CASE ClaimJob \/ JobStarts \/ JobEnds
    BY <1>1, <2>4 DEF ClaimJob, JobStarts, JobEnds, TriesCounted
  <2> QED BY <1>7, <2>2, <2>3, <2>4
<1>8. Tries' /\ TriesCounted' /\ Bins' /\ Rest'
  BY <1>4, <1>5, <1>6, <1>7 DEF UpgradeNext
<1>9. (didCordon \subseteq Upgrades)'
  BY UpgradeInvStep DEF UpgradeInv, DrainKept
<1> QED BY <1>2, <1>8, <1>9 DEF UpgradeRuns, UpgradeTypes, UpgradeTypeOK

(* No cleanup is pushed twice: each is, by one stage, and only the stages   *)
(* that were passed have pushed theirs.                                     *)
PushedAt(d) ==
  IF d \in {"containerd", "network"} THEN IF d = "network" THEN 4 ELSE 1
  ELSE IF role = "host"
    THEN CASE d = "gomod" -> 5 [] d = "cargo" -> 6 [] d = "pkg" -> 7 [] d = "actions" -> 8 [] d = "buildkit" -> 9
           [] OTHER -> 12
    ELSE CASE d = "buildkit" -> 5 [] d = "dispatchServer" -> 8 [] OTHER -> 9

PushedInOrder ==
  /\ \A i \in 1..Len(defers) : PushedAt(defers[i]) < serveStage
  /\ \A i, j \in 1..Len(defers) : defers[i] = defers[j] => i = j

Everything == Startable \cup {"containerd"}

DaemonTypes ==
  /\ PushedInOrder
  /\ up \subseteq Everything /\ advertised \subseteq Caches /\ answering \subseteq Caches /\ jobsTaken \in 0..MaxJobs
  /\ forge \in BOOLEAN /\ dindCfg \in BOOLEAN /\ runtimeDind \in BOOLEAN /\ signalled \in BOOLEAN

LEMMA PushesInOrder ==
  ASSUME PushedInOrder, defers \in Seq(Deferrable), serveStage \in Nat,
         \/ UNCHANGED defers
         \/ \E d \in Deferrable : Push(d) /\ PushedAt(d) = serveStage,
         serveStage' = serveStage + 1, UNCHANGED role
  PROVE  PushedInOrder'
<1>1. /\ \A i \in 1..Len(defers) : PushedAt(defers[i]) < serveStage
      /\ \A i, j \in 1..Len(defers) : defers[i] = defers[j] => i = j
  BY DEF PushedInOrder
<1>2. \A d : PushedAt(d)' = PushedAt(d) /\ PushedAt(d) \in Nat
  BY DEF PushedAt
<1>3. CASE UNCHANGED defers
  BY <1>1, <1>2, <1>3 DEF PushedInOrder
<1>4. ASSUME NEW d \in Deferrable, Push(d), PushedAt(d) = serveStage PROVE PushedInOrder'
  <2> DEFINE n == Len(defers)
  <2>1. n \in Nat /\ Len(defers') = n + 1 /\ defers'[n + 1] = d /\ \A i \in 1..n : defers'[i] = defers[i]
    BY <1>4 DEF Push
  <2>2. ASSUME NEW i \in 1..(n + 1) PROVE i = n + 1 \/ i \in 1..n
    BY <2>1
  <2> HIDE DEF n
  <2>3. \A i \in 1..n : PushedAt(defers'[i]) < serveStage /\ defers'[i] # d
    BY <1>1, <1>2, <1>4, <2>1 DEF n
  <2>4. ASSUME NEW i \in 1..(n + 1) PROVE PushedAt(defers'[i]) < serveStage + 1
    <3>1. CASE i = n + 1
      BY <1>4, <2>1, <3>1
    <3>2. CASE i \in 1..n
      BY <1>2, <2>3, <3>2
    <3> QED BY <2>2, <3>1, <3>2
  <2>5. ASSUME NEW i \in 1..(n + 1), NEW j \in 1..(n + 1), defers'[i] = defers'[j] PROVE i = j
    <3>1. CASE i \in 1..n /\ j \in 1..n
      BY <1>1, <2>1, <2>5, <3>1 DEF n
    <3>2. CASE i = n + 1 \/ j = n + 1
      BY <2>1, <2>2, <2>3, <2>5, <3>2
    <3> QED BY <2>2, <3>1, <3>2
  <2>6. (\A i \in 1..Len(defers) : PushedAt(defers[i]) < serveStage)'
    BY <1>2, <2>1, <2>4
  <2>7. \A i, j \in 1..Len(defers') : defers'[i] = defers'[j] => i = j
    BY <2>1, <2>5
  <2> QED BY <2>6, <2>7 DEF PushedInOrder
<1> QED BY <1>3, <1>4

LEMMA DaemonTypesStep ==
  ASSUME DaemonInv, DaemonTypes, DaemonNext
  PROVE  DaemonTypes'
<1> DEFINE KnownOnly == up \subseteq Everything /\ advertised \subseteq Caches /\ answering \subseteq Caches /\ jobsTaken \in 0..MaxJobs
           Flags == forge \in BOOLEAN /\ dindCfg \in BOOLEAN /\ runtimeDind \in BOOLEAN /\ signalled \in BOOLEAN
<1>1. KnownOnly /\ Flags /\ PushedInOrder
  BY DEF DaemonTypes
<1>2. /\ role \in {"host", "worker"} /\ serveStage \in 0..LastStage /\ serveStage \in Nat /\ defers \in Seq(Deferrable)
      /\ Len(defers) <= serveStage /\ (serveStage = 0 => role = "host")
  BY DEF DaemonInv, ServeCounts, LastStage
<1>3. Here = IF role = "host" THEN HostStage(serveStage) ELSE WorkerStage(serveStage)
  BY <1>2, StagesAre
<1>4. Here \in Deferrable => PushedAt(Here) = IF Here = "network" THEN 4 ELSE serveStage
  <2>1. CASE role = "host"
    <3>1. serveStage \in 0..15 /\ Here = HostStage(serveStage)
      BY <1>2, <1>3, <2>1 DEF LastStage
    <3>2. serveStage \in {0, 1, 2, 3, 4, 5, 6, 7, 8, 9, 10, 11, 12, 13, 14, 15}
      BY <3>1
    <3> QED BY <2>1, <3>1, <3>2 DEF HostStage, PushedAt, Deferrable, Caches
  <2>2. CASE role = "worker"
    <3>1. serveStage \in 0..10 /\ Here = WorkerStage(serveStage)
      BY <1>2, <1>3, <2>2 DEF LastStage
    <3> QED BY <2>2, <3>1 DEF WorkerStage, PushedAt, Deferrable, Caches
  <2> QED BY <1>2, <2>1, <2>2
<1>5. Here = "firewall" => PushedAt("network") = serveStage
  <2>1. PushedAt("network") = 4
    BY DEF PushedAt
  <2> QED BY <1>2, <1>3, <2>1 DEF HostStage, WorkerStage, LastStage
<1>6. Here = "config" => serveStage = 0
  BY <1>2, <1>3 DEF HostStage, WorkerStage, LastStage
<1>7. ASSUME UNCHANGED <<role, serveStage, defers>> PROVE PushedInOrder'
  BY <1>1, <1>7 DEF PushedInOrder, PushedAt
<1> USE DEF Stay, given, Everything, Startable, Caches
<1>8. ASSUME LoadConfig PROVE KnownOnly' /\ Flags' /\ PushedInOrder'
  <2>1. Len(defers) = 0 /\ UNCHANGED <<defers, up, advertised, answering, jobsTaken, runtimeDind, signalled>>
    <3>1. serveStage = 0 /\ Len(defers) \in Nat
      BY <1>2, <1>6, <1>8 DEF LoadConfig
    <3>2. Len(defers) = 0
      BY <1>2, <3>1
    <3> QED BY <1>8, <3>2 DEF LoadConfig
  <2>2. PushedInOrder'
    BY <2>1 DEF PushedInOrder
  <2>3. forge' \in BOOLEAN /\ dindCfg' \in BOOLEAN
    BY <1>8 DEF LoadConfig
  <2> QED BY <1>1, <2>1, <2>2, <2>3
<1>9. ASSUME \/ NewContainerd \/ StageUp \/ StageFails \/ retryInit \/ enforceFirewallInstall
             \/ startPkgProxies \/ startBuildKit \/ newRuntime \/ initProviders \/ waitDispatch
      PROVE  KnownOnly' /\ Flags' /\ PushedInOrder'
  <2>1. CASE NewContainerd
    <3>1. Here \in Deferrable /\ Here # "network" /\ UNCHANGED role
      BY <2>1 DEF NewContainerd, Deferrable
    <3>2. (Pass /\ Push(Here)) \/ UNCHANGED <<serveStage, defers>>
      BY <2>1 DEF NewContainerd, startContainerd, Return
    <3>3. PushedInOrder'
      BY <1>1, <1>2, <1>4, <1>7, <3>1, <3>2, PushesInOrder DEF Pass
    <3> QED BY <1>1, <2>1, <3>3 DEF NewContainerd, startContainerd
  <2>2. CASE StageUp
    <3>1. Pass /\ UNCHANGED role /\ ((Push(Here) /\ Here \in DaemonDeferred) \/ UNCHANGED defers)
      BY <2>2 DEF StageUp
    <3>2. PushedInOrder'
      BY <1>1, <1>2, <1>4, <3>1, PushesInOrder DEF Pass, DaemonDeferred, Deferrable
    <3> QED BY <1>1, <2>2, <3>2 DEF StageUp
  <2>3. CASE StageFails \/ waitDispatch \/ newRuntime
    <3>1. UNCHANGED <<role, defers>> /\ (Pass \/ UNCHANGED serveStage)
      BY <2>3 DEF StageFails, waitDispatch, newRuntime, Return
    <3>2. PushedInOrder'
      BY <1>1, <1>2, <1>7, <3>1, PushesInOrder DEF Pass
    <3> QED BY <1>1, <2>3, <3>2 DEF StageFails, waitDispatch, newRuntime
  <2>4. CASE retryInit
    <3>1. UNCHANGED <<role, defers>> /\ (Pass \/ UNCHANGED serveStage)
      BY <2>4 DEF retryInit, Return
    <3>2. PushedInOrder'
      BY <1>1, <1>2, <1>7, <3>1, PushesInOrder DEF Pass
    <3> QED BY <1>1, <2>4, <3>2 DEF retryInit
  <2>5. CASE enforceFirewallInstall
    <3>1. Here = "firewall" /\ Pass /\ Push("network") /\ UNCHANGED role
      BY <2>5 DEF enforceFirewallInstall
    <3>2. PushedInOrder'
      BY <1>1, <1>2, <1>5, <3>1, PushesInOrder DEF Pass, Deferrable
    <3> QED BY <1>1, <2>5, <3>2 DEF enforceFirewallInstall
  <2>6. CASE startPkgProxies
    <3>1. Pass /\ UNCHANGED role /\ (Push(Here) \/ UNCHANGED defers) /\ Here \in Caches
      BY <2>6 DEF startPkgProxies
    <3>2. PushedInOrder'
      BY <1>1, <1>2, <1>4, <3>1, PushesInOrder DEF Pass, Deferrable
    <3>3. UNCHANGED <<jobsTaken, forge, dindCfg, runtimeDind, signalled>> /\ KnownOnly'
      BY <1>1, <2>6 DEF startPkgProxies
    <3> QED BY <1>1, <3>2, <3>3
  <2>7. CASE startBuildKit
    <3>1. Pass /\ UNCHANGED role /\ (Push(Here) \/ UNCHANGED defers) /\ Here = "buildkit"
      BY <2>7 DEF startBuildKit
    <3>2. PushedInOrder'
      BY <1>1, <1>2, <1>4, <3>1, PushesInOrder DEF Pass, Deferrable
    <3> QED BY <1>1, <2>7, <3>2 DEF startBuildKit
  <2>8. CASE initProviders
    <3>1. Pass /\ UNCHANGED role /\ Push(Here) /\ Here = "providers"
      BY <2>8 DEF initProviders
    <3>2. PushedInOrder'
      BY <1>1, <1>2, <1>4, <3>1, PushesInOrder DEF Pass, Deferrable
    <3> QED BY <1>1, <2>8, <3>2 DEF initProviders
  <2> QED BY <1>9, <2>1, <2>2, <2>3, <2>4, <2>5, <2>6, <2>7, <2>8
<1>10. ASSUME TakeJob \/ DaemonJobEnds \/ Signal \/ RunReturns \/ StaysDown PROVE KnownOnly' /\ Flags' /\ PushedInOrder'
  <2>1. UNCHANGED <<role, serveStage, defers, up, advertised, answering, forge, dindCfg, runtimeDind>>
    BY <1>10 DEF TakeJob, DaemonJobEnds, Signal, RunReturns, StaysDown, Return, daemonVars
  <2>2. jobsTaken' \in 0..MaxJobs /\ signalled' \in BOOLEAN
    <3>1. jobsTaken' \in 0..MaxJobs
      BY <1>1, <1>10, DaemonAssumption DEF TakeJob, DaemonJobEnds, Signal, RunReturns, StaysDown, daemonVars
    <3>2. signalled' = signalled \/ signalled' = TRUE
      BY <1>10 DEF TakeJob, DaemonJobEnds, Signal, RunReturns, StaysDown, daemonVars
    <3> QED BY <1>1, <3>1, <3>2
  <2> QED BY <1>1, <1>7, <2>1, <2>2
<1>11. ASSUME Unwind PROVE KnownOnly' /\ Flags' /\ PushedInOrder'
  <2>1. defers # <<>> /\ defers' = Front(defers) /\ up' \subseteq up
        /\ UNCHANGED <<role, serveStage, advertised, answering, jobsTaken, forge, dindCfg, runtimeDind, signalled>>
    BY <1>11 DEF Unwind
  <2>2. Len(defers') = Len(defers) - 1 /\ \A i \in 1..Len(defers') : defers'[i] = defers[i] /\ i \in 1..Len(defers)
    <3>1. defers' = SubSeq(defers, 1, Len(defers) - 1) /\ Len(defers) \in Nat /\ Len(defers) # 0
      BY <1>2, <2>1 DEF Front
    <3> DEFINE n == Len(defers)
    <3>2. n - 1 \in Nat /\ 1..(n - 1) \subseteq 1..n /\ n \in Nat
      BY <3>1
    <3>3. /\ Len(defers') = IF 1 <= n - 1 THEN (n - 1) - 1 + 1 ELSE 0
          /\ \A i \in 1..(n - 1) : defers'[i] = defers[i]
      BY <1>2, <3>1, <3>2
    <3> HIDE DEF n
    <3>4. Len(defers') = n - 1
      BY <3>2, <3>3
    <3> QED BY <3>2, <3>3, <3>4 DEF n
  <2>3. \A d : PushedAt(d)' = PushedAt(d)
    BY <2>1 DEF PushedAt
  <2>4. PushedInOrder'
    BY <1>1, <2>1, <2>2, <2>3 DEF PushedInOrder
  <2> QED BY <1>1, <2>1, <2>4
<1> HIDE DEF KnownOnly, Flags
<1>12. KnownOnly' /\ Flags' /\ PushedInOrder'
  BY <1>8, <1>9, <1>10, <1>11 DEF DaemonNext, ServeStep
<1> QED BY <1>12 DEF DaemonTypes, KnownOnly, Flags

(* The cleanups are pushed once each, and what is up is what a stage starts. *)
LEMMA DaemonTyped ==
  ASSUME DaemonInv, DaemonTypes
  PROVE  DaemonTypeOK
<1>1. ServeCounts
  BY DEF DaemonInv
<1>2. serveStage \in 0..(Len(Stages) - 1)
  <2>1. Len(Stages) = LastStage + 1 /\ serveStage \in 0..LastStage /\ LastStage \in Nat
    BY <1>1, StagesAre DEF ServeCounts, LastStage
  <2> QED BY <2>1
<1>3. IsInjective(defers)
  <2>1. DOMAIN defers = 1..Len(defers)
    BY <1>1 DEF ServeCounts
  <2> QED BY <2>1 DEF DaemonTypes, PushedInOrder, IsInjective
<1>4. Everything \subseteq Range(HostStages) \cup Range(WorkerStages)
  <2> DEFINE h == HostStages  w == WorkerStages
  <2>1. /\ h[2] = "containerd" /\ h[3] = "extract" /\ h[4] = "network" /\ h[5] = "firewall" /\ h[6] = "gomod"
        /\ h[7] = "cargo" /\ h[8] = "pkg" /\ h[9] = "actions" /\ h[10] = "buildkit" /\ h[11] = "runtime"
        /\ h[12] = "sweeper" /\ h[13] = "providers" /\ h[15] = "tunnel" /\ DOMAIN h = 1..16
    BY DEF HostStages
  <2>2. w[9] = "dispatchServer" /\ w[10] = "debug" /\ DOMAIN w = 1..11
    BY DEF WorkerStages
  <2> HIDE DEF h, w
  <2>3. \A i \in 1..16 : h[i] \in Range(h)
    BY <2>1 DEF Range
  <2>4. \A i \in 1..11 : w[i] \in Range(w)
    BY <2>2 DEF Range
  <2>5. Everything \subseteq Range(h) \cup Range(w)
    BY <2>1, <2>2, <2>3, <2>4 DEF Everything, Startable, Caches
  <2> QED BY <2>5 DEF h, w
<1> QED BY <1>1, <1>2, <1>3, <1>4 DEF DaemonTypes, ServeCounts, DaemonTypeOK

(* What GitHub has and the daemon remembers of hooks is finite, which the   *)
(* count of failed deletes needs; and while the tunnel is retried the       *)
(* failures in a row are below the limit.                                   *)
HookSets ==
  /\ hooks \subseteq Hooks /\ managed \subseteq Hooks /\ regDone \subseteq Hooks
  /\ IsFiniteSet(hooks) /\ IsFiniteSet(managed) /\ IsFiniteSet(regDone)

HookCounters ==
  /\ regNext \in 1..(HookRepos + 1) /\ pubUrl \in Urls /\ hookFails \in 0..TunnelRetries
  /\ intakeAt \notin {"polling", "down"} => hookFails < TunnelRetries
  /\ drops \in 0..MaxDrops /\ apiErrs \in 0..MaxApiErrs /\ runs \in 0..MaxRuns

HookJob ==
  /\ polling \in BOOLEAN /\ jobRepo \in 0..HookRepos /\ mail \subseteq Urls
  /\ jobState \in {"none", "queued", "heard", "gone"}

IntakeTypes == HookSets /\ HookCounters /\ HookJob

(* A failed call for each hook of a set that is left behind.                *)
LEMMA FailsCounted ==
  ASSUME HookCounters, NEW S, IsFiniteSet(S), ApiFails(Cardinality(S)) \/ ApiFails(1 + Cardinality(S)) \/ ApiFails(2 + Cardinality(S))
  PROVE  apiErrs' \in 0..MaxApiErrs
<1>1. Cardinality(S) \in Nat
  BY FS_CardinalityType
<1>2. apiErrs \in Nat /\ MaxApiErrs \in Nat
  BY IntakeAssumption DEF HookCounters
<1> DEFINE n == Cardinality(S)
<1>3. n \in Nat
  BY <1>1
<1> HIDE DEF n
<1>4. PICK m \in {n, 1 + n, 2 + n} : ApiFails(m)
  BY DEF n
<1> QED BY <1>2, <1>3, <1>4 DEF ApiFails

(* Taking the hooks down leaves no more of them than there were.            *)
LEMMA DeregisterTypes ==
  ASSUME HookSets, HookCounters, NEW gone \in SUBSET managed, DeregisterWebhooks(gone)
  PROVE  /\ hooks' \subseteq hooks /\ IsFiniteSet(hooks') /\ managed' = {} /\ IsFiniteSet(managed')
         /\ apiErrs' \in 0..MaxApiErrs
<1>1. IsFiniteSet(gone)
  BY FS_Subset DEF HookSets
<1>2. hooks' \subseteq hooks /\ managed' = {} /\ ApiFails(Cardinality(gone))
  BY DEF DeregisterWebhooks
<1>3. IsFiniteSet(hooks') /\ IsFiniteSet(managed')
  BY <1>2, FS_Subset, FS_EmptySet DEF HookSets
<1> QED BY <1>1, <1>2, <1>3, FailsCounted

LEMMA IntakeTypesStep ==
  ASSUME IntakeInv, IntakeTypes, IntakeNext
  PROVE  IntakeTypes'
<1>0. HookSets /\ HookCounters /\ HookJob /\ IsFiniteSet({})
  BY FS_EmptySet DEF IntakeTypes
<1>n. /\ HookRepos \in Nat /\ TunnelRetries \in Nat /\ TunnelRetries > 0 /\ HookRepos > 0
      /\ MaxDrops \in Nat /\ MaxApiErrs \in Nat /\ MaxRuns \in Nat
  BY IntakeAssumption
<1> USE DEF RegSame, hookReg, hookJob, hookCount, IntakeTo, ApiFine, HearSame
<1>1. ASSUME RunIntake PROVE IntakeTypes'
  <2>1. HookSets'
    BY <1>0, <1>1 DEF RunIntake, HookSets
  <2>2. HookCounters'
    BY <1>0, <1>1, <1>n DEF RunIntake, HookCounters
  <2> QED BY <1>0, <1>1, <2>1, <2>2 DEF RunIntake, HookJob, IntakeTypes
<1>2. ASSUME CleanStaleWebhooks PROVE IntakeTypes'
  <2>1. PICK kept \in SUBSET hooks : ApiFails(Cardinality(kept)) /\ hooks' = kept
    BY <1>2 DEF CleanStaleWebhooks
  <2>2. IsFiniteSet(kept)
    BY <1>0, FS_Subset DEF HookSets
  <2>3. HookSets'
    BY <1>0, <1>2, <2>1, <2>2 DEF CleanStaleWebhooks, HookSets
  <2>4. apiErrs' \in 0..MaxApiErrs
    BY <1>0, <2>1, <2>2, FailsCounted
  <2>5. HookCounters'
    BY <1>0, <1>2, <2>4 DEF CleanStaleWebhooks, HookCounters
  <2> QED BY <1>0, <1>2, <2>3, <2>5 DEF CleanStaleWebhooks, HookJob, IntakeTypes
<1>3. ASSUME ListenTunnel PROVE IntakeTypes'
  <2>1. HookSets'
    BY <1>0, <1>3 DEF ListenTunnel, Listen, HookSets
  <2>2. HookCounters'
    BY <1>0, <1>3, <1>n DEF ListenTunnel, Listen, HookCounters
  <2> QED BY <1>0, <1>3, <2>1, <2>2 DEF ListenTunnel, Listen, HookJob, IntakeTypes
<1>4. ASSUME AdoptHook \/ CreateHook PROVE IntakeTypes'
  <2>1. /\ regNext <= HookRepos /\ hooks' \in {hooks, hooks \cup {HookHere}} /\ regDone' = regDone \cup {HookHere}
        /\ regNext' = regNext + 1 /\ UNCHANGED <<intakeAt, managed, hookFails, pubUrl, polling, jobRepo, jobState, mail, drops, runs, apiErrs>>
    BY <1>4 DEF AdoptHook, CreateHook, HookHeld
  <2>2. HookHere \in Hooks
    BY <1>0, <1>n, <2>1 DEF HookHere, Hooks, HookSites, HookCounters
  <2>3. IsFiniteSet(hooks \cup {HookHere}) /\ IsFiniteSet(regDone \cup {HookHere})
    BY <1>0, FS_AddElement DEF HookSets
  <2>4. HookSets'
    BY <1>0, <2>1, <2>2, <2>3 DEF HookSets
  <2>5. HookCounters'
    BY <1>0, <1>n, <2>1 DEF HookCounters
  <2> QED BY <1>0, <2>1, <2>4, <2>5 DEF HookJob, IntakeTypes
<1>5. ASSUME RegisterBreaks PROVE IntakeTypes'
  <2>1. PICK behind \in SUBSET regDone :
          RegisterFails((IF HookHere \in hooks /\ hookMode # "pool" THEN 2 ELSE 1) + Cardinality(behind), behind)
    BY <1>5 DEF RegisterBreaks
  <2>2. IsFiniteSet(behind)
    BY <1>0, FS_Subset DEF HookSets
  <2>3. apiErrs' \in 0..MaxApiErrs
    <3>1. ApiFails(1 + Cardinality(behind)) \/ ApiFails(2 + Cardinality(behind))
      BY <2>1 DEF RegisterFails
    <3> QED BY <1>0, <2>2, <3>1, FailsCounted
  <2>4. /\ hooks' \subseteq hooks /\ regDone' = {} /\ intakeAt' = AfterFailure
        /\ UNCHANGED <<regNext, managed, hookFails, pubUrl, polling, jobRepo, jobState, mail, drops, runs>>
    BY <2>1 DEF RegisterFails
  <2>5. HookSets'
    BY <1>0, <2>4, FS_Subset DEF HookSets
  <2>6. hookFails < TunnelRetries
    BY <1>0, <1>5 DEF RegisterBreaks, Registering, HookCounters
  <2>7. HookCounters'
    BY <1>0, <1>n, <2>3, <2>4, <2>6 DEF HookCounters
  <2> QED BY <1>0, <2>4, <2>5, <2>7 DEF HookJob, IntakeTypes
<1>6. ASSUME Registered PROVE IntakeTypes'
  <2>1. HookSets'
    BY <1>0, <1>6 DEF Registered, HookSets
  <2>2. HookCounters'
    BY <1>0, <1>n, <1>6 DEF Registered, HookCounters
  <2> QED BY <1>0, <1>6, <2>1, <2>2 DEF Registered, HookJob, IntakeTypes
<1>7. ASSUME TunnelDrops \/ KillIntake PROVE IntakeTypes'
  <2>1. HookSets'
    BY <1>0, <1>7 DEF TunnelDrops, KillIntake, HookSets
  <2>2. HookCounters'
    BY <1>0, <1>n, <1>7 DEF TunnelDrops, KillIntake, HookCounters
  <2> QED BY <1>0, <1>7, <2>1, <2>2 DEF TunnelDrops, KillIntake, HookJob, IntakeTypes
<1>8. ASSUME TunnelLost PROVE IntakeTypes'
  <2>1. PICK behind \in SUBSET managed : DeregisterWebhooks(behind)
    BY <1>8 DEF TunnelLost
  <2>2. /\ hooks' \subseteq hooks /\ IsFiniteSet(hooks') /\ managed' = {} /\ IsFiniteSet(managed')
        /\ apiErrs' \in 0..MaxApiErrs
    BY <1>0, <2>1, DeregisterTypes
  <2>3. HookSets'
    BY <1>0, <1>8, <2>2 DEF TunnelLost, HookSets
  <2>4. hookFails < TunnelRetries
    BY <1>0, <1>8 DEF TunnelLost, HookCounters
  <2>5. HookCounters'
    BY <1>0, <1>n, <1>8, <2>2, <2>4 DEF TunnelLost, HookCounters
  <2> QED BY <1>0, <1>8, <2>3, <2>5 DEF TunnelLost, HookJob, IntakeTypes
<1>9. ASSUME StopIntake PROVE IntakeTypes'
  <2>1. /\ hooks' \subseteq hooks /\ IsFiniteSet(hooks') /\ managed' = {} /\ IsFiniteSet(managed')
        /\ apiErrs' \in 0..MaxApiErrs
    <3>1. CASE \E behind \in SUBSET managed : DeregisterWebhooks(behind)
      BY <1>0, <3>1, DeregisterTypes
    <3>2. CASE managed' = {} /\ UNCHANGED hooks /\ ApiFine
      BY <1>0, <3>2 DEF HookSets, HookCounters
    <3> QED BY <1>9, <3>1, <3>2 DEF StopIntake
  <2>2. HookSets'
    BY <1>0, <1>9, <2>1 DEF StopIntake, HookSets
  <2>3. HookCounters'
    BY <1>0, <1>n, <1>9, <2>1 DEF StopIntake, HookCounters
  <2> QED BY <1>0, <1>9, <2>2, <2>3 DEF StopIntake, HookJob, IntakeTypes
<1>10. ASSUME PoolMate PROVE IntakeTypes'
  <2>1. PICK h \in Hooks : hooks' = hooks \cup {h}
    BY <1>10 DEF PoolMate
  <2>2. HookSets'
    BY <1>0, <1>10, <2>1, FS_AddElement DEF PoolMate, HookSets
  <2> QED BY <1>0, <1>10, <2>2 DEF PoolMate, HookCounters, HookJob, IntakeTypes
<1>11. ASSUME JobQueued \/ JobTaken \/ (\E u \in Urls : WebhookHandler(u) \/ DeliveryLost(u)) PROVE IntakeTypes'
  <2>1. UNCHANGED <<intakeAt, hooks, managed, regDone, regNext, pubUrl, hookFails, polling, drops, runs, apiErrs>>
    BY <1>11 DEF JobQueued, JobTaken, WebhookHandler, DeliveryLost
  <2>2. mail' \subseteq Urls /\ jobRepo' \in 0..HookRepos /\ jobState' \in {"none", "queued", "heard", "gone"}
    <3>1. mail' \subseteq mail \/ mail' = {u \in Urls : <<jobRepo', u>> \in hooks}
      BY <1>11 DEF JobQueued, JobTaken, WebhookHandler, DeliveryLost
    <3>2. jobRepo' = jobRepo \/ jobRepo' \in HookSites
      BY <1>11 DEF JobQueued, JobTaken, WebhookHandler, DeliveryLost
    <3>3. jobState' \in {jobState, "queued", "heard", "gone"}
      BY <1>11 DEF JobQueued, JobTaken, WebhookHandler, DeliveryLost, Hears
    <3>4. HookSites \subseteq 0..HookRepos
      BY <1>n DEF HookSites
    <3> QED BY <1>0, <3>1, <3>2, <3>3, <3>4 DEF HookJob
  <2> QED BY <1>0, <2>1, <2>2 DEF HookSets, HookCounters, HookJob, IntakeTypes
<1>12. ASSUME CatchUpPoll \/ pollLoop PROVE IntakeTypes'
  <2>1. PollJobs
    BY <1>12 DEF CatchUpPoll, pollLoop
  <2>2. apiErrs' \in 0..MaxApiErrs
    BY <1>0, <1>n, <2>1 DEF PollJobs, ApiFails, HookCounters
  <2>3. jobState' \in {"none", "queued", "heard", "gone"}
    BY <1>0, <2>1 DEF PollJobs, Hears, HookJob
  <2> QED BY <1>0, <2>1, <2>2, <2>3 DEF PollJobs, HookSets, HookCounters, HookJob, IntakeTypes
<1> QED BY <1>1, <1>2, <1>3, <1>4, <1>5, <1>6, <1>7, <1>8, <1>9, <1>10, <1>11, <1>12 DEF IntakeNext, IntakeStep

-----------------------------------------------------------------------------
(* A step writes three rows at most, and the forge hands out no more tasks  *)
(* than were queued; a job is cancelled with its runner only.               *)
RowsBounded ==
  /\ total \in 0..(3 * Steps)
  /\ frAt \in {"register", "declare", "poll", "backoff", "start", "step"} => total <= 3 * (frStep - 1)
  /\ frAt = "flush" => total <= 3 * frStep

TasksCounted ==
  /\ frVersion \in 0..MaxForgeTasks /\ forgeVersion \in 0..MaxForgeTasks
  /\ forgeQueue \in Nat /\ handed \in Nat /\ forgeQueue + handed = forgeVersion

ForgeRest ==
  /\ jobResult \in {"success", "failure", "cancelled"} /\ frCancelled \in BOOLEAN
  /\ forgeResult \in {"none", "running", "success", "failure"} /\ frErrs \in 0..MaxForgeErrs
  /\ jobResult = "cancelled" => frCancelled

ForgeTypes == RowsBounded /\ TasksCounted /\ ForgeRest

LEMMA ForgeTypesStep ==
  ASSUME ForgeInv, ForgeTypes, ForgeNext
  PROVE  ForgeTypes'
<1>0. RowsBounded /\ TasksCounted /\ ForgeRest /\ StepsSoFar /\ ResultsKnown
  BY DEF ForgeTypes, ForgeInv
<1>n. Steps \in Nat /\ MaxForgeTasks \in Nat /\ MaxForgeErrs \in Nat /\ frStep \in 1..(Steps + 1) /\ frStep \in Nat
  BY <1>0, ForgeAssumption DEF StepsSoFar
<1>e. Replies \/ Breaks \/ NotSent => frErrs' \in 0..MaxForgeErrs
  BY <1>0, <1>n DEF Replies, Breaks, NotSent, ForgeRest
<1>r. forgeResult \in {"none", "running", "success", "failure"} /\ jobResult \in {"success", "failure", "cancelled"}
  BY <1>0 DEF ForgeRest
<1> USE DEF frTask, frLog, atForge, FrTo
<1>1. ASSUME RegisterRunner \/ Declare \/ poll \/ TaskStarts \/ StepsOver \/ CancelRunner PROVE ForgeTypes'
  <2>1. UNCHANGED <<frVersion, forgeVersion, forgeQueue, handed, frStep, jobResult, total>>
    BY <1>1 DEF RegisterRunner, Declare, poll, TaskStarts, StepsOver, CancelRunner
  <2>2. (frAt' # "flush" /\ (frAt' = "step" => frAt \in {"start", "step"})) \/ UNCHANGED frAt
    BY <1>1 DEF RegisterRunner, Declare, poll, TaskStarts, StepsOver, CancelRunner
  <2>3. frAt' \in {"declare", "poll", "start", "backoff"} => frAt \in {"register", "declare", "poll", "backoff", "start"}
    BY <1>1 DEF RegisterRunner, Declare, poll, TaskStarts, StepsOver, CancelRunner
  <2>4. RowsBounded'
    BY <1>0, <1>1, <1>n, <2>1 DEF RowsBounded, RegisterRunner, Declare, poll, TaskStarts, StepsOver, CancelRunner
  <2>5. frErrs' \in 0..MaxForgeErrs /\ forgeResult' \in {"none", "running", "success", "failure"} /\ frCancelled' \in BOOLEAN
    BY <1>0, <1>1, <1>e DEF ForgeRest, RegisterRunner, Declare, poll, TaskStarts, StepsOver, CancelRunner
  <2>6. frCancelled => frCancelled'
    BY <1>1 DEF RegisterRunner, Declare, poll, TaskStarts, StepsOver, CancelRunner
  <2>7. ForgeRest'
    BY <1>0, <2>1, <2>5, <2>6 DEF ForgeRest
  <2> QED BY <1>0, <2>1, <2>4, <2>7 DEF ForgeTypes, TasksCounted
<1>2. ASSUME FetchTask \/ FetchTaskFails \/ QueueTask PROVE ForgeTypes'
  <2>1. TasksCounted'
    BY <1>0, <1>n, <1>2 DEF TasksCounted, FetchTask, FetchTaskFails, QueueTask, HandsTask, Assigned
  <2>2. RowsBounded'
    BY <1>0, <1>2 DEF RowsBounded, FetchTask, FetchTaskFails, QueueTask
  <2>3. frErrs' \in 0..MaxForgeErrs /\ UNCHANGED <<jobResult, frCancelled, forgeResult>>
    BY <1>0, <1>2, <1>e DEF ForgeRest, FetchTask, FetchTaskFails, QueueTask
  <2> QED BY <1>0, <2>1, <2>2, <2>3 DEF ForgeTypes, ForgeRest
<1>3. ASSUME RunStep PROVE ForgeTypes'
  <2>1. UNCHANGED <<frVersion, handed, forgeVersion, forgeQueue, forgeResult, frCancelled, frErrs>>
    BY <1>3 DEF RunStep
  <2>2. jobResult' \in {"success", "failure", "cancelled"}
    BY <1>r, <1>3 DEF RunStep, RunScript
  <2>3. frStep <= Steps /\ frStep \in Nat /\ total \in Nat /\ total <= 3 * (frStep - 1)
    BY <1>0, <1>n, <1>3 DEF RunStep, AllSteps, RowsBounded
  <2>4. RowsBounded'
    <3>1. CASE frAt' = "report" /\ UNCHANGED <<frStep, total>>
      BY <1>0, <3>1 DEF RowsBounded
    <3>2. CASE frAt' = "step" /\ total' = total + 1 /\ frStep' = frStep + 1
      BY <1>n, <2>3, <3>2 DEF RowsBounded
    <3>3. CASE frAt' = "flush" /\ frStep' = frStep /\ \E n \in {2, 3} : total' = total + n
      BY <1>n, <2>3, <3>3 DEF RowsBounded
    <3>4. StepRows = {2, 3}
      BY DEF StepRows
    <3> QED BY <1>3, <3>1, <3>2, <3>3, <3>4 DEF RunStep, AddLine
  <2>5. jobResult' = "cancelled" => frCancelled
    BY <1>0, <1>3 DEF RunStep, RunScript, ForgeRest
  <2> QED BY <1>0, <2>1, <2>2, <2>4, <2>5 DEF ForgeTypes, TasksCounted, ForgeRest
<1>4. ASSUME Flush PROVE ForgeTypes'
  <2>1. UNCHANGED <<frVersion, handed, jobResult, total, forgeVersion, forgeQueue, forgeResult, frCancelled>>
    BY <1>4 DEF Flush
  <2>2. frErrs' \in 0..MaxForgeErrs
    BY <1>4, <1>e DEF Flush
  <2>3. RowsBounded'
    <3>1. total \in 0..(3 * Steps) /\ total <= 3 * frStep
      BY <1>0, <1>4 DEF RowsBounded, Flush
    <3>2. frAt' = "report" \/ (frAt' = "step" /\ frStep' = frStep + 1)
      BY <1>4 DEF Flush, AfterFlush
    <3> QED BY <1>n, <2>1, <3>1, <3>2 DEF RowsBounded
  <2> QED BY <1>0, <2>1, <2>2, <2>3 DEF ForgeTypes, TasksCounted, ForgeRest
<1>5. ASSUME UpdateTask \/ CloseLog PROVE ForgeTypes'
  <2>1. UNCHANGED <<frVersion, handed, jobResult, total, forgeVersion, forgeQueue, frCancelled>> /\ frAt' \in {"close", "done"}
    BY <1>5 DEF UpdateTask, CloseLog
  <2>2. frErrs' \in 0..MaxForgeErrs
    BY <1>5, <1>e DEF UpdateTask, CloseLog
  <2>3. RowsBounded'
    BY <1>0, <2>1 DEF RowsBounded
  <2>4. forgeResult' \in {"none", "running", "success", "failure"}
    <3>1. forgeResult' = jobResult => forgeResult' = forgeResult \/ jobResult # "cancelled"
      BY <1>0, <1>5 DEF UpdateTask, CloseLog, Replies, Breaks, NotSent, ForgeRest
    <3>2. forgeResult' \in {forgeResult, jobResult}
      BY <1>5 DEF UpdateTask, CloseLog
    <3> QED BY <1>r, <3>1, <3>2
  <2> QED BY <1>0, <2>1, <2>2, <2>3, <2>4 DEF ForgeTypes, TasksCounted, ForgeRest
<1> QED BY <1>1, <1>2, <1>3, <1>4, <1>5 DEF ForgeNext, ForgeStep

-----------------------------------------------------------------------------
(* What holds of the intake and of the runner implies their types.          *)
LEMMA IntakeTypesOK == IntakeInv /\ IntakeTypes => IntakeTypeOK
  BY DEF IntakeInv, IntakePlaces, IntakeTypes, HookSets, HookCounters, HookJob, IntakeTypeOK

LEMMA ForgeTypesOK == ForgeInv /\ ForgeTypes => ForgeTypeOK
<1> SUFFICES ASSUME ForgeInv, ForgeTypes PROVE ForgeTypeOK
  OBVIOUS
<1>1. forgeQueue \in 0..MaxForgeTasks /\ handed \in 0..MaxForgeTasks
  BY ForgeAssumption DEF ForgeTypes, TasksCounted
<1>2. ackIndex \in 0..(3 * Steps)
  <2>1. ackIndex \in Nat /\ Len(forgeLog) \in Nat /\ ackIndex <= Len(forgeLog) /\ Len(forgeLog) <= total
    BY DEF ForgeInv, LogInv, LogTyped, LogFollows
  <2>2. Steps \in Nat /\ total \in 0..(3 * Steps)
    BY ForgeNumbers DEF ForgeTypes, RowsBounded
  <2> QED BY <2>1, <2>2
<1>3. LogTyped /\ frStep \in 1..(Steps + 1) /\ stepResults \in [AllSteps -> StepResults]
  BY DEF ForgeInv, LogInv, StepsSoFar
<1> QED BY <1>1, <1>2, <1>3 DEF LogTyped, ForgeTypes, RowsBounded, TasksCounted, ForgeRest, ForgeTypeOK

-----------------------------------------------------------------------------
(* Every part's state is of its type while the part is in focus.            *)
PartTypes ==
  /\ focus = "upgrade" => UpgradeTypes
  /\ focus = "daemon" => DaemonTypes
  /\ focus = "intake" => IntakeTypes
  /\ focus = "token" => TokenTypeOK
  /\ focus = "tunnel" => CfTypeOK
  /\ focus = "forge" => ForgeTypes

PartsTyped ==
  /\ RetryInv /\ PoolInv
  /\ UpgradeInv /\ DaemonInv
  /\ IntakeInv /\ ForgeInv
  /\ TokenInv /\ CfInv
  /\ PartTypes

PartsTypeOK ==
  /\ focus = "retry" => RetryTypeOK
  /\ focus = "macpool" => PoolTypeOK
  /\ focus = "upgrade" => UpgradeTypeOK
  /\ focus = "daemon" => DaemonTypeOK
  /\ focus = "intake" => IntakeTypeOK
  /\ focus = "token" => TokenTypeOK
  /\ focus = "tunnel" => CfTypeOK
  /\ focus = "forge" => ForgeTypeOK

(* The daemon starts with every part at rest.                               *)
LEMMA PartTypesStart == HostStart => PartTypes
<1> SUFFICES ASSUME HostStart PROVE PartTypes
  OBVIOUS
<1> USE DEF HostStart, HostInit
<1>1. UpgradeTypes
  <2>1. RestartAttempts \in Nat /\ 0 \in 0..RestartAttempts /\ 0 \in 0..MaxDaemonDeaths
    BY UpgradeAssumption
  <2>2. upTries \in [Upgrades -> 0..RestartAttempts] /\ deaths \in 0..MaxDaemonDeaths /\ TriesCounted
    BY <2>1 DEF UpgradeInit, TriesCounted
  <2>3. restartAsked \in BOOLEAN /\ cordoned \in BOOLEAN /\ stranded \in BOOLEAN /\ mixed \in BOOLEAN
        /\ crossed \in BOOLEAN
    BY DEF UpgradeInit
  <2>4. /\ upAt \in [Upgrades -> {"new", "over"} \cup UpPhases \cup Supervising] /\ didCordon \subseteq Upgrades
        /\ archive \in {"gone", "none", "good", "bad"} /\ daemon \in {"old", "new", "wrong", "down"}
        /\ job \in {"none", "claimed", "running"} /\ spoilt \subseteq Upgrades
    BY DEF UpgradeInit
  <2>5. {stagedBin, bin, bak} \subseteq Binaries
    BY DEF UpgradeInit, Binaries
  <2> QED BY <2>2, <2>3, <2>4, <2>5 DEF UpgradeTypes, UpgradeTypeOK
<1>2. DaemonTypes
  <2>1. PushedInOrder
    <3>1. defers = <<>>
      BY DEF DaemonInit
    <3>2. Len(defers) = 0
      BY <3>1
    <3> QED BY <3>2 DEF PushedInOrder
  <2>2. up \subseteq Everything /\ advertised \subseteq Caches /\ answering \subseteq Caches
    BY DEF DaemonInit
  <2>3. jobsTaken \in 0..MaxJobs
    BY DaemonAssumption DEF DaemonInit
  <2>4. forge \in BOOLEAN /\ dindCfg \in BOOLEAN /\ runtimeDind \in BOOLEAN /\ signalled \in BOOLEAN
    BY DEF DaemonInit
  <2> QED BY <2>1, <2>2, <2>3, <2>4 DEF DaemonTypes
<1>3. IntakeTypes
  <2>1. HookSets
    BY FS_EmptySet DEF IntakeInit, HookSets
  <2>2. HookCounters
    <3>1. pubUrl \in Urls
      BY IntakeAssumption DEF IntakeInit
    <3> QED BY <3>1, IntakeAssumption DEF IntakeInit, HookCounters
  <2>3. HookJob
    <3>1. polling \in BOOLEAN
      BY DEF IntakeInit
    <3>2. jobRepo \in 0..HookRepos /\ mail \subseteq Urls /\ jobState \in {"none", "queued", "heard", "gone"}
      BY HookNumbers DEF IntakeInit
    <3> QED BY <3>1, <3>2 DEF HookJob
  <2> QED BY <2>1, <2>2, <2>3 DEF IntakeTypes
<1>4. TokenTypeOK
  <2>1. Life \in Nat /\ LoopMargin \in Nat /\ MaxClock \in Nat /\ LoopMargin < Life /\ 0 \in 0..MaxExchErrs
    BY TokenAssumption
  <2>2. Life \in 0..(MaxClock + Life) /\ Life - LoopMargin \in 0..(MaxClock + Life) /\ 0 \in 0..MaxClock
        /\ -1 \in -1..MaxClock /\ -1 \in -1..(MaxClock + Life)
    BY <2>1
  <2>3. callFailed \in [Callers -> BOOLEAN] /\ callerAt \in [Callers -> {"idle", "lock", "look", "exchange", "read"}]
        /\ exchSent \in [Exchangers -> -1..MaxClock] /\ minted \in [Exchangers -> -1..(MaxClock + Life)]
    BY <2>2 DEF TokenInit
  <2>4. served.token = Life /\ served.at = 0 /\ served.failed = FALSE
    BY DEF TokenInit
  <2> QED BY <2>1, <2>2, <2>3, <2>4 DEF TokenInit, TokenTypeOK
<1>5. CfTypeOK
  <2>1. MaxChildren \in Nat /\ 0 \in 0..MaxChildren /\ 1 \in 1..(MaxChildren + 1) /\ 0 \in 0..MaxCfFaults
    BY CfAssumption
  <2>2. saw \in [Kids -> [closing : BOOLEAN, ln : 0..MaxChildren]]
    BY <2>1 DEF CfInit
  <2> QED BY <2>1, <2>2 DEF CfInit, CfTypeOK
<1>6. ForgeTypes
  <2>1. RowsBounded /\ TasksCounted
    BY ForgeAssumption DEF ForgeInit, RowsBounded, TasksCounted
  <2>2. ForgeRest
    <3>1. frCancelled \in BOOLEAN
      BY DEF ForgeInit
    <3>2. frErrs \in 0..MaxForgeErrs
      BY ForgeAssumption DEF ForgeInit
    <3> QED BY <3>1, <3>2 DEF ForgeInit, ForgeRest
  <2> QED BY <2>1, <2>2 DEF ForgeTypes
<1> QED BY <1>1, <1>2, <1>3, <1>4, <1>5, <1>6 DEF PartTypes

(* A step of the daemon is one of the part in focus, or leaves it alone.    *)
LEMMA PartTypesStep == PartsTyped /\ [HostNext]_<<focus, hostVars>> => PartTypes'
<1> SUFFICES ASSUME PartsTyped, [HostNext]_<<focus, hostVars>> PROVE PartTypes'
  OBVIOUS
<1>0. focus' = focus
  BY DEF HostNext
<1>1. ASSUME focus = "upgrade" PROVE UpgradeTypes'
  <2>1. UpgradeNext \/ UNCHANGED upgradeVars
    BY <1>1 DEF HostNext, HostMoves, hostVars
  <2>2. UpgradeInv /\ UpgradeTypes
    BY <1>1 DEF PartsTyped, PartTypes
  <2>3. ASSUME UNCHANGED upgradeVars PROVE UpgradeTypes'
    BY <2>2, <2>3 DEF upgradeVars, upFiles, upGhosts, UpgradeTypes, UpgradeTypeOK, TriesCounted
  <2> QED BY <2>1, <2>2, <2>3, UpgradeTypesStep
<1>2. ASSUME focus = "daemon" PROVE DaemonTypes'
  <2>1. DaemonNext \/ UNCHANGED daemonVars
    BY <1>2 DEF HostNext, HostMoves, hostVars
  <2>2. DaemonInv /\ DaemonTypes
    BY <1>2 DEF PartsTyped, PartTypes
  <2>3. ASSUME UNCHANGED daemonVars PROVE DaemonTypes'
    BY <2>2, <2>3 DEF daemonVars, given, DaemonTypes, PushedInOrder, PushedAt
  <2> QED BY <2>1, <2>2, <2>3, DaemonTypesStep
<1>3. ASSUME focus = "intake" PROVE IntakeTypes'
  <2>1. IntakeNext \/ UNCHANGED intakeVars
    BY <1>3 DEF HostNext, HostMoves, hostVars
  <2>2. IntakeInv /\ IntakeTypes
    BY <1>3 DEF PartsTyped, PartTypes
  <2>3. ASSUME UNCHANGED intakeVars PROVE IntakeTypes'
    BY <2>2, <2>3 DEF intakeVars, hookReg, hookJob, hookCount, IntakeTypes, HookSets, HookCounters, HookJob
  <2> QED BY <2>1, <2>2, <2>3, IntakeTypesStep
<1>4. ASSUME focus = "token" PROVE TokenTypeOK'
  <2>1. TokenNext \/ UNCHANGED tokenVars
    BY <1>4 DEF HostNext, HostMoves, hostVars
  <2>2. TokenInv /\ TokenTypeOK
    BY <1>4 DEF PartsTyped, PartTypes
  <2>3. ASSUME UNCHANGED tokenVars PROVE TokenTypeOK'
    BY <2>2, <2>3 DEF tokenVars, TokenTypeOK
  <2> QED BY <2>1, <2>2, <2>3, TokenTypes
<1>5. ASSUME focus = "tunnel" PROVE CfTypeOK'
  <2>1. CfNext \/ UNCHANGED cfVars
    BY <1>5 DEF HostNext, HostMoves, hostVars
  <2>2. CfInv /\ CfTypeOK
    BY <1>5 DEF PartsTyped, PartTypes
  <2>3. ASSUME UNCHANGED cfVars PROVE CfTypeOK'
    BY <2>2, <2>3 DEF cfVars, cfChildren, cfOwn, cfWait, CfTypeOK
  <2> QED BY <2>1, <2>2, <2>3, CfTypes
<1>6. ASSUME focus = "forge" PROVE ForgeTypes'
  <2>1. ForgeNext \/ UNCHANGED frVars
    BY <1>6 DEF HostNext, HostMoves, hostVars
  <2>2. ForgeInv /\ ForgeTypes
    BY <1>6 DEF PartsTyped, PartTypes
  <2>3. ASSUME UNCHANGED frVars PROVE ForgeTypes'
    BY <2>2, <2>3 DEF frVars, frTask, frLog, atForge, ForgeTypes, RowsBounded, TasksCounted, ForgeRest
  <2> QED BY <2>1, <2>2, <2>3, ForgeTypesStep
<1> QED BY <1>0, <1>1, <1>2, <1>3, <1>4, <1>5, <1>6 DEF PartTypes

(* What holds of the parts implies their types.                             *)
LEMMA PartsTypeCorrect == PartsTyped => PartsTypeOK
  BY DaemonTyped, IntakeTypesOK, ForgeTypesOK
  DEF PartsTyped, PartTypes, PartsTypeOK, RetryInv, PoolInv, UpgradeTypes

(* The parts that are no stores are of their types.                         *)
LEMMA PartsKeepTypes == HostSpec => []PartsTypeOK
<1>1. HostStart => PartsTyped
  <2>1. HostStart => PartTypes /\ HostInit
    BY PartTypesStart DEF HostStart
  <2> QED BY <2>1, RetryInitially, PoolInitially, UpgradeStarts, DaemonStarts, IntakeStarts, ForgeStarts, TokenStarts,
        CfStarts DEF HostInit, PartsTyped
<1>2. PartsTyped /\ [HostNext]_<<focus, hostVars>> => PartsTyped'
  <2> SUFFICES ASSUME PartsTyped, [HostNext]_<<focus, hostVars>> PROVE PartsTyped'
    OBVIOUS
  <2>1. /\ [RetryNext]_retryVars /\ [PoolNext]_poolVars /\ [UpgradeNext]_upgradeVars /\ [DaemonNext]_daemonVars
        /\ [IntakeNext]_intakeVars /\ [ForgeNext]_frVars /\ [TokenNext]_tokenVars /\ [CfNext]_cfVars
    BY DEF HostNext, HostFrozen, HostMoves, hostVars
  <2>2. RetryInv' /\ PoolInv' /\ UpgradeInv' /\ DaemonInv'
    BY <2>1, RetryStep, PoolStepKeeps, UpgradeInvStep, DaemonInvStep DEF PartsTyped
  <2>3. IntakeInv' /\ ForgeInv' /\ TokenInv' /\ CfInv'
    BY <2>1, IntakeInvStep, LogInvStep, ResultsStep, TokenInvStep, CfInvStep DEF PartsTyped, ForgeInv
  <2>4. PartTypes'
    BY PartTypesStep
  <2> QED BY <2>2, <2>3, <2>4 DEF PartsTyped
<1> QED BY <1>1, <1>2, PartsTypeCorrect, PTL DEF HostSpec

-----------------------------------------------------------------------------
(* Whichever part of the daemon moves, its state is of its type: no counter *)
(* leaves its bound, no lock has an owner that is none, no order names      *)
(* a thing twice, and nothing is up, pushed or held that the code does not  *)
(* know, for any size of the parts and any sequence of their steps.         *)
THEOREM HostTypesHold == HostSpec => []HostTypeOK
<1>1. StoresTypeOK /\ PartsTypeOK => HostTypeOK
  BY DEF StoresTypeOK, PartsTypeOK, HostTypeOK
<1> QED BY <1>1, StoresKeepTypes, PartsKeepTypes, PTL
=============================================================================
