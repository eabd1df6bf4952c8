----------------------------- MODULE JobNetwork -----------------------------
(***************************************************************************)
(* The container bridge of a Linux node (pkg/networking): CNI attachments  *)
(* and the addresses host-local IPAM hands out and takes back, the set-up  *)
(* that is retried with an undo in between, and the EPHEMERD-C2C chain     *)
(* whose ACCEPT pairs let the containers of one job reach each other above *)
(* a terminal DROP for everybody else.  An address outlives a container by *)
(* nothing: the next attachment, of any job, may be given it, so a pair    *)
(* that stays in the chain joins two jobs.                                 *)
(***************************************************************************)
EXTENDS Naturals, FiniteSets, Bags

CONSTANTS Attachments,   \* CNI ids: runner containers and dind siblings
          JobOfAtt,      \* the job each of them joins under
          Addrs,         \* the addresses of the subnet
          SetupAttempts, \* setupAttempts of retry.go
          MaxNetErrs     \* bound on the iptables and CNI calls that fail

NoAddr == "none"

ASSUME JobNetworkAssumption ==
    /\ SetupAttempts \in Nat \ {0} /\ MaxNetErrs \in Nat
    /\ DOMAIN JobOfAtt = Attachments /\ NoAddr \notin Addrs

VARIABLES attAt,     \* where each attachment's caller is
          setupTries,     \* CNI ADDs made for it
          leased,    \* the address IPAM holds for the id, NoAddr: none
          c2cMember, \* CNI id -> the address it joined with, NoAddr: not a member
          c2cJob,    \* job -> the addresses of its members
          c2cPairs,  \* the ACCEPT rules of EPHEMERD-C2C, [src, dst], with copies
          c2cDrops,  \* copies of the terminal DROP, below every pair
          netErrs    \* calls that failed

jobNetVars == <<attAt, setupTries, leased, c2cMember, c2cJob, c2cPairs, c2cDrops, netErrs>>

Jobs == {JobOfAtt[a] : a \in Attachments}
Free == Addrs \ {leased[a] : a \in Attachments}
Pairs(x, ys) == {<<x, y>> : y \in ys} \cup {<<y, x>> : y \in ys}
PairsOf == Addrs \X Addrs
AttPhases == {"none", "adding", "failing", "up", "checked", "joined", "leaving", "gone"}

JobNetInit ==
    /\ attAt = [a \in Attachments |-> "none"]
    /\ setupTries = [a \in Attachments |-> 0]
    /\ leased = [a \in Attachments |-> NoAddr]
    /\ c2cMember = [a \in Attachments |-> NoAddr]
    /\ c2cJob = [j \in Jobs |-> {}]
    /\ c2cPairs = EmptyBag /\ c2cDrops = 0 /\ netErrs = 0

AttMoves(a, from, to) == attAt[a] = from /\ attAt' = [attAt EXCEPT ![a] = to]

----------------------------------------------------------------------------
(* One CNI ADD.  It succeeds; or it fails, with the pool empty or for another *)
(* reason, and may have reserved an address before it did.                    *)
setup(a) ==
    /\ attAt[a] \in {"none", "adding"} /\ setupTries[a] < SetupAttempts
    /\ setupTries' = [setupTries EXCEPT ![a] = @ + 1]
    /\ \/ \E ip \in Free : leased' = [leased EXCEPT ![a] = ip]
          /\ attAt' = [attAt EXCEPT ![a] = "up"] /\ UNCHANGED netErrs
       \/ /\ IF Free = {} THEN UNCHANGED netErrs
             ELSE netErrs < MaxNetErrs /\ netErrs' = netErrs + 1
          /\ attAt' = [attAt EXCEPT ![a] = "failing"]
          /\ \/ UNCHANGED leased
             \/ \E ip \in Free : leased' = [leased EXCEPT ![a] = ip]
    /\ UNCHANGED <<c2cMember, c2cJob, c2cPairs, c2cDrops>>

(* The undo after a failed ADD: a transient error is tried again while        *)
(* attempts are left and the context lives, any other gives up.  CNI DEL is   *)
(* idempotent, and a failing one is only logged: the address stays reserved.  *)
retrySetup(a) ==
    /\ attAt[a] = "failing"
    /\ \/ leased' = [leased EXCEPT ![a] = NoAddr] /\ UNCHANGED netErrs
       \/ netErrs < MaxNetErrs /\ netErrs' = netErrs + 1 /\ UNCHANGED leased
    /\ \/ setupTries[a] < SetupAttempts /\ leased'[a] = NoAddr
          /\ attAt' = [attAt EXCEPT ![a] = "adding"]
       \/ attAt' = [attAt EXCEPT ![a] = "gone"]
    /\ UNCHANGED <<setupTries, c2cMember, c2cJob, c2cPairs, c2cDrops>>

(* Runs before the mutex is taken: the DROP is looked for, and appended when  *)
(* it is missing.                                                             *)
ensureC2CChain(a) ==
    /\ AttMoves(a, "up", "checked")
    /\ c2cDrops' = IF c2cDrops = 0 THEN 1 ELSE c2cDrops
    /\ UNCHANGED <<setupTries, leased, c2cMember, c2cJob, c2cPairs, netErrs>>

(* Every pair with the members the job has goes on top of the chain; then    *)
(* the container is entered.  An insert that fails returns at once: what was *)
(* inserted stays and nothing is entered, and the caller only logs it.       *)
joinJobNetwork(a) ==
    LET j == JobOfAtt[a]
        new == Pairs(leased[a], c2cJob[j] \ {leased[a]})
    IN /\ AttMoves(a, "checked", "joined")
       /\ \/ /\ c2cPairs' = c2cPairs (+) SetToBag(new)
             /\ c2cJob' = [c2cJob EXCEPT ![j] = @ \cup {leased[a]}]
             /\ c2cMember' = [c2cMember EXCEPT ![a] = leased[a]]
             /\ UNCHANGED netErrs
          \/ /\ netErrs < MaxNetErrs /\ netErrs' = netErrs + 1
             /\ \E in \in SUBSET new : in # new /\ c2cPairs' = c2cPairs (+) SetToBag(in)
             /\ UNCHANGED <<c2cJob, c2cMember>>
       /\ UNCHANGED <<setupTries, leased, c2cDrops>>

(* On teardown, before the address is given back: the pairs with the members *)
(* that are left are deleted one by one; one that cannot be is logged.  An   *)
(* id that never joined has none.                                            *)
leaveJobNetwork(a) ==
    LET j == JobOfAtt[a]
        ip == c2cMember[a]
        old == IF ip = NoAddr THEN {} ELSE Pairs(ip, c2cJob[j] \ {ip})
    IN /\ AttMoves(a, "joined", "leaving")
       /\ c2cMember' = [c2cMember EXCEPT ![a] = NoAddr]
       /\ c2cJob' = [c2cJob EXCEPT ![j] = @ \ {ip}]
       /\ \/ c2cPairs' = c2cPairs (-) SetToBag(old) /\ UNCHANGED netErrs
          \/ /\ netErrs < MaxNetErrs /\ netErrs' = netErrs + 1
             /\ \E r \in old : c2cPairs' = c2cPairs (-) SetToBag(old \ {r})
       /\ UNCHANGED <<setupTries, leased, c2cDrops>>

(* A teardown that gives the address back before the container has left.     *)
teardownNet_First(a) ==
    /\ attAt[a] = "joined" /\ leased[a] # NoAddr
    /\ leased' = [leased EXCEPT ![a] = NoAddr]
    /\ UNCHANGED <<attAt, setupTries, c2cMember, c2cJob, c2cPairs, c2cDrops, netErrs>>

(* CNI DEL: the address goes back to the pool, or stays when DEL fails.      *)
teardownNet(a) ==
    /\ AttMoves(a, "leaving", "gone")
    /\ \/ leased' = [leased EXCEPT ![a] = NoAddr] /\ UNCHANGED netErrs
       \/ netErrs < MaxNetErrs /\ netErrs' = netErrs + 1 /\ UNCHANGED leased
    /\ UNCHANGED <<setupTries, c2cMember, c2cJob, c2cPairs, c2cDrops>>

(* removeFirewallRules and cleanup at shutdown, or the flushes of             *)
(* installFirewallRules by the daemon that follows a crash: with no container *)
(* left the chain, the membership and IPAM's reservations go together.        *)
Cleanup ==
    /\ \A a \in Attachments : attAt[a] = "gone"
    /\ c2cPairs' = EmptyBag /\ c2cDrops' = 0
    /\ c2cJob' = [j \in Jobs |-> {}]
    /\ c2cMember' = [a \in Attachments |-> NoAddr]
    /\ leased' = [a \in Attachments |-> NoAddr]
    /\ setupTries' = [a \in Attachments |-> 0]
    /\ attAt' = [a \in Attachments |-> "none"]
    /\ UNCHANGED netErrs

(* jobForIP: the job whose member holds the address. *)
jobForIP(ip) == {JobOfAtt[a] : a \in {b \in Attachments : c2cMember[b] = ip}}

AttStep(a) == \/ setup(a) \/ retrySetup(a) \/ ensureC2CChain(a)
              \/ joinJobNetwork(a) \/ leaveJobNetwork(a) \/ teardownNet(a)
JobNetNext == (\E a \in Attachments : AttStep(a)) \/ Cleanup
JobNetSpec == JobNetInit /\ [][JobNetNext]_jobNetVars

----------------------------------------------------------------------------
JobNetTypeOK ==
    /\ attAt \in [Attachments -> AttPhases]
    /\ setupTries \in [Attachments -> 0 .. SetupAttempts]
    /\ leased \in [Attachments -> Addrs \cup {NoAddr}]
    /\ c2cMember \in [Attachments -> Addrs \cup {NoAddr}]
    /\ c2cJob \in [Jobs -> SUBSET Addrs]
    /\ BagToSet(c2cPairs) \subseteq PairsOf
    /\ c2cDrops \in 0 .. 1 /\ netErrs \in 0 .. MaxNetErrs

(* An ACCEPT of the chain never joins the containers of two jobs, whatever   *)
(* addresses are reused, as long as no call failed: a container leaves the   *)
(* job's network before its address is given back (runtime.go:1805-1814).    *)
JobsApart ==
    netErrs = 0 =>
        \A a, b \in Attachments :
            <<leased[a], leased[b]>> \in BagToSet(c2cPairs) => JobOfAtt[a] = JobOfAtt[b]

(* Two members of one job reach each other, in both directions, however      *)
(* their joins and leaves interleave, as long as no call failed.             *)
JobTogether ==
    netErrs = 0 =>
        \A a, b \in Attachments :
            (/\ JobOfAtt[a] = JobOfAtt[b] /\ c2cMember[a] # c2cMember[b]
             /\ c2cMember[a] # NoAddr /\ c2cMember[b] # NoAddr)
            => <<c2cMember[a], c2cMember[b]>> \in BagToSet(c2cPairs)

(* A request's source address is attributed to the job that holds it now,     *)
(* failed calls included: jobForIP names no job, or that of the container     *)
(* IPAM leased the address to.                                                *)
AttributedRight ==
    \A a \in Attachments : leased[a] # NoAddr =>
        jobForIP(leased[a]) \subseteq {JobOfAtt[a]}
=============================================================================
