---------------------------- MODULE NetworkProofs -----------------------------
(***************************************************************************)
(* Invariants of the networks a node gives its jobs, for every number of   *)
(* containers, addresses, failed calls and restarts.                       *)
(***************************************************************************)
EXTENDS MCContainers, WellFoundedInduction, FiniteSetTheorems, SequenceTheorems, TLAPS

(* Min is what its name says: a set of naturals that has an element has a  *)
(* least one.                                                              *)
LEMMA LeastOf ==
  ASSUME NEW S, S \subseteq Nat, S # {}
  PROVE  Min(S) \in S /\ \A y \in S : Min(S) <= y
<1> DEFINE Less == {ss \in Nat \X Nat : ss[1] < ss[2]}
<1>1. IsWellFoundedOn(Less, Nat)
  BY NatLessThanWellFounded DEF OpToRel
<1>2. PICK x \in S : \A y \in S : ~(<<y, x>> \in Less)
  <2> HIDE DEF Less
  <2> QED BY <1>1, WFMin
<1>3. ASSUME NEW y \in S PROVE x <= y
  <2>1. <<y, x>> \in Nat \X Nat /\ ~(<<y, x>> \in Less)
    BY <1>2
  <2>2. ~(<<y, x>>[1] < <<y, x>>[2])
    BY <2>1
  <2> QED BY <2>2
<1> QED BY <1>3 DEF Min

-----------------------------------------------------------------------------
(* L2Bridge: the allocator holds addresses only while a daemon is up; and   *)
(* as long as no call failed, an address HNS holds is one the allocator     *)
(* holds for the same endpoint, or one that was withheld at the start.      *)
Addresses == 0 .. 2^AddrBits - 1

L2Typed ==
  /\ plan = NoPlan \/ plan \in Plans
  /\ wAt \in [Endpoints -> {"none", "up", "leaving", "gone"}]
  /\ hnsEp \in [Endpoints -> Addresses \cup {NoIP}]
  /\ byID \in [Endpoints -> Addresses \cup {NoIP}]
  /\ hcnErrs \in Nat
DownHoldsNone == ~plan.up => \A e \in Endpoints : byID[e] = NoIP
HnsKnown ==
  plan.up /\ hcnErrs = 0 =>
    \A e \in Endpoints : hnsEp[e] # NoIP => hnsEp[e] = byID[e] \/ hnsEp[e] \in reserved

L2Inv == L2Typed /\ DownHoldsNone /\ HnsKnown /\ NothingStranded /\ AddressOwned

(* A plan's pool is a set of addresses without the host's and the gateway's. *)
LEMMA PlansAre ==
  ASSUME NEW p \in Plans
  PROVE  /\ p.up /\ p.pool \subseteq Addresses
         /\ HostAddr \notin p.pool /\ Router \notin p.pool
         /\ p.hostAccess \in BOOLEAN /\ p.extra \in BOOLEAN
  BY SubnetAssumption DEF Plans, Addresses

(* What is offered is in the pool, not withheld, and nobody's.              *)
LEMMA Offered ==
  ASSUME L2Typed, plan.up, allocate # NoIP
  PROVE  allocate \in Addresses /\ allocate \in plan.pool /\ allocate \notin reserved /\ allocate \notin Held(byID)
<1>1. plan \in Plans
  BY DEF L2Typed, NoPlan
<1>2. Candidates \subseteq Nat /\ Candidates # {}
  BY <1>1, PlansAre DEF Candidates, Addresses, allocate
<1>3. allocate \in Candidates
  BY <1>2, LeastOf DEF allocate
<1> QED BY <1>1, <1>3, PlansAre DEF Candidates

(* No step of a daemon, of a container or of a kill spoils that.            *)
LEMMA L2InvStep == L2Inv /\ L2Next => L2Inv'
<1> SUFFICES ASSUME L2Inv, L2Next PROVE L2Inv'
  OBVIOUS
<1>0. NoIP \notin Addresses
  BY DEF NoIP, Addresses
<1> USE DEF L2Inv, L2Typed, DownHoldsNone, HnsKnown, NothingStranded, AddressOwned
<1>1. CASE initL2Bridge
  <2>1. plan' \in Plans /\ plan'.up
    BY <1>1, PlansAre DEF initL2Bridge
  <2>2. \A e \in Endpoints : wAt'[e] # "up"
    BY <1>1 DEF initL2Bridge
  <2>3. wAt' \in [Endpoints -> {"none", "up", "leaving", "gone"}]
    BY <1>1 DEF initL2Bridge
  <2>4. HnsKnown'
    BY <1>1 DEF initL2Bridge, adoptExistingEndpoints, Held, HcnErrs
  <2>5. hcnErrs' \in Nat
    BY <1>1 DEF initL2Bridge, HcnErrs
  <2> QED BY <1>1, <2>1, <2>2, <2>3, <2>4, <2>5 DEF initL2Bridge
<1>2. ASSUME NEW e \in Endpoints, windowsSetup(e) PROVE L2Inv'
  <2> DEFINE ip == allocate
  <2>0. ip # NoIP => ip \in Addresses /\ ip \in plan.pool /\ ip \notin Held(byID)
    BY <1>2, Offered DEF windowsSetup
  <2>1. plan.up /\ plan' = plan /\ reserved' = reserved /\ wAt[e] = "none" /\ byID[e] = NoIP
    BY <1>2 DEF windowsSetup
  <2>2. HostAddr \notin plan.pool /\ Router \notin plan.pool
    BY <2>1, PlansAre DEF NoPlan
  <2> HIDE DEF ip
  <2>3. CASE /\ ip # NoIP /\ ip \notin Held(hnsEp)
             /\ wAt' = [wAt EXCEPT ![e] = "up"]
             /\ byID' = [byID EXCEPT ![e] = ip] /\ hnsEp' = [hnsEp EXCEPT ![e] = ip]
             /\ UNCHANGED hcnErrs
    <3>1. \A f \in Endpoints : hnsEp[f] # ip
      BY <2>3 DEF Held
    <3> QED BY <1>0, <2>0, <2>1, <2>2, <2>3, <3>1
  <2>4. CASE wAt' = [wAt EXCEPT ![e] = "gone"] /\ UNCHANGED <<byID, hnsEp, hcnErrs>>
    BY <2>1, <2>4
  <2>5. CASE wAt' = [wAt EXCEPT ![e] = "gone"] /\ HcnErrs(1) /\ UNCHANGED <<byID, hnsEp>>
    BY <2>1, <2>5 DEF HcnErrs
  <2>6. CASE /\ ip # NoIP /\ ip \notin Held(hnsEp) /\ wAt' = [wAt EXCEPT ![e] = "gone"]
             /\ HcnErrs(2) /\ hnsEp' = [hnsEp EXCEPT ![e] = ip] /\ UNCHANGED byID
    <3>1. \A f \in Endpoints : hnsEp[f] # ip
      BY <2>6 DEF Held
    <3> QED BY <1>0, <2>0, <2>1, <2>6, <3>1 DEF HcnErrs
  <2> QED BY <1>2, <2>3, <2>4, <2>5, <2>6 DEF windowsSetup, ip
<1>3. ASSUME NEW e \in Endpoints, windowsOpenHostPort(e) PROVE L2Inv'
  BY <1>3 DEF windowsOpenHostPort, HcnErrs
<1>4. ASSUME NEW e \in Endpoints, windowsTeardown(e) PROVE L2Inv'
  <2>1. plan' = plan /\ reserved' = reserved /\ wAt' = [wAt EXCEPT ![e] = "leaving"]
        /\ byID' = [byID EXCEPT ![e] = NoIP]
    BY <1>4 DEF windowsTeardown
  <2>2. CASE hnsEp' = [hnsEp EXCEPT ![e] = NoIP] /\ UNCHANGED hcnErrs
    BY <1>0, <2>1, <2>2, PlansAre DEF NoPlan
  <2>3. CASE HcnErrs(1) /\ UNCHANGED hnsEp
    BY <2>1, <2>3 DEF HcnErrs
  <2> QED BY <1>4, <2>2, <2>3 DEF windowsTeardown, EndpointGoes
<1>5. ASSUME NEW e \in Endpoints, windowsCloseHostPort(e) PROVE L2Inv'
  BY <1>5 DEF windowsCloseHostPort, HcnErrs
<1>6. CASE removeL2BridgeFirewallRules
  BY <1>6 DEF removeL2BridgeFirewallRules, NoPlan
<1>7. CASE Killed
  BY <1>7 DEF Killed, NoPlan
<1> QED BY <1>1, <1>2, <1>3, <1>4, <1>5, <1>6, <1>7 DEF L2Next

(* The ladder of a plan that is up decides as the policy says.              *)
LEMMA LadderDecides == ASSUME L2Typed PROVE EgressClosed
<1> SUFFICES ASSUME plan.up PROVE EgressClosed
  BY DEF EgressClosed
<1>1. plan.hostAccess \in BOOLEAN /\ plan.extra \in BOOLEAN
  BY PlansAre DEF L2Typed, NoPlan
<1> DEFINE Deny == <<200, {"host", "extra", "private"}, "block">>
           Pass == <<65500, Destinations, "allow">>
           Host == <<100, {"host"}, "allow">>
           Extra == <<150, {"extra"}, "allow">>
           Hit(dst) == {r \in buildL2BridgeEgressACLPolicies : dst \in r[2]}
           First(r, dst) == r \in Hit(dst) /\ \A q \in Hit(dst) : q = r \/ r[1] < q[1]
<1>2. ASSUME NEW r, NEW dst, First(r, dst), r[1] \in Nat, \A q \in Hit(dst) : q[1] \in Nat
      PROVE  Egress(dst) = r[3]
  <2>1. r \in Hit(dst) /\ \A q \in Hit(dst) : r[1] <= q[1]
    BY <1>2
  <2>2. ASSUME NEW s \in Hit(dst), \A q \in Hit(dst) : s[1] <= q[1] PROVE s = r
    BY <1>2, <2>2
  <2>3. (CHOOSE s \in Hit(dst) : \A q \in Hit(dst) : s[1] <= q[1]) = r
    BY <2>1, <2>2
  <2> QED BY <2>3 DEF Egress
<1>3. \A dst : Hit(dst) \subseteq {Deny, Pass, Host, Extra}
  BY DEF buildL2BridgeEgressACLPolicies
<1>4. \A dst : \A q \in Hit(dst) : q[1] \in Nat
  BY <1>3
<1>5. First(Deny, "private") /\ First(Pass, "public")
  BY DEF buildL2BridgeEgressACLPolicies, Destinations
<1>6. IF plan.hostAccess THEN First(Host, "host") ELSE First(Deny, "host")
  BY <1>1 DEF buildL2BridgeEgressACLPolicies, Destinations
<1>7. IF plan.extra THEN First(Extra, "extra") ELSE First(Deny, "extra")
  BY <1>1 DEF buildL2BridgeEgressACLPolicies, Destinations
<1> HIDE DEF First
<1> QED BY <1>1, <1>2, <1>4, <1>5, <1>6, <1>7 DEF EgressClosed
-----------------------------------------------------------------------------
(* JobNetwork.  Leases are distinct; a member has the address it joined     *)
(* with; a job's addresses are those of its members; and as long as no call *)
(* failed the chain accepts exactly the pairs of one job's addresses, each  *)
(* once.                                                                    *)
JobNetTyped ==
  /\ attAt \in [Attachments -> AttPhases]
  /\ leased \in [Attachments -> Addrs \cup {NoAddr}]
  /\ c2cMember \in [Attachments -> Addrs \cup {NoAddr}]
  /\ c2cJob \in [Jobs -> SUBSET Addrs]
  /\ netErrs \in Nat
LeasesDistinct ==
  \A a, b \in Attachments : a # b /\ leased[a] = leased[b] => leased[a] = NoAddr
LeasedOnceUp == \A a \in Attachments : attAt[a] \in {"up", "checked", "joined"} => leased[a] # NoAddr
MembersJoined ==
  \A a \in Attachments : c2cMember[a] # NoAddr => attAt[a] = "joined" /\ leased[a] = c2cMember[a]
JobsOfMembers ==
  \A j \in Jobs : \A x \in Addrs :
    x \in c2cJob[j] <=> \E a \in Attachments : JobOfAtt[a] = j /\ c2cMember[a] = x
OnePer(B) == \A p \in DOMAIN B : B[p] = 1
JobPairs == UNION {{p \in c2cJob[j] \X c2cJob[j] : p[1] # p[2]} : j \in Jobs}
PairsExact == netErrs = 0 => OnePer(c2cPairs) /\ DOMAIN c2cPairs = JobPairs

JobNetInv ==
  JobNetTyped /\ LeasesDistinct /\ LeasedOnceUp /\ MembersJoined /\ JobsOfMembers /\ PairsExact

(* Rules that are not there yet are there once when they have been added.   *)
LEMMA PairsAdded ==
  ASSUME NEW B, NEW S, OnePer(B), S \cap DOMAIN B = {}
  PROVE  OnePer(B (+) SetToBag(S)) /\ DOMAIN (B (+) SetToBag(S)) = DOMAIN B \cup S
  BY DEF OnePer, SetToBag, (+)

(* Rules that are there once are gone when they have been deleted.          *)
LEMMA PairsTaken ==
  ASSUME NEW B, NEW S, OnePer(B)
  PROVE  OnePer(B (-) SetToBag(S)) /\ DOMAIN (B (-) SetToBag(S)) = DOMAIN B \ S
  BY DEF OnePer, SetToBag, (-)

(* The pairs of an address with those of a job that it joins, or leaves, are *)
(* the pairs its coming adds and its going removes, when no other job has    *)
(* the address.                                                              *)
LEMMA PairsOfOne ==
  ASSUME JobNetTyped, NEW j \in Jobs, NEW x \in Addrs,
         \A i \in Jobs \ {j} : x \notin c2cJob[i]
  PROVE  /\ c2cJob' = [c2cJob EXCEPT ![j] = @ \cup {x}] /\ x \notin c2cJob[j] =>
              JobPairs' = JobPairs \cup Pairs(x, c2cJob[j] \ {x}) /\ Pairs(x, c2cJob[j] \ {x}) \cap JobPairs = {}
         /\ c2cJob' = [c2cJob EXCEPT ![j] = @ \ {x}] =>
              JobPairs' = JobPairs \ Pairs(x, c2cJob[j] \ {x})
<1>1. \A p : p \in JobPairs <=> \E i \in Jobs : \E y, z \in c2cJob[i] : p = <<y, z>> /\ y # z
  BY DEF JobPairs
<1>2. \A p : p \in JobPairs' <=> \E i \in Jobs : \E y, z \in c2cJob'[i] : p = <<y, z>> /\ y # z
  BY DEF JobPairs, Jobs
<1>3. \A p : p \in Pairs(x, c2cJob[j] \ {x}) <=>
               \E y \in c2cJob[j] \ {x} : p = <<x, y>> \/ p = <<y, x>>
  BY DEF Pairs
<1>4. ASSUME c2cJob' = [c2cJob EXCEPT ![j] = @ \cup {x}], x \notin c2cJob[j]
      PROVE  JobPairs' = JobPairs \cup Pairs(x, c2cJob[j] \ {x}) /\ Pairs(x, c2cJob[j] \ {x}) \cap JobPairs = {}
  <2>1. \A i \in Jobs : c2cJob'[i] = IF i = j THEN c2cJob[j] \cup {x} ELSE c2cJob[i]
    BY <1>4 DEF JobNetTyped
  <2>2. \A p : p \in Pairs(x, c2cJob[j] \ {x}) => p \notin JobPairs
    BY <1>1, <1>3, <1>4
  <2>3. ASSUME NEW p \in JobPairs' PROVE p \in JobPairs \/ p \in Pairs(x, c2cJob[j] \ {x})
    <3>0. PICK i \in Jobs : \E y, z \in c2cJob'[i] : p = <<y, z>> /\ y # z
      BY <1>2
    <3>1. PICK y \in c2cJob'[i], z \in c2cJob'[i] : p = <<y, z>> /\ y # z
      BY <3>0
    <3>2. CASE y = x
      <4>1. z \in c2cJob[j] \ {x}
        BY <2>1, <3>1, <3>2
      <4> QED BY <1>3, <3>1, <3>2, <4>1
    <3>3. CASE z = x
      <4>1. y \in c2cJob[j] \ {x}
        BY <2>1, <3>1, <3>3
      <4> QED BY <1>3, <3>1, <3>3, <4>1
    <3>4. CASE y # x /\ z # x
      BY <1>1, <2>1, <3>1, <3>4
    <3> QED BY <3>2, <3>3, <3>4
  <2>4. \A p : p \in JobPairs => p \in JobPairs'
    BY <1>1, <1>2, <2>1
  <2>5. \A p : p \in Pairs(x, c2cJob[j] \ {x}) => p \in JobPairs'
    <3>1. \A y \in c2cJob[j] \ {x} : x \in c2cJob'[j] /\ y \in c2cJob'[j] /\ x # y
      BY <2>1
    <3> QED BY <1>2, <1>3, <3>1
  <2> QED BY <2>2, <2>3, <2>4, <2>5
<1>5. ASSUME c2cJob' = [c2cJob EXCEPT ![j] = @ \ {x}]
      PROVE  JobPairs' = JobPairs \ Pairs(x, c2cJob[j] \ {x})
  <2>1. \A i \in Jobs : c2cJob'[i] = IF i = j THEN c2cJob[j] \ {x} ELSE c2cJob[i]
    BY <1>5 DEF JobNetTyped
  <2>2. ASSUME NEW p \in JobPairs' PROVE p \in JobPairs /\ p \notin Pairs(x, c2cJob[j] \ {x})
    <3>0. PICK i \in Jobs : \E y, z \in c2cJob'[i] : p = <<y, z>> /\ y # z
      BY <1>2
    <3>1. PICK y \in c2cJob'[i], z \in c2cJob'[i] : p = <<y, z>> /\ y # z
      BY <3>0
    <3>2. y # x /\ z # x /\ y \in c2cJob[i] /\ z \in c2cJob[i]
      BY <2>1, <3>1
    <3> QED BY <1>1, <1>3, <3>1, <3>2
  <2>3. ASSUME NEW p \in JobPairs, p \notin Pairs(x, c2cJob[j] \ {x}) PROVE p \in JobPairs'
    <3>1. PICK i \in Jobs : \E y, z \in c2cJob[i] : p = <<y, z>> /\ y # z
      BY <1>1, <2>3
    <3>2. PICK y \in c2cJob[i], z \in c2cJob[i] : p = <<y, z>> /\ y # z
      BY <3>1
    <3>3. y # x /\ z # x
      BY <1>3, <2>3, <3>2
    <3> QED BY <1>2, <2>1, <3>2, <3>3
  <2> QED BY <2>2, <2>3
<1> QED BY <1>4, <1>5
(* What one attachment does to the leases and the members keeps them apart. *)
LEMMA LeasesKeep ==
  ASSUME JobNetInv, NEW a \in Attachments, NEW to \in AttPhases,
         attAt' = [attAt EXCEPT ![a] = to], UNCHANGED <<c2cMember, c2cJob, c2cPairs>>,
         attAt[a] # "joined", netErrs' \in Nat, netErrs' = 0 => netErrs = 0,
         \/ leased' = leased
         \/ leased' = [leased EXCEPT ![a] = NoAddr]
         \/ \E ip \in Free : leased' = [leased EXCEPT ![a] = ip],
         to \in {"up", "checked", "joined"} => leased'[a] # NoAddr
  PROVE  JobNetInv'
<1> USE DEF JobNetInv, JobNetTyped
<1>1. c2cMember[a] = NoAddr
  BY DEF MembersJoined
<1>2. JobNetTyped' /\ JobsOfMembers' /\ PairsExact'
  BY DEF Free, JobsOfMembers, PairsExact, JobPairs
<1>3. LeasesDistinct' /\ LeasedOnceUp'
  BY DEF Free, LeasesDistinct, LeasedOnceUp
<1>4. MembersJoined'
  BY <1>1 DEF MembersJoined
<1> QED BY <1>2, <1>3, <1>4

(* No step of an attachment, and no restart, spoils the invariant.          *)
LEMMA JobNetInvStep == JobNetInv /\ JobNetNext => JobNetInv'
<1> SUFFICES ASSUME JobNetInv, JobNetNext PROVE JobNetInv'
  OBVIOUS
<1> USE DEF AttMoves
<1>0. NoAddr \notin Free /\ NoAddr \notin Addrs
  BY JobNetworkAssumption DEF Free
<1>1. ASSUME NEW a \in Attachments, setup(a) PROVE JobNetInv'
  <2>1. CASE attAt' = [attAt EXCEPT ![a] = "up"]
    <3>1. \E ip \in Free : leased' = [leased EXCEPT ![a] = ip] /\ netErrs' = netErrs
      BY <1>1, <2>1 DEF setup, JobNetInv, JobNetTyped
    <3> QED BY <1>0, <1>1, <2>1, <3>1, LeasesKeep DEF setup, AttPhases, JobNetInv, JobNetTyped
  <2>2. CASE attAt' = [attAt EXCEPT ![a] = "failing"]
    <3>1. netErrs' \in Nat /\ (netErrs' = 0 => netErrs = 0)
      BY <1>1, <2>2 DEF setup, JobNetInv, JobNetTyped
    <3>2. leased' = leased \/ \E ip \in Free : leased' = [leased EXCEPT ![a] = ip]
      BY <1>1, <2>2 DEF setup, JobNetInv, JobNetTyped
    <3> QED BY <1>1, <2>2, <3>1, <3>2, LeasesKeep DEF setup, AttPhases
  <2> QED BY <1>1, <2>1, <2>2 DEF setup
<1>2. ASSUME NEW a \in Attachments, retrySetup(a) PROVE JobNetInv'
  <2>1. netErrs' \in Nat /\ (netErrs' = 0 => netErrs = 0)
    BY <1>2 DEF retrySetup, JobNetInv, JobNetTyped
  <2>2. leased' = leased \/ leased' = [leased EXCEPT ![a] = NoAddr]
    BY <1>2 DEF retrySetup
  <2>3. PICK to \in {"adding", "gone"} : attAt' = [attAt EXCEPT ![a] = to]
    BY <1>2 DEF retrySetup
  <2> QED BY <1>2, <2>1, <2>2, <2>3, LeasesKeep DEF retrySetup, AttPhases
<1>3. ASSUME NEW a \in Attachments, ensureC2CChain(a) PROVE JobNetInv'
  <2>1. leased'[a] # NoAddr
    BY <1>3 DEF ensureC2CChain, JobNetInv, LeasedOnceUp
  <2> QED BY <1>3, <2>1, LeasesKeep DEF ensureC2CChain, AttPhases, JobNetInv, JobNetTyped
<1>4. ASSUME NEW a \in Attachments, joinJobNetwork(a) PROVE JobNetInv'
  <2> DEFINE j == JobOfAtt[a]
             x == leased[a]
             new == Pairs(x, c2cJob[j] \ {x})
  <2>1. j \in Jobs /\ x \in Addrs /\ attAt[a] = "checked" /\ c2cMember[a] = NoAddr
    BY <1>4 DEF joinJobNetwork, Jobs, JobNetInv, JobNetTyped, LeasedOnceUp, MembersJoined
  <2>2. \A i \in Jobs : x \notin c2cJob[i]
    BY <1>0, <2>1 DEF JobNetInv, JobsOfMembers, MembersJoined, LeasesDistinct
  <2>3. attAt' = [attAt EXCEPT ![a] = "joined"] /\ leased' = leased
    BY <1>4 DEF joinJobNetwork
  <2>4. LeasesDistinct' /\ LeasedOnceUp'
    BY <2>1, <2>3 DEF JobNetInv, JobNetTyped, LeasesDistinct, LeasedOnceUp
  <2>5. CASE /\ c2cPairs' = c2cPairs (+) SetToBag(new) /\ netErrs' = netErrs
             /\ c2cJob' = [c2cJob EXCEPT ![j] = @ \cup {x}]
             /\ c2cMember' = [c2cMember EXCEPT ![a] = x]
    <3>1. JobPairs' = JobPairs \cup new /\ new \cap JobPairs = {}
      BY <2>1, <2>2, <2>5, PairsOfOne DEF JobNetInv
    <3>2. JobNetTyped' /\ MembersJoined'
      BY <2>1, <2>3, <2>5 DEF JobNetInv, JobNetTyped, MembersJoined, AttPhases, Jobs
    <3>3. JobsOfMembers'
      <4>1. \A i \in Jobs : c2cJob'[i] = IF i = j THEN c2cJob[j] \cup {x} ELSE c2cJob[i]
        BY <2>5 DEF JobNetInv, JobNetTyped
      <4>2. \A b \in Attachments : c2cMember'[b] = IF b = a THEN x ELSE c2cMember[b]
        BY <2>5 DEF JobNetInv, JobNetTyped
      <4>3. Jobs' = Jobs
        BY DEF Jobs
      <4> QED BY <1>0, <2>1, <2>2, <4>1, <4>2, <4>3 DEF JobNetInv, JobsOfMembers
    <3>4. PairsExact'
      <4>1. CASE netErrs = 0
        <5>1. OnePer(c2cPairs) /\ DOMAIN c2cPairs = JobPairs
          BY <4>1 DEF JobNetInv, PairsExact
        <5> QED BY <2>5, <3>1, <5>1, PairsAdded DEF PairsExact, OnePer
      <4> QED BY <2>5, <4>1 DEF PairsExact
    <3> QED BY <2>4, <3>2, <3>3, <3>4 DEF JobNetInv
  <2>6. CASE UNCHANGED <<c2cJob, c2cMember>> /\ netErrs' = netErrs + 1
    <3>1. JobNetTyped' /\ MembersJoined'
      BY <2>1, <2>3, <2>6 DEF JobNetInv, JobNetTyped, MembersJoined, AttPhases, Jobs
    <3>2. JobsOfMembers' /\ netErrs' # 0
      BY <2>6 DEF JobNetInv, JobNetTyped, JobsOfMembers, Jobs
    <3> QED BY <2>4, <3>1, <3>2 DEF JobNetInv, PairsExact
  <2> QED BY <1>4, <2>5, <2>6 DEF joinJobNetwork
<1>5. ASSUME NEW a \in Attachments, leaveJobNetwork(a) PROVE JobNetInv'
  <2> DEFINE j == JobOfAtt[a]
             x == c2cMember[a]
             gone == IF x = NoAddr THEN {} ELSE Pairs(x, c2cJob[j] \ {x})
  <2>1. j \in Jobs /\ attAt[a] = "joined" /\ leased' = leased
        /\ attAt' = [attAt EXCEPT ![a] = "leaving"]
        /\ c2cMember' = [c2cMember EXCEPT ![a] = NoAddr]
        /\ c2cJob' = [c2cJob EXCEPT ![j] = @ \ {x}]
    BY <1>5 DEF leaveJobNetwork, Jobs
  <2>2. netErrs' \in Nat /\ (netErrs' = 0 => netErrs = 0 /\ c2cPairs' = c2cPairs (-) SetToBag(gone))
    BY <1>5 DEF leaveJobNetwork, JobNetInv, JobNetTyped
  <2>3. \A b \in Attachments \ {a} : x # NoAddr => c2cMember[b] # x
    BY DEF JobNetInv, MembersJoined, LeasesDistinct
  <2>4. LeasesDistinct' /\ LeasedOnceUp' /\ MembersJoined' /\ JobNetTyped'
    BY <2>1, <2>2 DEF JobNetInv, JobNetTyped, LeasesDistinct, LeasedOnceUp, MembersJoined, AttPhases, Jobs
  <2>5. \A i \in Jobs : c2cJob'[i] = IF i = j THEN c2cJob[j] \ {x} ELSE c2cJob[i]
    BY <2>1 DEF JobNetInv, JobNetTyped
  <2>6. JobsOfMembers'
    <3>1. \A b \in Attachments : c2cMember'[b] = IF b = a THEN NoAddr ELSE c2cMember[b]
      BY <2>1 DEF JobNetInv, JobNetTyped
    <3>2. Jobs' = Jobs
      BY DEF Jobs
    <3> QED BY <1>0, <2>3, <2>5, <3>1, <3>2 DEF JobNetInv, JobsOfMembers
  <2>7. JobPairs' = JobPairs \ gone
    <3>1. CASE x = NoAddr
      <4>1. c2cJob' = c2cJob
        BY <1>0, <2>1, <3>1 DEF JobNetInv, JobNetTyped
      <4> QED BY <3>1, <4>1 DEF JobPairs, Jobs
    <3>2. CASE x # NoAddr
      <4>1. x \in Addrs /\ \A i \in Jobs \ {j} : x \notin c2cJob[i]
        BY <2>3, <3>2 DEF JobNetInv, JobNetTyped, JobsOfMembers
      <4> QED BY <2>1, <3>2, <4>1, PairsOfOne DEF JobNetInv
    <3> QED BY <3>1, <3>2
  <2>8. PairsExact'
    <3>1. CASE netErrs' = 0
      <4>1. OnePer(c2cPairs) /\ DOMAIN c2cPairs = JobPairs
        BY <2>2, <3>1 DEF JobNetInv, PairsExact
      <4> HIDE DEF gone
      <4>2. OnePer(c2cPairs (-) SetToBag(gone)) /\ DOMAIN (c2cPairs (-) SetToBag(gone)) = JobPairs \ gone
        BY <4>1, PairsTaken
      <4>3. c2cPairs' = c2cPairs (-) SetToBag(gone)
        BY <2>2, <3>1
      <4> QED BY <2>7, <4>2, <4>3 DEF PairsExact, OnePer
    <3> QED BY <3>1 DEF PairsExact
  <2> QED BY <2>4, <2>6, <2>8 DEF JobNetInv
<1>6. ASSUME NEW a \in Attachments, teardownNet(a) PROVE JobNetInv'
  <2>1. leased' = leased \/ leased' = [leased EXCEPT ![a] = NoAddr]
    BY <1>6 DEF teardownNet
  <2>2. netErrs' \in Nat /\ (netErrs' = 0 => netErrs = 0)
    BY <1>6 DEF teardownNet, JobNetInv, JobNetTyped
  <2> QED BY <1>6, <2>1, <2>2, LeasesKeep DEF teardownNet, AttPhases
<1>7. CASE Cleanup
  <2>1. JobNetTyped' /\ LeasesDistinct' /\ LeasedOnceUp' /\ MembersJoined'
    BY <1>7 DEF Cleanup, JobNetInv, JobNetTyped, LeasesDistinct, LeasedOnceUp, MembersJoined, AttPhases, Jobs
  <2>2. JobsOfMembers' /\ JobPairs' = {}
    BY <1>0, <1>7 DEF Cleanup, JobsOfMembers, JobPairs, Jobs
  <2>3. OnePer(c2cPairs)' /\ (DOMAIN c2cPairs)' = {}
    BY <1>7 DEF Cleanup, OnePer, EmptyBag, SetToBag
  <2> QED BY <2>1, <2>2, <2>3 DEF JobNetInv, PairsExact
<1> QED BY <1>1, <1>2, <1>3, <1>4, <1>5, <1>6, <1>7 DEF JobNetNext, AttStep
-----------------------------------------------------------------------------
BridgesInv == (focus = "l2bridge" => L2Inv) /\ (focus = "jobnet" => JobNetInv)

(* A step of the node is one of the component in focus.                    *)
LEMMA BridgesInvStep ==
  BridgesInv /\ [ContainersNext]_<<focus, containersVars>> => BridgesInv'
<1> SUFFICES ASSUME BridgesInv, [ContainersNext]_<<focus, containersVars>> PROVE BridgesInv'
  OBVIOUS
<1>1. focus' = focus
  BY DEF ContainersNext
<1>2. ASSUME focus = "l2bridge" PROVE L2Inv'
  <2>1. L2Next \/ UNCHANGED l2Vars
    BY <1>2 DEF ContainersNext, ContainersMoves, containersVars
  <2>2. CASE UNCHANGED l2Vars
    BY <1>2, <2>2 DEF l2Vars, BridgesInv, L2Inv, L2Typed, DownHoldsNone, HnsKnown, NothingStranded,
       AddressOwned
  <2> QED BY <1>2, <2>1, <2>2, L2InvStep DEF BridgesInv
<1>3. ASSUME focus = "jobnet" PROVE JobNetInv'
  <2>1. JobNetNext \/ UNCHANGED jobNetVars
    BY <1>3 DEF ContainersNext, ContainersMoves, containersVars
  <2>2. CASE UNCHANGED jobNetVars
    BY <1>3, <2>2 DEF jobNetVars, BridgesInv, JobNetInv, JobNetTyped, LeasesDistinct, LeasedOnceUp,
       MembersJoined, JobsOfMembers, PairsExact, JobPairs, OnePer
  <2> QED BY <1>3, <2>1, <2>2, JobNetInvStep DEF BridgesInv
<1> QED BY <1>1, <1>2, <1>3 DEF BridgesInv

(* A node that starts has no endpoint, no lease and no rule.               *)
LEMMA BridgesStart == ContainersStart => BridgesInv
<1> SUFFICES ASSUME ContainersStart PROVE L2Inv /\ JobNetInv
  BY DEF BridgesInv
<1>1. L2Inv
  BY DEF ContainersStart, ContainersInit, L2Init, L2Inv, L2Typed, DownHoldsNone, HnsKnown,
     NothingStranded, AddressOwned, NoPlan
<1>2. JobNetTyped /\ LeasesDistinct /\ LeasedOnceUp /\ MembersJoined
  BY DEF ContainersStart, ContainersInit, JobNetInit, JobNetTyped, LeasesDistinct, LeasedOnceUp,
     MembersJoined, AttPhases
<1>3. JobsOfMembers /\ JobPairs = {}
  BY JobNetworkAssumption DEF ContainersStart, ContainersInit, JobNetInit, JobsOfMembers, JobPairs
<1>4. OnePer(c2cPairs) /\ DOMAIN c2cPairs = {}
  BY DEF ContainersStart, ContainersInit, JobNetInit, EmptyBag, SetToBag, OnePer
<1> QED BY <1>1, <1>2, <1>3, <1>4 DEF JobNetInv, PairsExact

(* For any number of Windows containers, any pools of addresses, failed HNS *)
(* calls and kills: no two endpoints have one address, the host's and the   *)
(* gateway's are given to nobody, no address is stranded, an address that   *)
(* HNS would refuse is not offered while no call failed, and the ladder     *)
(* closes the LAN.                                                          *)
THEOREM AddressesStayOwned == ContainersSpec => []AddressesOwned
<1>1. BridgesInv => AddressesOwned
  <2> SUFFICES ASSUME BridgesInv, focus = "l2bridge" PROVE OfferIsFree /\ EgressClosed
    BY DEF AddressesOwned, BridgesInv, L2Inv
  <2>1. L2Inv
    BY DEF BridgesInv
  <2>2. OfferIsFree
    <3> SUFFICES ASSUME plan.up, hcnErrs = 0, allocate \in Held(hnsEp) PROVE FALSE
      BY DEF OfferIsFree
    <3>1. PICK e \in Endpoints : hnsEp[e] = allocate /\ allocate # NoIP
      BY DEF Held
    <3>2. allocate \notin reserved /\ allocate \notin Held(byID)
      BY <2>1, <3>1, Offered DEF L2Inv
    <3>3. allocate # byID[e]
      BY <3>1, <3>2 DEF Held
    <3> QED BY <2>1, <3>1, <3>2, <3>3 DEF L2Inv, HnsKnown
  <2> QED BY <2>1, <2>2, LadderDecides DEF L2Inv
<1> QED BY <1>1, BridgesStart, BridgesInvStep, PTL DEF ContainersSpec

(* For any number of containers, jobs and addresses, whatever addresses are *)
(* used again: as long as no call failed no rule joins two jobs and every   *)
(* two members of one job reach each other; and an address is always        *)
(* attributed to the job that has it, failed calls or not.                  *)
THEOREM JobsStayIsolated == ContainersSpec => []JobsIsolated
<1>1. BridgesInv => JobsIsolated
  <2> SUFFICES ASSUME BridgesInv, focus = "jobnet" PROVE JobsApart /\ JobTogether /\ AttributedRight
    BY DEF JobsIsolated
  <2>1. JobNetInv
    BY DEF BridgesInv
  <2>2. \A p : p \in JobPairs <=> \E i \in Jobs : \E y, z \in c2cJob[i] : p = <<y, z>> /\ y # z
    BY DEF JobPairs
  <2>3. netErrs = 0 => BagToSet(c2cPairs) = JobPairs
    BY <2>1 DEF JobNetInv, PairsExact, BagToSet
  <2>4. \A a \in Attachments, b \in Attachments : c2cMember[b] # NoAddr /\ c2cMember[b] = leased[a] => a = b
    BY <2>1 DEF JobNetInv, MembersJoined, LeasesDistinct
  <2>5. JobsApart
    <3> SUFFICES ASSUME netErrs = 0, NEW a \in Attachments, NEW b \in Attachments,
                        <<leased[a], leased[b]>> \in JobPairs
                 PROVE  JobOfAtt[a] = JobOfAtt[b]
      BY <2>3 DEF JobsApart
    <3>1. PICK i \in Jobs : leased[a] \in c2cJob[i] /\ leased[b] \in c2cJob[i]
      BY <2>2
    <3>2. \A c \in Attachments : leased[c] \in c2cJob[i] => JobOfAtt[c] = i
      BY <2>1, <2>4, JobNetworkAssumption DEF JobNetInv, JobNetTyped, JobsOfMembers
    <3> QED BY <3>1, <3>2
  <2>6. JobTogether
    <3> SUFFICES ASSUME netErrs = 0, NEW a \in Attachments, NEW b \in Attachments,
                        JobOfAtt[a] = JobOfAtt[b], c2cMember[a] # c2cMember[b],
                        c2cMember[a] # NoAddr, c2cMember[b] # NoAddr
                 PROVE  <<c2cMember[a], c2cMember[b]>> \in JobPairs
      BY <2>3 DEF JobTogether
    <3>1. JobOfAtt[a] \in Jobs
      BY DEF Jobs
    <3>2. c2cMember[a] \in c2cJob[JobOfAtt[a]] /\ c2cMember[b] \in c2cJob[JobOfAtt[a]]
      BY <2>1, <3>1 DEF JobNetInv, JobNetTyped, JobsOfMembers
    <3> QED BY <2>2, <3>1, <3>2
  <2>7. AttributedRight
    BY <2>4 DEF AttributedRight, jobForIP
  <2> QED BY <2>5, <2>6, <2>7
<1> QED BY <1>1, BridgesStart, BridgesInvStep, PTL DEF ContainersSpec

-----------------------------------------------------------------------------
(* DindNetworks: names of networks are distinct; a network that is not      *)
(* there has no member, a container that is not there no network; and the   *)
(* two records of membership agree.                                         *)
NetsTyped ==
  /\ networks \subseteq Ids /\ Bridge \in networks /\ boxes \subseteq Boxes /\ used \subseteq Ids
  /\ nwName \in [Ids -> Names] /\ nwSubnet \in [Ids -> Nat] /\ nextIP \in [Ids -> Nat \ {0}]
  /\ members \in [Ids -> [Boxes -> Nat]]
  /\ joined \in [Boxes -> [Names -> Ids \X Nat]]
  /\ networks \subseteq used /\ linking \subseteq Boxes
NamesDistinct ==
  /\ nwName[Bridge] = Bridge
  /\ \A n \in networks \ {Bridge} : nwName[n] \in NetNames
  /\ \A m, n \in networks \ {Bridge} : m # n => nwName[m] # nwName[n]
GoneIsEmpty ==
  /\ \A n \in Ids \ networks, b \in Boxes : members[n][b] = 0
  /\ \A b \in Boxes \ boxes, name \in Names : joined[b][name] = NotIn

NetsInv == NetsTyped /\ NamesDistinct /\ GoneIsEmpty /\ MembershipAgrees /\ SubnetsDistinct

(* A subnet that is picked is no network's, or is past the last octet.     *)
LEMMA SubnetPicked ==
  ASSUME NetsTyped
  PROVE  /\ pickFreeSubnet \in Nat
         /\ pickFreeSubnet <= LastOctet => \A n \in networks : nwSubnet[n] # pickFreeSubnet
         /\ pickFreeSubnet <= LastOctet + 1
<1> DEFINE free == {o \in FirstOctet..LastOctet : \A n \in networks : nwSubnet[n] # o}
<1>0. FirstOctet \in Nat /\ LastOctet \in Nat
  BY NetworksAssumption
<1>1. CASE free = {}
  BY <1>0, <1>1 DEF pickFreeSubnet
<1>2. CASE free # {}
  <2>1. free \subseteq Nat
    BY <1>0
  <2>2. Min(free) \in free
    <3> HIDE DEF free
    <3> QED BY <1>2, <2>1, LeastOf
  <2>3. pickFreeSubnet = Min(free)
    BY <1>2 DEF pickFreeSubnet, Min
  <2> QED BY <1>0, <2>2, <2>3
<1> QED BY <1>1, <1>2

(* A container that joins a network is in both records.                     *)
LEMMA JoinsKeep ==
  ASSUME NetsInv, NEW b \in Boxes, NEW n \in networks, Joins(b, n),
         boxes' = boxes \cup {b}, UNCHANGED <<used, networks, nwName, nwSubnet, linking>>
  PROVE  NetsInv'
<1> USE DEF NetsInv
<1>1. nextIP[n] \in Nat \ {0} /\ n \in Ids /\ nwName[n] \in Names
  BY DEF NetsTyped
<1>2. \A m \in Ids, c \in Boxes :
        members'[m][c] = IF m = n /\ c = b THEN nextIP[n] ELSE members[m][c]
  BY DEF Joins, NetsTyped
<1>3. \A c \in Boxes, x \in Names :
        joined'[c][x] = IF c = b /\ x = nwName[n] THEN <<n, nextIP[n]>> ELSE joined[c][x]
  BY DEF Joins, NetsTyped
<1>4. NetsTyped'
  BY <1>1 DEF Joins, allocateIP, NetsTyped
<1>5. NamesDistinct' /\ SubnetsDistinct'
  BY DEF NamesDistinct, SubnetsDistinct
<1>6. GoneIsEmpty'
  BY <1>1, <1>2, <1>3 DEF GoneIsEmpty
<1>7. NetNames \subseteq Names /\ Bridge \notin NetNames
  BY NetworksAssumption DEF Names
<1>8. \A m \in networks \ {Bridge}, c \in Boxes \ boxes : members[m][c] = 0 /\ joined[c][nwName[m]][1] # m
  BY <1>7 DEF MembershipAgrees, GoneIsEmpty, NamesDistinct, NetsTyped, NotIn
<1>9. MembershipAgrees'
  <2>1. ASSUME NEW c \in boxes', NEW m \in networks \ {Bridge}
        PROVE  \/ members'[m][c] = 0 /\ joined'[c][nwName[m]][1] # m
               \/ members'[m][c] # 0 /\ joined'[c][nwName[m]] = <<m, members'[m][c]>>
    <3>1. m \in Ids /\ c \in Boxes /\ nwName[m] \in NetNames
      BY <2>1 DEF NetsTyped, NamesDistinct
    <3>2. CASE m = n /\ c = b
      BY <1>1, <1>2, <1>3, <3>1, <3>2
    <3>3. CASE ~(m = n /\ c = b)
      <4>1. members'[m][c] = members[m][c]
        BY <1>2, <3>1, <3>3
      <4>2. c = b => nwName[m] # nwName[n]
        BY <1>7, <3>1, <3>3 DEF NamesDistinct, NetsTyped
      <4>3. joined'[c][nwName[m]] = joined[c][nwName[m]]
        BY <1>3, <1>7, <3>1, <4>2
      <4> QED BY <1>8, <2>1, <4>1, <4>3 DEF MembershipAgrees
    <3> QED BY <3>2, <3>3
  <2>2. ASSUME NEW c \in boxes', NEW x \in NetNames, joined'[c][x] # NotIn
        PROVE  \E m \in networks : nwName[m] = x /\ joined'[c][x][1] = m
    <3>1. CASE c = b /\ x = nwName[n]
      BY <1>3, <1>7, <3>1
    <3>2. CASE ~(c = b /\ x = nwName[n])
      <4>1. joined'[c][x] = joined[c][x] /\ c \in Boxes
        BY <1>3, <1>7, <2>2, <3>2 DEF NetsTyped
      <4> QED BY <1>7, <2>2, <4>1 DEF MembershipAgrees, GoneIsEmpty
    <3> QED BY <3>1, <3>2
  <2>3. ASSUME NEW m \in networks \ {Bridge}, NEW c \in Boxes, members'[m][c] # 0 PROVE c \in boxes'
    <3>1. m \in Ids
      BY DEF NetsTyped
    <3> QED BY <1>2, <2>3, <3>1 DEF MembershipAgrees
  <2> QED BY <2>1, <2>2, <2>3 DEF MembershipAgrees
<1> QED BY <1>4, <1>5, <1>6, <1>9

(* Networks that go leave no entry of theirs behind, when the containers'   *)
(* entries go with the membership.                                          *)
LEMMA DropKeeps ==
  ASSUME NetsInv, NEW gone \in SUBSET (networks \ {Bridge}), DropNetwork(gone),
         joined' = [b \in Boxes |-> [x \in Names |->
           IF b \in boxes /\ \E n \in gone : nwName[n] = x /\ members[n][b] # 0 THEN NotIn ELSE joined[b][x]]],
         UNCHANGED <<boxes, used, linking>>
  PROVE  NetsInv'
<1> USE DEF NetsInv, DropNetwork
<1>0. networks \subseteq Ids /\ boxes \subseteq Boxes /\ Bridge \in Names /\ NotIn \in Ids \X Nat
      /\ NetNames \subseteq Names /\ Bridge \notin NetNames /\ gone \subseteq Ids
  BY NetworksAssumption DEF NetsTyped, Names, Ids, NotIn
<1>1. \A b \in Boxes, x \in Names : joined'[b][x] =
        IF b \in boxes /\ \E n \in gone : nwName[n] = x /\ members[n][b] # 0 THEN NotIn ELSE joined[b][x]
  OBVIOUS
<1>2. NetsTyped'
  BY <1>0 DEF NetsTyped
<1>3. NamesDistinct' /\ SubnetsDistinct'
  BY <1>0 DEF NamesDistinct, SubnetsDistinct, NetsTyped
<1>4. GoneIsEmpty'
  BY <1>0, <1>1 DEF GoneIsEmpty, NetsTyped
<1>5. MembershipAgrees'
  <2>1. ASSUME NEW c \in boxes, NEW m \in networks' \ {Bridge}
        PROVE  \/ members'[m][c] = 0 /\ joined'[c][nwName'[m]][1] # m
               \/ members'[m][c] # 0 /\ joined'[c][nwName'[m]] = <<m, members'[m][c]>>
    <3>1. m \in networks \ {Bridge} /\ m \notin gone /\ m \in Ids /\ c \in Boxes
      BY <1>0
    <3>2. members'[m] = members[m] /\ nwName'[m] = nwName[m] /\ nwName[m] \in Names
      BY <1>0, <3>1 DEF NetsTyped
    <3>3. joined'[c][nwName[m]] = joined[c][nwName[m]]
      BY <1>0, <1>1, <3>1, <3>2 DEF NamesDistinct
    <3>4. \/ members[m][c] = 0 /\ joined[c][nwName[m]][1] # m
          \/ members[m][c] # 0 /\ joined[c][nwName[m]] = <<m, members[m][c]>>
      BY <3>1 DEF MembershipAgrees
    <3> QED BY <3>2, <3>3, <3>4
  <2>2. ASSUME NEW c \in boxes, NEW x \in NetNames, joined'[c][x] # NotIn
        PROVE  \E m \in networks' : nwName'[m] = x /\ joined'[c][x][1] = m
    <3>1. c \in Boxes /\ joined'[c][x] = joined[c][x] /\ joined[c][x] # NotIn
          /\ ~\E n \in gone : nwName[n] = x /\ members[n][c] # 0
      BY <1>0, <1>1, <2>2
    <3>2. PICK m \in networks : nwName[m] = x /\ joined[c][x][1] = m
      BY <3>1 DEF MembershipAgrees
    <3>3. m # Bridge
      BY <1>0, <3>2 DEF NamesDistinct
    <3>4. members[m][c] # 0
      BY <3>2, <3>3 DEF MembershipAgrees
    <3>5. m \in networks' /\ nwName'[m] = nwName[m]
      BY <1>0, <3>1, <3>2, <3>4
    <3> QED BY <3>1, <3>2, <3>5
  <2>3. ASSUME NEW m \in networks' \ {Bridge}, NEW c \in Boxes, members'[m][c] # 0 PROVE c \in boxes
    BY <1>0, <2>3 DEF MembershipAgrees
  <2> QED BY <2>1, <2>2, <2>3 DEF MembershipAgrees
<1> QED BY <1>2, <1>3, <1>4, <1>5

(* No handler spoils the networks' invariant.                               *)
LEMMA NetsInvStep == NetsInv /\ NetworksNext => NetsInv'
<1> SUFFICES ASSUME NetsInv, NetworksNext PROVE NetsInv'
  OBVIOUS
<1>0. /\ networks \subseteq Ids /\ boxes \subseteq Boxes /\ Bridge \in Names /\ NotIn \in Ids \X Nat
      /\ NetNames \subseteq Names /\ Bridge \notin NetNames /\ NetIds \subseteq Ids /\ Bridge \notin NetIds
  BY NetworksAssumption DEF NetsInv, NetsTyped, Names, Ids, NotIn
<1>1. ASSUME NEW n \in NetIds, handleNetworkCreate(n) PROVE NetsInv'
  <2>1. PICK name \in NetNames : /\ \A m \in networks : nwName[m] # name
                                 /\ nwName' = [nwName EXCEPT ![n] = name]
    BY <1>1 DEF handleNetworkCreate
  <2>2. n \notin networks /\ n \in Ids /\ n # Bridge
    BY <1>0, <1>1 DEF handleNetworkCreate, NetsInv, NetsTyped
  <2>3. NetsTyped'
    BY <1>0, <1>1, <2>1, <2>2, SubnetPicked DEF handleNetworkCreate, NetsInv, NetsTyped
  <2>4. NamesDistinct'
    BY <1>0, <1>1, <2>1, <2>2 DEF handleNetworkCreate, NetsInv, NetsTyped, NamesDistinct
  <2>5. GoneIsEmpty'
    BY <1>1 DEF handleNetworkCreate, NetsInv, GoneIsEmpty
  <2>6. SubnetsDistinct'
    BY <1>0, <1>1, <2>2, SubnetPicked, NetworksAssumption DEF handleNetworkCreate, NetsInv, NetsTyped, SubnetsDistinct
  <2>7. MembershipAgrees'
    <3>0. \A m \in networks : nwName'[m] = nwName[m]
      BY <1>0, <2>1, <2>2 DEF NetsInv, NetsTyped
    <3>1. \A c \in boxes : members[n][c] = 0 /\ joined[c][name][1] # n
      <4>1. ASSUME NEW c \in boxes PROVE members[n][c] = 0 /\ joined[c][name] = NotIn
        BY <1>0, <2>1, <2>2 DEF NetsInv, GoneIsEmpty, MembershipAgrees
      <4> QED BY <2>2, <4>1 DEF NotIn
    <3>2. nwName'[n] = name
      BY <1>0, <2>1, <2>2 DEF NetsInv, NetsTyped
    <3>3. networks' = networks \cup {n} /\ UNCHANGED <<boxes, members, joined>>
      BY <1>1 DEF handleNetworkCreate
    <3>4. \A b \in Boxes : members[n][b] = 0
      BY <2>2 DEF NetsInv, GoneIsEmpty
    <3> QED BY <1>0, <3>0, <3>1, <3>2, <3>3, <3>4 DEF NetsInv, MembershipAgrees
  <2> QED BY <2>3, <2>4, <2>5, <2>6, <2>7 DEF NetsInv
<1>2. ASSUME NEW n \in NetIds, handleNetworkRemove(n) PROVE NetsInv'
  <2>1. joined' = [b \in Boxes |-> [x \in Names |->
           IF b \in boxes /\ \E m \in {n} : nwName[m] = x /\ members[m][b] # 0 THEN NotIn ELSE joined[b][x]]]
    BY <1>0, <1>2 DEF handleNetworkRemove, NetsInv, NetsTyped
  <2> QED BY <1>2, <2>1, DropKeeps DEF handleNetworkRemove
<1>3. CASE handleNetworkPrune
  <2> DEFINE gone == {n \in networks \ {Bridge} : Empty(n)}
  <2>1. \A b \in Boxes, n \in gone : members[n][b] = 0
    BY DEF Empty
  <2>2. joined' = [b \in Boxes |-> [x \in Names |->
           IF b \in boxes /\ \E m \in gone : nwName[m] = x /\ members[m][b] # 0 THEN NotIn ELSE joined[b][x]]]
    BY <1>3, <2>1 DEF handleNetworkPrune, NetsInv, NetsTyped
  <2>3. DropNetwork(gone) /\ UNCHANGED <<boxes, used, linking>>
    BY <1>3 DEF handleNetworkPrune
  <2> HIDE DEF gone
  <2>4. gone \in SUBSET (networks \ {Bridge})
    BY DEF gone
  <2> QED BY <2>2, <2>3, <2>4, DropKeeps
<1>4. ASSUME NEW b \in Boxes, assignContainerNetwork(b) PROVE NetsInv'
  BY <1>4, JoinsKeep DEF assignContainerNetwork
<1>5. ASSUME NEW b \in Boxes, NEW n \in Ids, handleNetworkConnect(b, n) PROVE NetsInv'
  <2>1. boxes' = boxes \cup {b}
    BY <1>5 DEF handleNetworkConnect
  <2> QED BY <1>5, <2>1, JoinsKeep DEF handleNetworkConnect
<1>6. ASSUME NEW b \in Boxes, NEW n \in Ids, handleNetworkDisconnect(b, n) PROVE NetsInv'
  <2>1. b \in boxes /\ n \in networks /\ UNCHANGED <<boxes, used, networks, nwName, nwSubnet, nextIP, linking>>
    BY <1>6 DEF handleNetworkDisconnect
  <2>2. \A m \in Ids, c \in Boxes : members'[m][c] = IF m = n /\ c = b THEN 0 ELSE members[m][c]
    BY <1>6 DEF handleNetworkDisconnect, NetsInv, NetsTyped
  <2>3. \A c \in Boxes, x \in Names :
          joined'[c][x] = IF c = b /\ x = nwName[n] THEN NotIn ELSE joined[c][x]
    BY <1>0, <1>6, <2>1 DEF handleNetworkDisconnect, NetsInv, NetsTyped
  <2>4. NetsTyped'
    BY <1>0, <1>6, <2>1 DEF handleNetworkDisconnect, NetsInv, NetsTyped
  <2>5. NamesDistinct' /\ SubnetsDistinct'
    BY <2>1 DEF NetsInv, NamesDistinct, SubnetsDistinct
  <2>6. GoneIsEmpty'
    BY <2>1, <2>2, <2>3 DEF NetsInv, GoneIsEmpty
  <2>7. MembershipAgrees'
    <3>1. ASSUME NEW c \in boxes, NEW m \in networks \ {Bridge}
          PROVE  \/ members'[m][c] = 0 /\ joined'[c][nwName[m]][1] # m
                 \/ members'[m][c] # 0 /\ joined'[c][nwName[m]] = <<m, members'[m][c]>>
      <4>1. m \in Ids /\ c \in Boxes /\ nwName[m] \in Names
        BY <1>0 DEF NetsInv, NetsTyped
      <4>2. m # n => nwName[m] # nwName[n]
        BY <1>0, <2>1 DEF NetsInv, NamesDistinct
      <4>3. \/ members[m][c] = 0 /\ joined[c][nwName[m]][1] # m
            \/ members[m][c] # 0 /\ joined[c][nwName[m]] = <<m, members[m][c]>>
        BY DEF NetsInv, MembershipAgrees
      <4>4. CASE m = n /\ c = b
        <5>1. members'[m][c] = 0 /\ joined'[c][nwName[m]] = NotIn
          BY <2>2, <2>3, <4>1, <4>4
        <5> QED BY <5>1 DEF NotIn
      <4>5. CASE ~(m = n /\ c = b)
        <5>1. members'[m][c] = members[m][c] /\ joined'[c][nwName[m]] = joined[c][nwName[m]]
          BY <2>2, <2>3, <4>1, <4>2, <4>5
        <5> QED BY <4>3, <5>1
      <4> QED BY <4>4, <4>5
    <3>2. ASSUME NEW c \in boxes, NEW x \in NetNames, joined'[c][x] # NotIn
          PROVE  \E m \in networks : nwName[m] = x /\ joined'[c][x][1] = m
      BY <1>0, <2>3, <3>2 DEF NetsInv, MembershipAgrees
    <3>3. ASSUME NEW m \in networks \ {Bridge}, NEW c \in Boxes, members'[m][c] # 0 PROVE c \in boxes
      BY <1>0, <2>2, <3>3 DEF NetsInv, MembershipAgrees
    <3> QED BY <2>1, <3>1, <3>2, <3>3 DEF MembershipAgrees
  <2> QED BY <2>4, <2>5, <2>6, <2>7 DEF NetsInv
<1>7. ASSUME NEW b \in Boxes, StartLooks(b) PROVE NetsInv'
  BY <1>7 DEF StartLooks, NetsInv, NetsTyped, NamesDistinct, GoneIsEmpty, MembershipAgrees, SubnetsDistinct
<1>8. ASSUME NEW b \in Boxes, StartWritesBridge(b) PROVE NetsInv'
  <2>1. PICK ip \in 2..MaxIP :
          /\ members' = [members EXCEPT ![Bridge][b] = ip]
          /\ joined' = IF joined[b][Bridge] # NotIn THEN [joined EXCEPT ![b][Bridge] = <<Bridge, ip>>] ELSE joined
    BY <1>8 DEF StartWritesBridge
  <2>2. /\ UNCHANGED <<boxes, used, networks, nwName, nwSubnet, nextIP>> /\ linking' \subseteq Boxes /\ Bridge \in Ids
    BY <1>8 DEF StartWritesBridge, NetsInv, NetsTyped, Ids
  <2>3. ip \in Nat /\ <<Bridge, ip>> \in Ids \X Nat
    BY <2>2, NetworksAssumption
  <2>4. NetsTyped'
    BY <2>1, <2>2, <2>3 DEF NetsInv, NetsTyped
  <2>5. \A m \in Ids \ {Bridge} : members'[m] = members[m]
    BY <2>1 DEF NetsInv, NetsTyped
  <2>6. \A c \in Boxes, x \in NetNames : joined'[c][x] = joined[c][x]
    BY <1>0, <2>1 DEF NetsInv, NetsTyped
  <2>7. NamesDistinct' /\ SubnetsDistinct'
    BY <2>2 DEF NetsInv, NamesDistinct, SubnetsDistinct
  <2>8. GoneIsEmpty'
    <3>1. \A c \in Boxes \ boxes, x \in Names : joined'[c][x] = NotIn
      BY <1>0, <2>1 DEF NetsInv, NetsTyped, GoneIsEmpty
    <3>2. \A m \in Ids \ networks, c \in Boxes : members'[m][c] = 0
      BY <2>5 DEF NetsInv, NetsTyped, GoneIsEmpty
    <3> QED BY <2>2, <3>1, <3>2 DEF GoneIsEmpty
  <2>9. MembershipAgrees'
    <3>1. \A m \in networks \ {Bridge} : m \in Ids /\ members'[m] = members[m] /\ nwName[m] \in NetNames
      BY <1>0, <2>5 DEF NetsInv, NamesDistinct
    <3>2. \A c \in boxes, m \in networks \ {Bridge} :
            members'[m][c] = members[m][c] /\ joined'[c][nwName[m]] = joined[c][nwName[m]]
      BY <1>0, <2>6, <3>1
    <3>3. \A m \in networks \ {Bridge}, c \in Boxes : members'[m][c] # 0 => c \in boxes
      BY <3>1 DEF NetsInv, MembershipAgrees
    <3>4. \A c \in boxes, x \in NetNames : joined'[c][x] # NotIn =>
            \E m \in networks : nwName[m] = x /\ joined'[c][x][1] = m
      BY <1>0, <2>6 DEF NetsInv, MembershipAgrees
    <3>5. ASSUME NEW c \in boxes, NEW m \in networks \ {Bridge}
          PROVE  \/ members'[m][c] = 0 /\ joined'[c][nwName[m]][1] # m
                 \/ members'[m][c] # 0 /\ joined'[c][nwName[m]] = <<m, members'[m][c]>>
      <4>1. \/ members[m][c] = 0 /\ joined[c][nwName[m]][1] # m
            \/ members[m][c] # 0 /\ joined[c][nwName[m]] = <<m, members[m][c]>>
        BY DEF NetsInv, MembershipAgrees
      <4>2. members'[m][c] = members[m][c] /\ joined'[c][nwName[m]] = joined[c][nwName[m]]
        BY <3>2
      <4> QED BY <4>1, <4>2
    <3> QED BY <2>2, <3>3, <3>4, <3>5 DEF MembershipAgrees
  <2> QED BY <2>4, <2>7, <2>8, <2>9 DEF NetsInv
<1>9. ASSUME NEW b \in Boxes, removeContainerFromNetworks(b) PROVE NetsInv'
  <2>1. b \in boxes /\ boxes' = boxes \ {b} /\ UNCHANGED <<used, networks, nwName, nwSubnet, nextIP, linking>>
    BY <1>9 DEF removeContainerFromNetworks
  <2>2. \A m \in Ids, c \in Boxes : members'[m][c] = IF m \in networks /\ c = b THEN 0 ELSE members[m][c]
    BY <1>9 DEF removeContainerFromNetworks, NetsInv, NetsTyped
  <2>3. \A c \in Boxes, x \in Names : joined'[c][x] = IF c = b THEN NotIn ELSE joined[c][x]
    BY <1>9 DEF removeContainerFromNetworks, NetsInv, NetsTyped
  <2>4. NetsTyped'
    <3>1. members' \in [Ids -> [Boxes -> Nat]]
      BY <1>9 DEF removeContainerFromNetworks, NetsInv, NetsTyped
    <3>2. joined' \in [Boxes -> [Names -> Ids \X Nat]]
      BY <1>0, <1>9 DEF removeContainerFromNetworks, NetsInv, NetsTyped
    <3> QED BY <2>1, <3>1, <3>2 DEF NetsInv, NetsTyped
  <2>5. NamesDistinct' /\ SubnetsDistinct'
    BY <2>1 DEF NetsInv, NamesDistinct, SubnetsDistinct
  <2>6. GoneIsEmpty'
    BY <2>1, <2>2, <2>3 DEF NetsInv, GoneIsEmpty
  <2>7. MembershipAgrees'
    <3>1. \A c \in boxes \ {b} : c \in Boxes /\ (\A m \in Ids : members'[m][c] = members[m][c])
                                  /\ (\A x \in Names : joined'[c][x] = joined[c][x])
      BY <1>0, <2>2, <2>3
    <3>2. \A m \in networks \ {Bridge} : m \in Ids /\ nwName[m] \in Names /\ members'[m][b] = 0
      BY <1>0, <2>2 DEF NetsInv, NamesDistinct
    <3>3. \A m \in networks \ {Bridge}, c \in Boxes : members'[m][c] # 0 => c \in boxes \ {b}
      BY <1>0, <2>2 DEF NetsInv, MembershipAgrees
    <3>4. ASSUME NEW c \in boxes \ {b}, NEW m \in networks \ {Bridge}
          PROVE  \/ members'[m][c] = 0 /\ joined'[c][nwName[m]][1] # m
                 \/ members'[m][c] # 0 /\ joined'[c][nwName[m]] = <<m, members'[m][c]>>
      <4>1. \/ members[m][c] = 0 /\ joined[c][nwName[m]][1] # m
            \/ members[m][c] # 0 /\ joined[c][nwName[m]] = <<m, members[m][c]>>
        BY DEF NetsInv, MembershipAgrees
      <4>2. members'[m][c] = members[m][c] /\ joined'[c][nwName[m]] = joined[c][nwName[m]]
        BY <3>1, <3>2
      <4> QED BY <4>1, <4>2
    <3>5. \A c \in boxes \ {b}, x \in NetNames : joined'[c][x] # NotIn =>
            \E m \in networks : nwName[m] = x /\ joined'[c][x][1] = m
      BY <1>0, <3>1 DEF NetsInv, MembershipAgrees
    <3> QED BY <2>1, <3>3, <3>4, <3>5 DEF MembershipAgrees
  <2> QED BY <2>4, <2>5, <2>6, <2>7 DEF NetsInv
<1> QED BY <1>1, <1>2, <1>3, <1>4, <1>5, <1>6, <1>7, <1>8, <1>9 DEF NetworksNext
-----------------------------------------------------------------------------
(* Firewall.  The sequence of a set holds each of its elements once.        *)
LEMMA SeqOfSet ==
  ASSUME NEW S, IsFiniteSet(S)
  PROVE  /\ Cardinality(S) \in Nat /\ SetToSeq(S) \in [1..Cardinality(S) -> S]
         /\ \A i, j \in 1..Cardinality(S) : SetToSeq(S)[i] = SetToSeq(S)[j] => i = j
         /\ \A x \in S : \E i \in 1..Cardinality(S) : SetToSeq(S)[i] = x
<1> DEFINE n == Cardinality(S)
           f == SetToSeq(S)
           T == {f[i] : i \in 1..n}
<1>1. n \in Nat /\ ExistsBijection(1..n, S)
  BY FS_CardinalityType
<1>2. f \in [1..n -> S] /\ IsInjective(f)
  <2>1. \E g \in [1..n -> S] : IsInjective(g)
    BY <1>1 DEF ExistsBijection, Bijection, Injection
  <2> QED BY <2>1 DEF SetToSeq
<1>3. T \subseteq S /\ f \in [1..n -> T] /\ \A t \in T : \E i \in 1..n : f[i] = t
  BY <1>2
<1>4. ExistsBijection(1..n, T)
  <2>1. f \in Bijection(1..n, T)
    BY <1>2, <1>3 DEF Bijection, Injection, Surjection
  <2> QED BY <2>1 DEF ExistsBijection
<1>5. Cardinality(T) = n
  BY <1>1, <1>4, FS_CountingElements
<1>6. ASSUME NEW x \in S, x \notin T PROVE FALSE
  <2>1. T \subseteq S \ {x}
    BY <1>3, <1>6
  <2>2. IsFiniteSet(S \ {x}) /\ Cardinality(S \ {x}) = n - 1
    BY FS_RemoveElement, FS_Subset
  <2>3. Cardinality(T) <= n - 1
    BY <2>1, <2>2, FS_Subset
  <2> HIDE DEF T, n
  <2> QED BY <1>1, <1>5, <2>3
<1>7. \A i, j \in 1..n : f[i] = f[j] => i = j
  BY <1>2 DEF IsInjective
<1> QED BY <1>1, <1>2, <1>6, <1>7

PortRuleSet(S, to) == {Rule(<<"port", q>>, to) : q \in S}
Lists(s, n, R) == /\ \A i \in 1..n : s[i] \in R
                  /\ \A r \in R : \E i \in 1..n : s[i] = r
                  /\ \A i, j \in 1..n : s[i] = s[j] => i = j

(* The rules for a set of ports: one for each.                              *)
LEMMA PortRulesAre ==
  ASSUME NEW S, IsFiniteSet(S), NEW to, NEW d, d = PortRules(S, to)
  PROVE  \E n \in Nat : DOMAIN d = 1..n /\ Len(d) = n /\ d \in Seq(PortRuleSet(S, to)) /\ Lists(d, n, PortRuleSet(S, to))
<1> DEFINE n == Cardinality(S)
           s == SetToSeq(S)
           R == PortRuleSet(S, to)
<1>1. /\ n \in Nat /\ s \in [1..n -> S]
      /\ \A i, j \in 1..n : s[i] = s[j] => i = j
      /\ \A x \in S : \E i \in 1..n : s[i] = x
  BY SeqOfSet
<1>2. d = [i \in DOMAIN s |-> Rule(<<"port", s[i]>>, to)]
  BY DEF PortRules
<1>3. \A q \in S : Rule(<<"port", q>>, to) \in R
  BY DEF PortRuleSet
<1>4. \A r \in R : \E q \in S : r = Rule(<<"port", q>>, to)
  BY DEF PortRuleSet
<1>5. \A q, r : Rule(<<"port", q>>, to) = Rule(<<"port", r>>, to) => q = r
  BY DEF Rule
<1> HIDE DEF n, s, R
<1>6. DOMAIN d = 1..n /\ \A i \in 1..n : d[i] = Rule(<<"port", s[i]>>, to) /\ s[i] \in S
  BY <1>1, <1>2
<1>7. \A i \in 1..n : d[i] \in R
  BY <1>3, <1>6
<1>8. d \in Seq(R) /\ Len(d) = n
  <2>1. d = [i \in 1..n |-> d[i]]
    BY <1>1, <1>2, <1>6
  <2>2. d \in [1..n -> R]
    BY <1>7, <2>1
  <2> QED BY <1>1, <2>2
<1>9. ASSUME NEW r \in R PROVE \E i \in 1..n : d[i] = r
  <2>1. PICK q \in S : r = Rule(<<"port", q>>, to)
    BY <1>4
  <2>2. PICK i \in 1..n : s[i] = q
    BY <1>1
  <2> QED BY <1>6, <2>1, <2>2
<1>10. ASSUME NEW i \in 1..n, NEW j \in 1..n, d[i] = d[j] PROVE i = j
  <2>1. Rule(<<"port", s[i]>>, to) = Rule(<<"port", s[j]>>, to)
    BY <1>6, <1>10
  <2>2. s[i] = s[j]
    BY <1>5, <2>1
  <2> QED BY <1>1, <2>2
<1>11. Lists(d, n, R)
  BY <1>7, <1>9, <1>10 DEF Lists
<1> QED BY <1>1, <1>6, <1>8, <1>11 DEF R

(* What a match is, for each kind.                                          *)
LEMMA MatchesAre ==
  ASSUME NEW p
  PROVE  /\ Matches(<<"all">>, p) /\ Matches(<<"from">>, p)
         /\ ~Matches(<<"lo">>, p) /\ ~Matches(<<"established">>, p)
         /\ Matches(<<"to">>, p) <=> InSubnet(p)
         /\ Matches(<<"within">>, p) <=> InSubnet(p)
         /\ Matches(<<"denied">>, p) <=> InSubnet(p) \/ p.dst = "private"
         /\ \A q : Matches(<<"port", q>>, p) <=> p.dst = "gateway" /\ p.port = q
         /\ \A c : Matches(<<"own", c>>, p) => p.dst = "gateway"
         /\ \A a, b : Matches(<<"pair", a, b>>, p) <=> p.from = a /\ p.dst = b
<1>1. Matches(<<"all">>, p) /\ Matches(<<"from">>, p)
  BY DEF Matches
<1>2. ~Matches(<<"lo">>, p) /\ ~Matches(<<"established">>, p)
  BY DEF Matches
<1>3. Matches(<<"to">>, p) <=> InSubnet(p)
  BY DEF Matches
<1>4. Matches(<<"within">>, p) <=> InSubnet(p)
  BY DEF Matches
<1>5. Matches(<<"denied">>, p) <=> InSubnet(p) \/ p.dst = "private"
  BY DEF Matches
<1>6. ASSUME NEW q PROVE Matches(<<"port", q>>, p) <=> p.dst = "gateway" /\ p.port = q
  BY DEF Matches
<1>7. ASSUME NEW c PROVE Matches(<<"own", c>>, p) => p.dst = "gateway"
  BY DEF Matches
<1>8. ASSUME NEW a, NEW b PROVE Matches(<<"pair", a, b>>, p) <=> p.from = a /\ p.dst = b
  BY DEF Matches
<1> QED BY <1>1, <1>2, <1>3, <1>4, <1>5, <1>6, <1>7, <1>8

(* The verdict of a list is that of the first rule that gives one: v, if    *)
(* some rule gives v and those above it give v or none.                     *)
LEMMA FirstIs ==
  ASSUME NEW n \in Nat, NEW f, NEW k \in 1..n, NEW v, v # "none", f[k] = v,
         \A j \in 1..k : f[j] \in {"none", v}
  PROVE  {i \in 1..n : f[i] # "none"} # {} /\ f[Min({i \in 1..n : f[i] # "none"})] = v
<1> DEFINE hits == {i \in 1..n : f[i] # "none"}
<1>1. hits \subseteq Nat /\ k \in hits
  OBVIOUS
<1>2. hits \subseteq 1..n /\ \A i \in hits : f[i] # "none"
  OBVIOUS
<1> HIDE DEF hits
<1>3. Min(hits) \in hits /\ Min(hits) <= k
  BY <1>1, LeastOf
<1>4. Min(hits) \in 1..k
  <2> DEFINE m == Min(hits)
  <2>1. m \in 1..n /\ m <= k /\ k \in 1..n
    BY <1>2, <1>3
  <2> HIDE DEF m
  <2>2. m \in 1..k
    BY <2>1
  <2> QED BY <2>2 DEF m
<1>5. hits # {} /\ f[Min(hits)] = v
  BY <1>1, <1>2, <1>3, <1>4
<1> QED BY <1>5 DEF hits

(* What a rule of each level says of a packet.                              *)
SaysLeaf(r, p) == IF Matches(r.m, p) THEN r.to ELSE "none"
SaysMid(r, p) == IF ~Matches(r.m, p) THEN "none" ELSE IF r.to \in Chains THEN Leaf(r.to, p) ELSE r.to
SaysTop(r, p) == IF ~Matches(r.m, p) THEN "none" ELSE IF r.to \in Chains THEN Mid(r.to, p) ELSE r.to

LEMMA LeafIs ==
  ASSUME NEW chain, NEW p, NEW n \in Nat, DOMAIN table[chain] = 1..n, NEW k \in 1..n, NEW v, v # "none",
         SaysLeaf(table[chain][k], p) = v, \A j \in 1..k : SaysLeaf(table[chain][j], p) \in {"none", v}
  PROVE  Leaf(chain, p) = v
<1> DEFINE f == [i \in 1..n |-> SaysLeaf(table[chain][i], p)]
           hits == {i \in 1..n : f[i] # "none"}
<1>1. f[k] = v /\ \A j \in 1..k : f[j] \in {"none", v}
  OBVIOUS
<1>2. hits # {} /\ f[Min(hits)] = v
  <2> HIDE DEF f
  <2> QED BY <1>1, FirstIs
<1>3. hits = {i \in DOMAIN table[chain] : SaysLeaf(table[chain][i], p) # "none"}
  OBVIOUS
<1>4. Min(hits) \in 1..n
  <2>1. hits \subseteq 1..n /\ hits \subseteq Nat
    OBVIOUS
  <2> HIDE DEF hits
  <2> QED BY <1>2, <2>1, LeastOf
<1>5. f[Min(hits)] = SaysLeaf(table[chain][Min(hits)], p)
  <2> HIDE DEF hits
  <2> QED BY <1>4
<1>6. Leaf(chain, p) = IF hits = {} THEN "none" ELSE SaysLeaf(table[chain][Min(hits)], p)
  <2>1. Leaf(chain, p) = LET hh == {i \in DOMAIN table[chain] : SaysLeaf(table[chain][i], p) # "none"}
                         IN IF hh = {} THEN "none" ELSE SaysLeaf(table[chain][Min(hh)], p)
    BY DEF Leaf, FirstDecided, SaysLeaf
  <2> HIDE DEF hits
  <2> QED BY <1>3, <2>1
<1> HIDE DEF hits, f
<1> QED BY <1>2, <1>5, <1>6

LEMMA LeafNone ==
  ASSUME NEW chain, NEW p, \A j \in DOMAIN table[chain] : SaysLeaf(table[chain][j], p) = "none"
  PROVE  Leaf(chain, p) = "none"
<1>1. Leaf(chain, p) = LET hh == {i \in DOMAIN table[chain] : SaysLeaf(table[chain][i], p) # "none"}
                       IN IF hh = {} THEN "none" ELSE SaysLeaf(table[chain][Min(hh)], p)
  BY DEF Leaf, FirstDecided, SaysLeaf
<1>2. {i \in DOMAIN table[chain] : SaysLeaf(table[chain][i], p) # "none"} = {}
  OBVIOUS
<1> QED BY <1>1, <1>2

LEMMA MidIs ==
  ASSUME NEW chain, NEW p, NEW n \in Nat, DOMAIN table[chain] = 1..n, NEW k \in 1..n, NEW v, v # "none",
         SaysMid(table[chain][k], p) = v, \A j \in 1..k : SaysMid(table[chain][j], p) \in {"none", v}
  PROVE  Mid(chain, p) = v
<1> DEFINE f == [i \in 1..n |-> SaysMid(table[chain][i], p)]
           hits == {i \in 1..n : f[i] # "none"}
<1>1. f[k] = v /\ \A j \in 1..k : f[j] \in {"none", v}
  OBVIOUS
<1>2. hits # {} /\ f[Min(hits)] = v
  <2> HIDE DEF f
  <2> QED BY <1>1, FirstIs
<1>3. hits = {i \in DOMAIN table[chain] : SaysMid(table[chain][i], p) # "none"}
  OBVIOUS
<1>4. Min(hits) \in 1..n
  <2>1. hits \subseteq 1..n /\ hits \subseteq Nat
    OBVIOUS
  <2> HIDE DEF hits
  <2> QED BY <1>2, <2>1, LeastOf
<1>5. f[Min(hits)] = SaysMid(table[chain][Min(hits)], p)
  <2> HIDE DEF hits
  <2> QED BY <1>4
<1>6. Mid(chain, p) = IF hits = {} THEN "none" ELSE SaysMid(table[chain][Min(hits)], p)
  <2>1. Mid(chain, p) = LET hh == {i \in DOMAIN table[chain] : SaysMid(table[chain][i], p) # "none"}
                         IN IF hh = {} THEN "none" ELSE SaysMid(table[chain][Min(hh)], p)
    BY DEF Mid, Through, FirstDecided, SaysMid
  <2> HIDE DEF hits
  <2> QED BY <1>3, <2>1
<1> HIDE DEF hits, f
<1> QED BY <1>2, <1>5, <1>6

LEMMA FateIs ==
  ASSUME NEW chain, NEW p, NEW n \in Nat, DOMAIN table[chain] = 1..n, NEW k \in 1..n, NEW v, v # "none",
         SaysTop(table[chain][k], p) = v, \A j \in 1..k : SaysTop(table[chain][j], p) \in {"none", v}
  PROVE  Fate(chain, p) = v
<1> DEFINE f == [i \in 1..n |-> SaysTop(table[chain][i], p)]
           hits == {i \in 1..n : f[i] # "none"}
<1>1. f[k] = v /\ \A j \in 1..k : f[j] \in {"none", v}
  OBVIOUS
<1>2. hits # {} /\ f[Min(hits)] = v
  <2> HIDE DEF f
  <2> QED BY <1>1, FirstIs
<1>3. hits = {i \in DOMAIN table[chain] : SaysTop(table[chain][i], p) # "none"}
  OBVIOUS
<1>4. Min(hits) \in 1..n
  <2>1. hits \subseteq 1..n /\ hits \subseteq Nat
    OBVIOUS
  <2> HIDE DEF hits
  <2> QED BY <1>2, <2>1, LeastOf
<1>5. f[Min(hits)] = SaysTop(table[chain][Min(hits)], p)
  <2> HIDE DEF hits
  <2> QED BY <1>4
<1>6. Fate(chain, p) = IF hits = {} THEN "none" ELSE SaysTop(table[chain][Min(hits)], p)
  <2>1. Fate(chain, p) = LET hh == {i \in DOMAIN table[chain] : SaysTop(table[chain][i], p) # "none"}
                         IN IF hh = {} THEN "none" ELSE SaysTop(table[chain][Min(hh)], p)
    BY DEF Fate, Through, FirstDecided, SaysTop
  <2> HIDE DEF hits
  <2> QED BY <1>3, <2>1
<1> HIDE DEF hits, f
<1> QED BY <1>2, <1>5, <1>6

(* The chains at each stage of a start: ours as the block that writes them  *)
(* left them, INPUT and FORWARD with their jumps in order, whatever an      *)
(* earlier daemon left.                                                     *)
ControlDrops == PortRules(ControlPorts, "DROP")
FullInputList == ControlDrops \o <<ToInputChain, ToDind>>
DropRules == PortRuleSet(ControlPorts, "DROP")
OwnRules == {Rule(<<"own", c>>, "ACCEPT") : c \in Guests} \cup {Rule(<<"port", DindPort(c)>>, "DROP") : c \in Guests}
PairRule(a, b) == Rule(<<"pair", a, b>>, "ACCEPT")
PairRules == {PairRule(t[1], t[2]) : t \in Guests \X Guests}
FromJump == Jump(<<"from">>, "EPHEMERD-FORWARD")
ToJump == Jump(<<"to">>, "EPHEMERD-FORWARD")

FwTyped == /\ fwStep \in 0..9 /\ DOMAIN table = Chains
           /\ inTable \subseteq GatewayPorts /\ opened \subseteq Guests

InputOrdered ==
  \/ fwStep \in 0..4 /\ table["INPUT"] = <<>>
  \/ fwStep \in 0..7 /\ table["INPUT"] = <<ToDind>>
  \/ fwStep \in 0..8 /\ table["INPUT"] = <<ToInputChain, ToDind>>
  \/ table["INPUT"] = FullInputList

ForwardOrdered ==
  \/ fwStep \in 0..2 /\ table["FORWARD"] = <<>>
  \/ fwStep \in 0..3 /\ table["FORWARD"] = <<FromJump>>
  \/ table["FORWARD"] = <<ToJump, FromJump>>

OwnForward ==
  /\ fwStep \in 2..4 => table["EPHEMERD-FORWARD"] = <<>>
  /\ fwStep \in 5..6 => table["EPHEMERD-FORWARD"] = <<ToDind>>
  /\ fwStep \in 7..9 => table["EPHEMERD-FORWARD"] = <<ToDind>> \o forwardRules(inTable)

OwnInput == fwStep \in 8..9 => table["EPHEMERD-INPUT"] = containerInputRules(inTable)

PairsThenDrop(s) == /\ s \in Seq(PairRules \cup {CrossJobDrop}) /\ Len(s) > 0 /\ s[Len(s)] = CrossJobDrop
                    /\ \A i \in 1..(Len(s) - 1) : s[i] \in PairRules

PerJob == fwStep \in 6..9 => table["EPHEMERD-DIND"] \in Seq(OwnRules) /\ PairsThenDrop(table["EPHEMERD-C2C"])

FwInv == FwTyped /\ InputOrdered /\ ForwardOrdered /\ OwnForward /\ OwnInput /\ PerJob

LEMMA FwStarts == FwInit => FwInv
<1> SUFFICES ASSUME FwInit PROVE FwInv
  OBVIOUS
<1>1. fwStep = 0 /\ table = [c \in Chains |-> <<>>] /\ inTable = {} /\ opened = {}
  BY DEF FwInit
<1>2. table["INPUT"] = <<>> /\ table["FORWARD"] = <<>>
  BY <1>1 DEF Chains
<1> QED BY <1>1, <1>2 DEF FwInv, FwTyped, InputOrdered, ForwardOrdered, OwnForward, OwnInput, PerJob

LEMMA JumpsDiffer ==
  /\ ToDind # ToInputChain /\ FromJump # ToJump
  /\ \A q : Rule(<<"port", q>>, "DROP") \notin {ToDind, ToInputChain}
<1>1. <<"all">> # <<"from">> /\ <<"from">> # <<"to">>
  OBVIOUS
<1>2. \A q : <<"port", q>> # <<"all">> /\ <<"port", q>> # <<"from">>
  OBVIOUS
<1> QED BY <1>1, <1>2 DEF ToDind, ToInputChain, FromJump, ToJump, Jump, Rule

LEMMA ListsCopied ==
  ASSUME NEW n \in Nat, NEW d, NEW s, NEW R, Lists(d, n, R), \A i \in 1..n : s[i] = d[i]
  PROVE  Lists(s, n, R)
<1>1. \A i \in 1..n : s[i] \in R
  BY DEF Lists
<1>2. ASSUME NEW r \in R PROVE \E i \in 1..n : s[i] = r
  <2>1. PICK i \in 1..n : d[i] = r
    BY DEF Lists
  <2> QED BY <2>1
<1>3. \A i, j \in 1..n : s[i] = s[j] => i = j
  BY DEF Lists
<1> QED BY <1>1, <1>2, <1>3 DEF Lists

(* INPUT once the control-port drops are in: its rules by position.         *)
LEMMA FullInput ==
  \E n \in Nat : /\ DOMAIN FullInputList = 1..(n + 2) /\ Lists(FullInputList, n, DropRules)
                /\ FullInputList[n + 1] = ToInputChain /\ FullInputList[n + 2] = ToDind
<1> DEFINE d == ControlDrops
           R == DropRules
           V == R \cup {ToInputChain, ToDind}
           s == FullInputList
<1>1. s = d \o <<ToInputChain, ToDind>>
  BY DEF FullInputList
<1>2. \E n \in Nat : Len(d) = n /\ d \in Seq(R) /\ Lists(d, n, R)
  <2>1. IsFiniteSet(ControlPorts)
    BY FirewallAssumption DEF FirewallAssumption
  <2> DEFINE f == PortRules(ControlPorts, "DROP")
             P == PortRuleSet(ControlPorts, "DROP")
  <2>2. \E n \in Nat : DOMAIN f = 1..n /\ Len(f) = n /\ f \in Seq(P) /\ Lists(f, n, P)
    BY <2>1, PortRulesAre
  <2>3. d = f /\ R = P
    BY DEF ControlDrops, DropRules
  <2> HIDE DEF f, P, d, R
  <2> QED BY <2>2, <2>3
<1> HIDE DEF d, R
<1>3. PICK n \in Nat : Len(d) = n /\ d \in Seq(R) /\ Lists(d, n, R)
  BY <1>2
<1>4. d \in Seq(V) /\ ToInputChain \in V /\ ToDind \in V
  BY <1>3
<1> HIDE DEF V, s
<1>5. /\ DOMAIN s = 1..(n + 2)
      /\ \A i \in 1..n : s[i] = d[i]
      /\ s[n + 1] = ToInputChain /\ s[n + 2] = ToDind
  <2> DEFINE e == <<ToInputChain, ToDind>>
  <2>1. Len(e) = 2 /\ e[1] = ToInputChain /\ e[2] = ToDind /\ e \in Seq(V) /\ s = d \o e
    BY <1>1, <1>4
  <2> HIDE DEF e
  <2>2. /\ s \in Seq(V) /\ Len(s) = n + 2
        /\ \A i \in 1..(n + 2) : s[i] = IF i <= n THEN d[i] ELSE e[i - n]
    <3>1. d \in Seq(V) /\ e \in Seq(V) /\ s = d \o e /\ Len(d) = n /\ Len(e) = 2
      BY <1>3, <1>4, <2>1
    <3>2. /\ d \o e \in Seq(V) /\ Len(d \o e) = Len(d) + Len(e)
          /\ \A i \in 1 .. Len(d) + Len(e) : (d \o e)[i] = IF i <= Len(d) THEN d[i] ELSE e[i - Len(d)]
      BY <3>1, ConcatProperties
    <3> QED BY <3>1, <3>2
  <2>3. DOMAIN s = 1..(n + 2)
    BY <2>2
  <2>4. \A i \in 1..n : s[i] = d[i]
    BY <2>2
  <2>5. s[n + 1] = e[1] /\ s[n + 2] = e[2]
    BY <2>2
  <2> QED BY <2>1, <2>3, <2>4, <2>5
<1>6. Lists(s, n, R)
  BY <1>3, <1>5, ListsCopied
<1> QED BY <1>5, <1>6 DEF R, s

LEMMA FullInputIsSeq == \E V : FullInputList \in Seq(V)
<1>1. IsFiniteSet(ControlPorts)
  BY FirewallAssumption DEF FirewallAssumption
<1> DEFINE d == PortRules(ControlPorts, "DROP")
           V == PortRuleSet(ControlPorts, "DROP") \cup {ToInputChain, ToDind}
<1>2. d \in Seq(PortRuleSet(ControlPorts, "DROP"))
  BY <1>1, PortRulesAre
<1>3. FullInputList = d \o <<ToInputChain, ToDind>>
  BY DEF FullInputList, ControlDrops
<1> HIDE DEF d
<1>4. d \in Seq(V) /\ <<ToInputChain, ToDind>> \in Seq(V)
  BY <1>2
<1> HIDE DEF V
<1>5. FullInputList \in Seq(V)
  BY <1>3, <1>4
<1> QED BY <1>5

(* What the check before an insert finds in INPUT.                          *)
LEMMA InputHas ==
  ASSUME NEW s
  PROVE  /\ s = <<>> => ~\E i \in DOMAIN s : s[i] = ToDind
         /\ s = <<ToDind>> => /\ \E i \in DOMAIN s : s[i] = ToDind
                              /\ ~\E i \in DOMAIN s : s[i] = ToInputChain
         /\ s = <<ToInputChain, ToDind>> =>
              /\ \E i \in DOMAIN s : s[i] = ToDind
              /\ \E i \in DOMAIN s : s[i] = ToInputChain
              /\ \A q : ~\E i \in DOMAIN s : s[i] = Rule(<<"port", q>>, "DROP")
         /\ s = FullInputList =>
              /\ \E i \in DOMAIN s : s[i] = ToDind
              /\ \E i \in DOMAIN s : s[i] = ToInputChain
              /\ \A q \in ControlPorts : \E i \in DOMAIN s : s[i] = Rule(<<"port", q>>, "DROP")
<1> USE JumpsDiffer
<1>1. s = <<>> => ~\E i \in DOMAIN s : s[i] = ToDind
  OBVIOUS
<1>2. ASSUME s = <<ToDind>>
      PROVE  /\ \E i \in DOMAIN s : s[i] = ToDind
             /\ ~\E i \in DOMAIN s : s[i] = ToInputChain
  <2>1. DOMAIN s = {1} /\ s[1] = ToDind
    BY <1>2
  <2> QED BY <2>1
<1>3. ASSUME s = <<ToInputChain, ToDind>>
      PROVE  /\ \E i \in DOMAIN s : s[i] = ToDind
             /\ \E i \in DOMAIN s : s[i] = ToInputChain
             /\ \A q : ~\E i \in DOMAIN s : s[i] = Rule(<<"port", q>>, "DROP")
  <2>1. DOMAIN s = {1, 2} /\ s[1] = ToInputChain /\ s[2] = ToDind
    BY <1>3
  <2> QED BY <2>1
<1>4. ASSUME s = FullInputList
      PROVE  /\ \E i \in DOMAIN s : s[i] = ToDind
             /\ \E i \in DOMAIN s : s[i] = ToInputChain
             /\ \A q \in ControlPorts : \E i \in DOMAIN s : s[i] = Rule(<<"port", q>>, "DROP")
  <2>1. PICK n \in Nat : /\ DOMAIN s = 1..(n + 2) /\ Lists(s, n, DropRules)
                         /\ s[n + 1] = ToInputChain /\ s[n + 2] = ToDind
    BY <1>4, FullInput
  <2>2. n + 1 \in DOMAIN s /\ n + 2 \in DOMAIN s /\ 1..n \subseteq DOMAIN s
    BY <2>1
  <2>3. \A q \in ControlPorts : Rule(<<"port", q>>, "DROP") \in DropRules
    BY DEF DropRules, PortRuleSet
  <2>4. ASSUME NEW q \in ControlPorts PROVE \E i \in DOMAIN s : s[i] = Rule(<<"port", q>>, "DROP")
    <3>1. PICK i \in 1..n : s[i] = Rule(<<"port", q>>, "DROP")
      BY <2>1, <2>3 DEF Lists
    <3> QED BY <2>2, <3>1
  <2> QED BY <2>1, <2>2, <2>4
<1> QED BY <1>1, <1>2, <1>3, <1>4

-----------------------------------------------------------------------------
(* A rule goes on top unless the chain has it; no other chain changes.      *)
LEMMA OnTopOnceIs ==
  ASSUME NEW t, NEW chain \in Chains, NEW r, DOMAIN t = Chains
  PROVE  /\ Has(t, chain, r) => OnTopOnce(t, chain, r) = t
         /\ DOMAIN OnTopOnce(t, chain, r) = Chains
         /\ ~Has(t, chain, r) => OnTopOnce(t, chain, r)[chain] = <<r>> \o t[chain]
         /\ \A c \in Chains : c # chain => OnTopOnce(t, chain, r)[c] = t[c]
<1>1. Has(t, chain, r) => OnTopOnce(t, chain, r) = t
  BY DEF OnTopOnce
<1>2. ~Has(t, chain, r) => OnTopOnce(t, chain, r) = [t EXCEPT ![chain] = <<r>> \o @]
  BY DEF OnTopOnce, OnTop
<1> QED BY <1>1, <1>2

LEMMA TwoRules == ASSUME NEW a, NEW b PROVE <<a>> \o <<b>> = <<a, b>>
<1> DEFINE V == {a, b}
           x == <<a>>
           y == <<b>>
           z == <<a, b>>
<1>1. x \in Seq(V) /\ y \in Seq(V) /\ Len(x) = 1 /\ Len(y) = 1 /\ x[1] = a /\ y[1] = b
  OBVIOUS
<1>2. z \in Seq(V) /\ Len(z) = 2 /\ z[1] = a /\ z[2] = b
  OBVIOUS
<1> HIDE DEF V, x, y, z
<1>3. /\ x \o y \in Seq(V) /\ Len(x \o y) = Len(x) + Len(y)
      /\ \A i \in 1 .. Len(x) + Len(y) : (x \o y)[i] = IF i <= Len(x) THEN x[i] ELSE y[i - Len(x)]
  BY <1>1, ConcatProperties
<1>4. Len(x \o y) = 2 /\ (x \o y)[1] = a /\ (x \o y)[2] = b
  BY <1>1, <1>3
<1>5. \A i \in 1..2 : (x \o y)[i] = z[i]
  BY <1>2, <1>4
<1>6. x \o y = z
  BY <1>2, <1>3, <1>4, <1>5, SeqEqual
<1> QED BY <1>6 DEF x, y, z

LEMMA OneRule == ASSUME NEW a PROVE <<a>> \o <<>> = <<a>>
<1>1. <<a>> \in Seq({a})
  OBVIOUS
<1> QED BY <1>1, ConcatEmptySeq

LEMMA NoPortRules == PortRules({}, "DROP") = <<>>
<1>1. IsFiniteSet({}) /\ Cardinality({}) = 0
  BY FS_EmptySet
<1>2. SetToSeq({}) \in [1..0 -> {}]
  BY <1>1, SeqOfSet
<1>3. DOMAIN SetToSeq({}) = {}
  BY <1>2
<1> QED BY <1>3 DEF PortRules

LEMMA ChainNames ==
  /\ "INPUT" \in Chains /\ "FORWARD" \in Chains /\ "EPHEMERD-FORWARD" \in Chains
  /\ "EPHEMERD-INPUT" \in Chains /\ "EPHEMERD-DIND" \in Chains /\ "EPHEMERD-C2C" \in Chains
  BY DEF Chains

(* What each block of installFirewallRules writes.                          *)
LEMMA BlockOne ==
  ASSUME FwInv, fwStep = 1, installFirewallRules PROVE FwInv'
<1>1. /\ table' = [table EXCEPT !["EPHEMERD-FORWARD"] = <<>>]
      /\ fwStep' = 2 /\ inTable' = inTable /\ opened' = opened
  BY DEF installFirewallRules, Installed
<1>2. /\ DOMAIN table' = Chains /\ table'["INPUT"] = table["INPUT"] /\ table'["FORWARD"] = table["FORWARD"]
      /\ table'["EPHEMERD-FORWARD"] = <<>>
  BY <1>1, ChainNames DEF FwInv, FwTyped
<1> QED BY <1>1, <1>2 DEF FwInv, FwTyped, InputOrdered, ForwardOrdered, OwnForward, OwnInput, PerJob

LEMMA BlockTwo ==
  ASSUME FwInv, fwStep = 2, installFirewallRules PROVE FwInv'
<1>1. /\ table' = OnTopOnce(table, "FORWARD", FromJump)
      /\ fwStep' = 3 /\ inTable' = inTable /\ opened' = opened
  BY DEF installFirewallRules, Installed, FromJump
<1>2. /\ DOMAIN table' = Chains /\ table'["INPUT"] = table["INPUT"]
      /\ table'["EPHEMERD-FORWARD"] = table["EPHEMERD-FORWARD"]
      /\ Has(table, "FORWARD", FromJump) => table'["FORWARD"] = table["FORWARD"]
      /\ ~Has(table, "FORWARD", FromJump) => table'["FORWARD"] = <<FromJump>> \o table["FORWARD"]
  BY <1>1, ChainNames, OnTopOnceIs DEF FwInv, FwTyped
<1>3. table["FORWARD"] \in {<<>>, <<FromJump>>, <<ToJump, FromJump>>}
  BY DEF FwInv, ForwardOrdered
<1>4. table'["FORWARD"] \in {<<FromJump>>, <<ToJump, FromJump>>}
  <2>1. CASE table["FORWARD"] = <<>>
    <3>1. ~Has(table, "FORWARD", FromJump)
      BY <2>1 DEF Has
    <3> QED BY <1>2, <2>1, <3>1, OneRule
  <2>2. CASE table["FORWARD"] = <<FromJump>>
    <3>1. Has(table, "FORWARD", FromJump)
      BY <2>2 DEF Has
    <3> QED BY <1>2, <2>2, <3>1
  <2>3. CASE table["FORWARD"] = <<ToJump, FromJump>>
    <3>1. Has(table, "FORWARD", FromJump)
      BY <2>3 DEF Has
    <3> QED BY <1>2, <2>3, <3>1
  <2> QED BY <1>3, <2>1, <2>2, <2>3
<1> QED BY <1>1, <1>2, <1>4 DEF FwInv, FwTyped, InputOrdered, ForwardOrdered, OwnForward, OwnInput, PerJob

LEMMA BlockThree ==
  ASSUME FwInv, fwStep = 3, installFirewallRules PROVE FwInv'
<1>1. /\ table' = OnTopOnce(table, "FORWARD", ToJump)
      /\ fwStep' = 4 /\ inTable' = inTable /\ opened' = opened
  BY DEF installFirewallRules, Installed, ToJump
<1>2. /\ DOMAIN table' = Chains /\ table'["INPUT"] = table["INPUT"]
      /\ table'["EPHEMERD-FORWARD"] = table["EPHEMERD-FORWARD"]
      /\ Has(table, "FORWARD", ToJump) => table'["FORWARD"] = table["FORWARD"]
      /\ ~Has(table, "FORWARD", ToJump) => table'["FORWARD"] = <<ToJump>> \o table["FORWARD"]
  BY <1>1, ChainNames, OnTopOnceIs DEF FwInv, FwTyped
<1>3. table["FORWARD"] \in {<<FromJump>>, <<ToJump, FromJump>>}
  BY DEF FwInv, ForwardOrdered
<1>4. table'["FORWARD"] = <<ToJump, FromJump>>
  <2>1. CASE table["FORWARD"] = <<FromJump>>
    <3>1. ~Has(table, "FORWARD", ToJump)
      BY <2>1, JumpsDiffer DEF Has
    <3> QED BY <1>2, <2>1, <3>1, TwoRules
  <2>2. CASE table["FORWARD"] = <<ToJump, FromJump>>
    <3>1. Has(table, "FORWARD", ToJump)
      BY <2>2 DEF Has
    <3> QED BY <1>2, <2>2, <3>1
  <2> QED BY <1>3, <2>1, <2>2
<1> QED BY <1>1, <1>2, <1>4 DEF FwInv, FwTyped, InputOrdered, ForwardOrdered, OwnForward, OwnInput, PerJob

(* The check of the dind chain's two jumps.                                 *)
LEMMA EnsureDind ==
  ASSUME DOMAIN table = Chains
  PROVE  LET t == ensureDindChain(table)
         IN /\ DOMAIN t = Chains
            /\ \A c \in Chains : c # "INPUT" /\ c # "EPHEMERD-FORWARD" => t[c] = table[c]
            /\ Has(table, "INPUT", ToDind) => t["INPUT"] = table["INPUT"]
            /\ ~Has(table, "INPUT", ToDind) => t["INPUT"] = <<ToDind>> \o table["INPUT"]
            /\ Has(table, "EPHEMERD-FORWARD", ToDind) => t["EPHEMERD-FORWARD"] = table["EPHEMERD-FORWARD"]
            /\ ~Has(table, "EPHEMERD-FORWARD", ToDind) => t["EPHEMERD-FORWARD"] = <<ToDind>> \o table["EPHEMERD-FORWARD"]
<1> DEFINE u == OnTopOnce(table, "INPUT", ToDind)
           t == OnTopOnce(u, "EPHEMERD-FORWARD", ToDind)
<1>1. /\ Has(table, "INPUT", ToDind) => u = table
      /\ DOMAIN u = Chains
      /\ ~Has(table, "INPUT", ToDind) => u["INPUT"] = <<ToDind>> \o table["INPUT"]
      /\ \A c \in Chains : c # "INPUT" => u[c] = table[c]
  BY ChainNames, OnTopOnceIs
<1> HIDE DEF u
<1>2. /\ Has(u, "EPHEMERD-FORWARD", ToDind) => t = u
      /\ DOMAIN t = Chains
      /\ ~Has(u, "EPHEMERD-FORWARD", ToDind) => t["EPHEMERD-FORWARD"] = <<ToDind>> \o u["EPHEMERD-FORWARD"]
      /\ \A c \in Chains : c # "EPHEMERD-FORWARD" => t[c] = u[c]
  BY <1>1, ChainNames, OnTopOnceIs
<1> HIDE DEF t
<1>3. u["EPHEMERD-FORWARD"] = table["EPHEMERD-FORWARD"]
  BY <1>1, ChainNames
<1>4. Has(u, "EPHEMERD-FORWARD", ToDind) <=> Has(table, "EPHEMERD-FORWARD", ToDind)
  BY <1>3 DEF Has
<1>5. t["INPUT"] = u["INPUT"]
  BY <1>2, ChainNames
<1>6. /\ DOMAIN t = Chains
      /\ \A c \in Chains : c # "INPUT" /\ c # "EPHEMERD-FORWARD" => t[c] = table[c]
      /\ Has(table, "INPUT", ToDind) => t["INPUT"] = table["INPUT"]
      /\ ~Has(table, "INPUT", ToDind) => t["INPUT"] = <<ToDind>> \o table["INPUT"]
      /\ Has(table, "EPHEMERD-FORWARD", ToDind) => t["EPHEMERD-FORWARD"] = table["EPHEMERD-FORWARD"]
      /\ ~Has(table, "EPHEMERD-FORWARD", ToDind) => t["EPHEMERD-FORWARD"] = <<ToDind>> \o table["EPHEMERD-FORWARD"]
  BY <1>1, <1>2, <1>3, <1>4, <1>5
<1> QED BY <1>6 DEF ensureDindChain, t, u

LEMMA BlockFour ==
  ASSUME FwInv, fwStep = 4, installFirewallRules PROVE FwInv'
<1>1. /\ table' = ensureDindChain(table)
      /\ fwStep' = 5 /\ inTable' = inTable /\ opened' = opened
  BY DEF installFirewallRules, Installed
<1>2. DOMAIN table = Chains /\ table["EPHEMERD-FORWARD"] = <<>> /\ table["FORWARD"] = <<ToJump, FromJump>>
  BY DEF FwInv, FwTyped, OwnForward, ForwardOrdered
<1>3. ~Has(table, "EPHEMERD-FORWARD", ToDind)
  BY <1>2 DEF Has
<1>4. /\ DOMAIN table' = Chains /\ table'["FORWARD"] = <<ToJump, FromJump>>
      /\ table'["EPHEMERD-FORWARD"] = <<ToDind>> \o <<>>
      /\ Has(table, "INPUT", ToDind) => table'["INPUT"] = table["INPUT"]
      /\ ~Has(table, "INPUT", ToDind) => table'["INPUT"] = <<ToDind>> \o table["INPUT"]
  BY <1>1, <1>2, <1>3, EnsureDind, ChainNames
<1>5. table["INPUT"] \in {<<>>, <<ToDind>>, <<ToInputChain, ToDind>>, FullInputList}
  BY DEF FwInv, InputOrdered
<1>6. table'["INPUT"] \in {<<ToDind>>, <<ToInputChain, ToDind>>, FullInputList}
  <2>1. CASE table["INPUT"] = <<>>
    <3>1. ~Has(table, "INPUT", ToDind)
      BY <2>1 DEF Has
    <3> QED BY <1>4, <2>1, <3>1, OneRule
  <2>2. CASE table["INPUT"] \in {<<ToDind>>, <<ToInputChain, ToDind>>, FullInputList}
    <3>1. Has(table, "INPUT", ToDind)
      BY <2>2, InputHas DEF Has
    <3> QED BY <1>4, <2>2, <3>1
  <2> QED BY <1>5, <2>1, <2>2
<1>7. table'["EPHEMERD-FORWARD"] = <<ToDind>>
  BY <1>4, OneRule
<1> QED BY <1>1, <1>4, <1>6, <1>7 DEF FwInv, FwTyped, InputOrdered, ForwardOrdered, OwnForward, OwnInput, PerJob

LEMMA BlockFive ==
  ASSUME FwInv, fwStep = 5, installFirewallRules PROVE FwInv'
<1>0. fwStep' = 6 /\ inTable' = inTable /\ opened' = opened
  BY DEF installFirewallRules
<1>1. /\ table' = [table EXCEPT !["EPHEMERD-DIND"] = <<>>, !["EPHEMERD-C2C"] = <<CrossJobDrop>>]
  BY DEF installFirewallRules, Installed
<1>2. /\ DOMAIN table' = Chains /\ table'["INPUT"] = table["INPUT"] /\ table'["FORWARD"] = table["FORWARD"]
      /\ table'["EPHEMERD-FORWARD"] = table["EPHEMERD-FORWARD"]
      /\ table'["EPHEMERD-DIND"] = <<>> /\ table'["EPHEMERD-C2C"] = <<CrossJobDrop>>
  BY <1>1, ChainNames DEF FwInv, FwTyped
<1>3. <<>> \in Seq(OwnRules) /\ PairsThenDrop(<<CrossJobDrop>>)
  BY DEF PairsThenDrop
<1>4. FwTyped'
  BY <1>0, <1>2 DEF FwInv, FwTyped
<1>5. InputOrdered' /\ ForwardOrdered'
  <2>1. table["INPUT"] \in {<<ToDind>>, <<ToInputChain, ToDind>>, FullInputList} /\ table["FORWARD"] = <<ToJump, FromJump>>
    BY DEF FwInv, InputOrdered, ForwardOrdered
  <2> QED BY <1>0, <1>2, <2>1 DEF InputOrdered, ForwardOrdered
<1>6. OwnForward' /\ OwnInput'
  <2>1. table["EPHEMERD-FORWARD"] = <<ToDind>>
    BY DEF FwInv, OwnForward
  <2> QED BY <1>0, <1>2, <2>1 DEF OwnForward, OwnInput
<1>7. PerJob'
  BY <1>2, <1>3 DEF PerJob
<1> QED BY <1>4, <1>5, <1>6, <1>7 DEF FwInv

LEMMA BlockSix ==
  ASSUME FwInv, fwStep = 6, installFirewallRules PROVE FwInv'
<1>1. /\ table' = [table EXCEPT !["EPHEMERD-FORWARD"] = @ \o forwardRules(inTable)]
      /\ fwStep' = 7 /\ inTable' = inTable /\ opened' = opened
  BY DEF installFirewallRules, Installed
<1>2. /\ DOMAIN table' = Chains /\ table'["INPUT"] = table["INPUT"] /\ table'["FORWARD"] = table["FORWARD"]
      /\ table'["EPHEMERD-FORWARD"] = table["EPHEMERD-FORWARD"] \o forwardRules(inTable)
      /\ table'["EPHEMERD-DIND"] = table["EPHEMERD-DIND"] /\ table'["EPHEMERD-C2C"] = table["EPHEMERD-C2C"]
  BY <1>1, ChainNames DEF FwInv, FwTyped
<1>3. table["EPHEMERD-FORWARD"] = <<ToDind>>
  BY DEF FwInv, OwnForward
<1>4. FwTyped' /\ InputOrdered' /\ ForwardOrdered' /\ OwnInput'
  BY <1>1, <1>2 DEF FwInv, FwTyped, InputOrdered, ForwardOrdered, OwnInput
<1>5. OwnForward'
  BY <1>1, <1>2, <1>3 DEF OwnForward
<1>6. PerJob'
  BY <1>1, <1>2 DEF FwInv, PerJob
<1> QED BY <1>4, <1>5, <1>6 DEF FwInv

LEMMA BlockSeven ==
  ASSUME FwInv, fwStep = 7, installFirewallRules PROVE FwInv'
<1> DEFINE t == [table EXCEPT !["EPHEMERD-INPUT"] = containerInputRules(inTable)]
<1>1. /\ table' = OnTopOnce(t, "INPUT", ToInputChain)
      /\ fwStep' = 8 /\ inTable' = inTable /\ opened' = opened
  BY DEF installFirewallRules, Installed, installContainerInputChain
<1>2. /\ DOMAIN t = Chains /\ t["EPHEMERD-INPUT"] = containerInputRules(inTable)
      /\ \A c \in Chains : c # "EPHEMERD-INPUT" => t[c] = table[c]
  BY ChainNames DEF FwInv, FwTyped
<1> HIDE DEF t
<1>3. /\ Has(t, "INPUT", ToInputChain) => table' = t
      /\ DOMAIN table' = Chains
      /\ ~Has(t, "INPUT", ToInputChain) => table'["INPUT"] = <<ToInputChain>> \o t["INPUT"]
      /\ \A c \in Chains : c # "INPUT" => table'[c] = t[c]
  BY <1>1, <1>2, ChainNames, OnTopOnceIs
<1>4. /\ table'["FORWARD"] = table["FORWARD"] /\ table'["EPHEMERD-FORWARD"] = table["EPHEMERD-FORWARD"]
      /\ table'["EPHEMERD-DIND"] = table["EPHEMERD-DIND"] /\ table'["EPHEMERD-C2C"] = table["EPHEMERD-C2C"]
      /\ table'["EPHEMERD-INPUT"] = containerInputRules(inTable) /\ t["INPUT"] = table["INPUT"]
  BY <1>2, <1>3, ChainNames
<1>5. table["INPUT"] \in {<<ToDind>>, <<ToInputChain, ToDind>>, FullInputList}
  BY DEF FwInv, InputOrdered
<1>6. table'["INPUT"] \in {<<ToInputChain, ToDind>>, FullInputList}
  <2>1. CASE table["INPUT"] = <<ToDind>>
    <3>1. ~Has(t, "INPUT", ToInputChain)
      BY <1>4, <2>1, InputHas DEF Has
    <3> QED BY <1>3, <1>4, <2>1, <3>1, TwoRules
  <2>2. CASE table["INPUT"] \in {<<ToInputChain, ToDind>>, FullInputList}
    <3>1. Has(t, "INPUT", ToInputChain)
      BY <1>4, <2>2, InputHas DEF Has
    <3> QED BY <1>3, <1>4, <2>2, <3>1
  <2> QED BY <1>5, <2>1, <2>2
<1>7. FwTyped' /\ ForwardOrdered' /\ OwnInput'
  BY <1>1, <1>3, <1>4 DEF FwInv, FwTyped, ForwardOrdered, OwnInput
<1>8. InputOrdered'
  BY <1>1, <1>6 DEF InputOrdered
<1>9. OwnForward' /\ PerJob'
  BY <1>1, <1>4 DEF FwInv, OwnForward, PerJob
<1> QED BY <1>7, <1>8, <1>9 DEF FwInv

LEMMA BlockEight ==
  ASSUME FwInv, fwStep = 8, installFirewallRules PROVE FwInv'
<1> DEFINE absent == {q \in ControlPorts : ~Has(table, "INPUT", Rule(<<"port", q>>, "DROP"))}
<1>1. /\ table' = [table EXCEPT !["INPUT"] = PortRules(absent, "DROP") \o @]
      /\ fwStep' = 9 /\ inTable' = inTable /\ opened' = opened
  BY DEF installFirewallRules, Installed, controlPlaneInputRules
<1>2. table["INPUT"] \in {<<ToInputChain, ToDind>>, FullInputList}
  BY DEF FwInv, InputOrdered
<1>3. table'["INPUT"] = FullInputList
  <2>1. CASE table["INPUT"] = <<ToInputChain, ToDind>>
    <3>1. absent = ControlPorts
      BY <2>1, InputHas DEF Has
    <3>2. table'["INPUT"] = PortRules(ControlPorts, "DROP") \o <<ToInputChain, ToDind>>
      <4> HIDE DEF absent
      <4> QED BY <1>1, <2>1, <3>1, ChainNames DEF FwInv, FwTyped
    <3> QED BY <3>2 DEF FullInputList, ControlDrops
  <2>2. CASE table["INPUT"] = FullInputList
    <3>1. absent = {}
      BY <2>2, InputHas DEF Has
    <3>2. table'["INPUT"] = PortRules({}, "DROP") \o FullInputList
      <4> HIDE DEF absent
      <4> QED BY <1>1, <2>2, <3>1, ChainNames DEF FwInv, FwTyped
    <3>3. <<>> \o FullInputList = FullInputList
      BY FullInputIsSeq, ConcatEmptySeq
    <3> QED BY <3>2, <3>3, NoPortRules
  <2> QED BY <1>2, <2>1, <2>2
<1> HIDE DEF absent
<1>4. /\ DOMAIN table' = Chains
      /\ \A c \in Chains : c # "INPUT" => table'[c] = table[c]
  BY <1>1, ChainNames DEF FwInv, FwTyped
<1>5. /\ table'["FORWARD"] = table["FORWARD"] /\ table'["EPHEMERD-FORWARD"] = table["EPHEMERD-FORWARD"]
      /\ table'["EPHEMERD-DIND"] = table["EPHEMERD-DIND"] /\ table'["EPHEMERD-C2C"] = table["EPHEMERD-C2C"]
      /\ table'["EPHEMERD-INPUT"] = table["EPHEMERD-INPUT"]
  BY <1>4, ChainNames
<1>6. FwTyped' /\ InputOrdered'
  BY <1>1, <1>3, <1>4 DEF FwInv, FwTyped, InputOrdered
<1>7. ForwardOrdered' /\ OwnInput'
  BY <1>1, <1>5 DEF FwInv, ForwardOrdered, OwnInput
<1>8. OwnForward' /\ PerJob'
  BY <1>1, <1>5 DEF FwInv, OwnForward, PerJob
<1> QED BY <1>6, <1>7, <1>8 DEF FwInv

-----------------------------------------------------------------------------
LEMMA RulesServing ==
  ASSUME FwInv, fwStep = 9
  PROVE  /\ DOMAIN table = Chains
         /\ table["INPUT"] = FullInputList /\ table["FORWARD"] = <<ToJump, FromJump>>
         /\ table["EPHEMERD-FORWARD"] = <<ToDind>> \o forwardRules(inTable)
         /\ table["EPHEMERD-INPUT"] = containerInputRules(inTable)
         /\ table["EPHEMERD-DIND"] \in Seq(OwnRules) /\ PairsThenDrop(table["EPHEMERD-C2C"])
<1>1. table["INPUT"] = FullInputList
  BY DEF FwInv, InputOrdered
<1>2. table["FORWARD"] = <<ToJump, FromJump>>
  BY DEF FwInv, ForwardOrdered
<1>3. table["EPHEMERD-FORWARD"] = <<ToDind>> \o forwardRules(inTable)
  BY DEF FwInv, OwnForward
<1>4. table["EPHEMERD-INPUT"] = containerInputRules(inTable)
  BY DEF FwInv, OwnInput
<1>5. table["EPHEMERD-DIND"] \in Seq(OwnRules) /\ PairsThenDrop(table["EPHEMERD-C2C"])
  BY DEF FwInv, PerJob
<1>6. DOMAIN table = Chains
  BY DEF FwInv, FwTyped
<1> QED BY <1>1, <1>2, <1>3, <1>4, <1>5, <1>6

(* While jobs run only the two per-job chains are written.                  *)
LEMMA JobChainsOnly ==
  ASSUME FwInv, fwStep = 9, fwStep' = 9, inTable' = inTable, opened' \subseteq Guests, DOMAIN table' = Chains,
         \A c \in Chains : c # "EPHEMERD-DIND" /\ c # "EPHEMERD-C2C" => table'[c] = table[c],
         table'["EPHEMERD-DIND"] \in Seq(OwnRules), PairsThenDrop(table'["EPHEMERD-C2C"])
  PROVE  FwInv'
<1>1. /\ table'["INPUT"] = FullInputList /\ table'["FORWARD"] = <<ToJump, FromJump>>
      /\ table'["EPHEMERD-FORWARD"] = <<ToDind>> \o forwardRules(inTable)
      /\ table'["EPHEMERD-INPUT"] = containerInputRules(inTable)
  BY RulesServing, ChainNames
<1>2. FwTyped'
  BY DEF FwInv, FwTyped
<1>3. InputOrdered' /\ ForwardOrdered'
  BY <1>1 DEF InputOrdered, ForwardOrdered
<1>4. OwnForward' /\ OwnInput'
  BY <1>1 DEF OwnForward, OwnInput
<1>5. PerJob'
  BY DEF PerJob
<1> QED BY <1>2, <1>3, <1>4, <1>5 DEF FwInv

LEMMA PastFirst ==
  ASSUME NEW S, NEW a, NEW s \in Seq(S)
  PROVE  /\ DOMAIN (<<a>> \o s) = 1..(Len(s) + 1) /\ (<<a>> \o s)[1] = a
         /\ \A i \in 1..Len(s) : (<<a>> \o s)[i + 1] = s[i]
<1> DEFINE V == S \cup {a}
           x == <<a>>
<1>1. x \in Seq(V) /\ Len(x) = 1 /\ x[1] = a /\ s \in Seq(V)
  OBVIOUS
<1> HIDE DEF V, x
<1>2. Len(s) \in Nat
  BY <1>1
<1>3. /\ x \o s \in Seq(V) /\ Len(x \o s) = Len(x) + Len(s)
      /\ \A i \in 1 .. Len(x) + Len(s) : (x \o s)[i] = IF i <= Len(x) THEN x[i] ELSE s[i - Len(x)]
  BY <1>1, ConcatProperties
<1>4. DOMAIN (x \o s) = 1..(Len(s) + 1)
  BY <1>1, <1>2, <1>3
<1>5. (x \o s)[1] = a
  BY <1>1, <1>2, <1>3
<1>6. \A i \in 1..Len(s) : (x \o s)[i + 1] = s[i]
  BY <1>1, <1>2, <1>3
<1> QED BY <1>4, <1>5, <1>6 DEF x

(* A list is made of three others, by position.                             *)
PartsOf(s, a, b, c) ==
  /\ Len(s) = Len(a) + Len(b) + Len(c)
  /\ \A i \in 1..Len(a) : s[i] = a[i]
  /\ \A i \in 1..Len(b) : s[Len(a) + i] = b[i]
  /\ \A i \in 1..Len(c) : s[Len(a) + Len(b) + i] = c[i]

LEMMA ThreeParts ==
  ASSUME NEW V, NEW a \in Seq(V), NEW b \in Seq(V), NEW c \in Seq(V)
  PROVE  a \o b \o c \in Seq(V) /\ PartsOf(a \o b \o c, a, b, c)
<1> DEFINE t == a \o b
           s == t \o c
<1>1. Len(a) \in Nat /\ Len(b) \in Nat /\ Len(c) \in Nat
  OBVIOUS
<1>2. /\ t \in Seq(V) /\ Len(t) = Len(a) + Len(b)
      /\ \A i \in 1 .. Len(a) + Len(b) : t[i] = IF i <= Len(a) THEN a[i] ELSE b[i - Len(a)]
  BY ConcatProperties
<1> HIDE DEF t
<1>4. /\ s \in Seq(V) /\ Len(s) = Len(t) + Len(c)
      /\ \A i \in 1 .. Len(t) + Len(c) : s[i] = IF i <= Len(t) THEN t[i] ELSE c[i - Len(t)]
  <2>1. t \in Seq(V)
    BY <1>2
  <2> QED BY <2>1, ConcatProperties
<1>3. Len(t) = Len(a) + Len(b) /\ Len(t) \in Nat
  BY <1>1, <1>2
<1> HIDE DEF s
<1>5. Len(s) = Len(a) + Len(b) + Len(c)
  BY <1>1, <1>2, <1>4
<1>6. \A i \in 1..Len(a) : s[i] = a[i]
  BY <1>1, <1>2, <1>4
<1>7. \A i \in 1..Len(b) : s[Len(a) + i] = b[i]
  BY <1>1, <1>2, <1>4
<1>8. ASSUME NEW i \in 1..Len(c) PROVE s[Len(a) + Len(b) + i] = c[i]
  <2>1. Len(t) + i \in 1 .. Len(t) + Len(c) /\ ~(Len(t) + i <= Len(t)) /\ (Len(t) + i) - Len(t) = i
    BY <1>1, <1>3
  <2>2. s[Len(t) + i] = c[(Len(t) + i) - Len(t)]
    BY <1>4, <2>1
  <2> QED BY <1>3, <2>1, <2>2
<1>9. s \in Seq(V) /\ PartsOf(s, a, b, c)
  BY <1>4, <1>5, <1>6, <1>7, <1>8 DEF PartsOf
<1> QED BY <1>9 DEF s, t

(* Our forward chain below the dind jump, by position: port rules, then the *)
(* jobs' own chain, then the private ranges, then the rest.                 *)
Established == Rule(<<"established">>, "ACCEPT")
DnsAccept == Rule(<<"port", Dns>>, "ACCEPT")
PairJump == Jump(<<"within">>, "EPHEMERD-C2C")
PrivateReject == Rule(<<"denied">>, "REJECT")
AllAccept == Rule(<<"all">>, "ACCEPT")
ForwardShape(s, n, ports) ==
  /\ Len(s) = n + 5 /\ s[1] = Established /\ s[2] = DnsAccept
  /\ \A i \in 1..n : s[i + 2] \in PortRuleSet(ports, "ACCEPT")
  /\ s[n + 3] = PairJump /\ s[n + 4] = PrivateReject /\ s[n + 5] = AllAccept

LEMMA ForwardRulesAre ==
  ASSUME NEW ports, IsFiniteSet(ports)
  PROVE  \E V : \E n \in Nat : forwardRules(ports) \in Seq(V) /\ ForwardShape(forwardRules(ports), n, ports)
<1> DEFINE R == PortRuleSet(ports, "ACCEPT")
           V == R \cup {Established, DnsAccept, PairJump, PrivateReject, AllAccept}
           a == <<Established, DnsAccept>>
           b == PortRules(ports, "ACCEPT")
           c == <<PairJump, PrivateReject, AllAccept>>
           s == forwardRules(ports)
<1>1. \E n \in Nat : Len(b) = n /\ b \in Seq(R) /\ Lists(b, n, R)
  BY PortRulesAre
<1>2. s = a \o b \o c
  BY DEF forwardRules, Established, DnsAccept, PairJump, PrivateReject, AllAccept
<1>3. a \in Seq(V) /\ c \in Seq(V) /\ Len(a) = 2 /\ Len(c) = 3
  OBVIOUS
<1>4. a[1] = Established /\ a[2] = DnsAccept /\ c[1] = PairJump /\ c[2] = PrivateReject /\ c[3] = AllAccept
  OBVIOUS
<1> HIDE DEF a, b, c, s, R
<1>5. PICK n \in Nat : Len(b) = n /\ b \in Seq(R) /\ Lists(b, n, R)
  BY <1>1
<1>6. b \in Seq(V)
  BY <1>5
<1> HIDE DEF V
<1>7. /\ s \in Seq(V) /\ Len(s) = Len(a) + Len(b) + Len(c)
      /\ \A i \in 1..Len(a) : s[i] = a[i]
      /\ \A i \in 1..Len(b) : s[Len(a) + i] = b[i]
      /\ \A i \in 1..Len(c) : s[Len(a) + Len(b) + i] = c[i]
  <2>1. a \o b \o c \in Seq(V) /\ PartsOf(a \o b \o c, a, b, c)
    BY <1>3, <1>6, ThreeParts
  <2>2. s \in Seq(V) /\ PartsOf(s, a, b, c)
    BY <1>2, <2>1
  <2> QED BY <2>2 DEF PartsOf
<1>8. Len(s) = n + 5 /\ s[1] = Established /\ s[2] = DnsAccept
  BY <1>3, <1>4, <1>5, <1>7
<1>9. ASSUME NEW i \in 1..n PROVE s[i + 2] \in R
  <2>1. s[2 + i] = b[i] /\ b[i] \in R
    BY <1>3, <1>5, <1>7 DEF Lists
  <2> QED BY <1>5, <2>1
<1>10. s[n + 3] = PairJump /\ s[n + 4] = PrivateReject /\ s[n + 5] = AllAccept
  <2>1. s[2 + n + 1] = c[1] /\ s[2 + n + 2] = c[2] /\ s[2 + n + 3] = c[3]
    BY <1>3, <1>5, <1>7
  <2>2. 2 + n + 1 = n + 3 /\ 2 + n + 2 = n + 4 /\ 2 + n + 3 = n + 5
    BY <1>5
  <2> QED BY <1>4, <2>1, <2>2
<1>11. ForwardShape(s, n, ports)
  BY <1>8, <1>9, <1>10 DEF ForwardShape, R
<1> QED BY <1>5, <1>7, <1>11 DEF s

(* The chain INPUT jumps to: DNS, the listed ports, and a DROP for the rest. *)
Loopback == Rule(<<"lo">>, "ACCEPT")
AllDrop == Rule(<<"all">>, "DROP")
InputShape(s, n, ports) ==
  /\ DOMAIN s = 1..(n + 4) /\ s[1] = Loopback /\ s[2] = Established /\ s[3] = DnsAccept
  /\ \A i \in 1..n : s[i + 3] \in PortRuleSet(ports, "ACCEPT")
  /\ \A r \in PortRuleSet(ports, "ACCEPT") : \E i \in 1..n : s[i + 3] = r
  /\ s[n + 4] = AllDrop

LEMMA InputRulesAre ==
  ASSUME NEW ports, IsFiniteSet(ports)
  PROVE  \E n \in Nat : InputShape(containerInputRules(ports), n, ports \ ControlPorts)
<1> DEFINE P == ports \ ControlPorts
           R == PortRuleSet(P, "ACCEPT")
           V == R \cup {Loopback, Established, DnsAccept, AllDrop}
           a == <<Loopback, Established, DnsAccept>>
           b == PortRules(P, "ACCEPT")
           c == <<AllDrop>>
           s == containerInputRules(ports)
<1>0. IsFiniteSet(P)
  BY FS_Difference
<1>1. \E n \in Nat : Len(b) = n /\ b \in Seq(R) /\ Lists(b, n, R)
  <2> HIDE DEF P
  <2> QED BY <1>0, PortRulesAre
<1>2. s = a \o b \o c
  BY DEF containerInputRules, Established, DnsAccept, Loopback, AllDrop
<1>3. a \in Seq(V) /\ c \in Seq(V) /\ Len(a) = 3 /\ Len(c) = 1
  OBVIOUS
<1>4. a[1] = Loopback /\ a[2] = Established /\ a[3] = DnsAccept /\ c[1] = AllDrop
  OBVIOUS
<1> HIDE DEF a, b, c, s, R
<1>5. PICK n \in Nat : Len(b) = n /\ b \in Seq(R) /\ Lists(b, n, R)
  BY <1>1
<1>6. b \in Seq(V)
  BY <1>5
<1> HIDE DEF V, P
<1>7. /\ s \in Seq(V) /\ Len(s) = Len(a) + Len(b) + Len(c)
      /\ \A i \in 1..Len(a) : s[i] = a[i]
      /\ \A i \in 1..Len(b) : s[Len(a) + i] = b[i]
      /\ \A i \in 1..Len(c) : s[Len(a) + Len(b) + i] = c[i]
  <2>1. a \o b \o c \in Seq(V) /\ PartsOf(a \o b \o c, a, b, c)
    BY <1>3, <1>6, ThreeParts
  <2>2. s \in Seq(V) /\ PartsOf(s, a, b, c)
    BY <1>2, <2>1
  <2> QED BY <2>2 DEF PartsOf
<1>8. DOMAIN s = 1..(n + 4) /\ s[1] = Loopback /\ s[2] = Established /\ s[3] = DnsAccept
  BY <1>3, <1>4, <1>5, <1>7
<1>9. \A i \in 1..n : s[i + 3] = b[i]
  BY <1>3, <1>5, <1>7
<1>10. \A i \in 1..n : s[i + 3] \in R
  BY <1>5, <1>9 DEF Lists
<1>11. ASSUME NEW r \in R PROVE \E i \in 1..n : s[i + 3] = r
  <2>1. PICK i \in 1..n : b[i] = r
    BY <1>5 DEF Lists
  <2> QED BY <1>9, <2>1
<1>12. s[n + 4] = AllDrop
  <2>1. s[3 + n + 1] = c[1] /\ 3 + n + 1 = n + 4
    BY <1>3, <1>5, <1>7
  <2> QED BY <1>4, <2>1
<1>13. InputShape(s, n, P)
  BY <1>8, <1>10, <1>11, <1>12 DEF InputShape, R
<1> QED BY <1>13 DEF s, P

LEMMA DindChecked ==
  ASSUME FwInv, fwStep = 9
  PROVE  /\ DOMAIN ensureDindChain(table) = Chains
         /\ \A c \in Chains : ensureDindChain(table)[c] = table[c]
<1> DEFINE t == ensureDindChain(table)
<1>1. DOMAIN table = Chains /\ table["INPUT"] = FullInputList
      /\ table["EPHEMERD-FORWARD"] = <<ToDind>> \o forwardRules(inTable)
  BY RulesServing
<1>2. Has(table, "INPUT", ToDind)
  BY <1>1, InputHas DEF Has
<1>3. Has(table, "EPHEMERD-FORWARD", ToDind)
  <2>1. \E V : forwardRules(inTable) \in Seq(V)
    <3>1. IsFiniteSet(inTable)
      BY FS_Subset, FirewallAssumption DEF FirewallAssumption, FwInv, FwTyped
    <3> QED BY <3>1, ForwardRulesAre
  <2>2. PICK V : forwardRules(inTable) \in Seq(V)
    BY <2>1
  <2>3. /\ DOMAIN (<<ToDind>> \o forwardRules(inTable)) = 1..(Len(forwardRules(inTable)) + 1)
        /\ (<<ToDind>> \o forwardRules(inTable))[1] = ToDind
    BY <2>2, PastFirst
  <2>4. Len(forwardRules(inTable)) \in Nat
    BY <2>2, LenProperties
  <2>5. 1 \in DOMAIN table["EPHEMERD-FORWARD"] /\ table["EPHEMERD-FORWARD"][1] = ToDind
    BY <1>1, <2>3, <2>4
  <2> QED BY <2>5 DEF Has
<1> HIDE DEF t
<1>4. /\ DOMAIN t = Chains
      /\ \A c \in Chains : c # "INPUT" /\ c # "EPHEMERD-FORWARD" => t[c] = table[c]
      /\ t["INPUT"] = table["INPUT"] /\ t["EPHEMERD-FORWARD"] = table["EPHEMERD-FORWARD"]
  BY <1>1, <1>2, <1>3, EnsureDind DEF t
<1> QED BY <1>4 DEF t

LEMMA OpenKeeps ==
  ASSUME FwInv, NEW c \in Guests, openHostPort(c) PROVE FwInv'
<1> DEFINE t == ensureDindChain(table)
<1>1. fwStep = 9 /\ fwStep' = 9 /\ inTable' = inTable
  BY DEF openHostPort
<1>2. DOMAIN t = Chains /\ \A k \in Chains : t[k] = table[k]
  BY <1>1, DindChecked
<1>3. opened \subseteq Guests
  BY DEF FwInv, FwTyped
<1>4. \/ table' = [t EXCEPT !["EPHEMERD-DIND"] = @ \o dindPortRules(c)] /\ opened' = opened \cup {c}
      \/ table' = t /\ opened' = opened
  BY DEF openHostPort
<1>5. opened' \subseteq Guests
  BY <1>3, <1>4
<1>6. table["EPHEMERD-DIND"] \in Seq(OwnRules) /\ PairsThenDrop(table["EPHEMERD-C2C"])
  BY <1>1, RulesServing
<1>7. table["EPHEMERD-DIND"] \o dindPortRules(c) \in Seq(OwnRules)
  <2>1. Rule(<<"own", c>>, "ACCEPT") \in OwnRules /\ Rule(<<"port", DindPort(c)>>, "DROP") \in OwnRules
    BY DEF OwnRules
  <2>2. dindPortRules(c) \in Seq(OwnRules)
    BY <2>1 DEF dindPortRules
  <2> QED BY <1>6, <2>2, ConcatProperties
<1> HIDE DEF t
<1>8. /\ DOMAIN table' = Chains
      /\ \A k \in Chains : k # "EPHEMERD-DIND" /\ k # "EPHEMERD-C2C" => table'[k] = table[k]
      /\ table'["EPHEMERD-DIND"] \in Seq(OwnRules) /\ table'["EPHEMERD-C2C"] = table["EPHEMERD-C2C"]
  <2>1. CASE table' = t
    BY <1>2, <1>6, <2>1, ChainNames
  <2>2. CASE table' = [t EXCEPT !["EPHEMERD-DIND"] = @ \o dindPortRules(c)]
    <3>1. DOMAIN table' = Chains /\ \A k \in Chains : k # "EPHEMERD-DIND" => table'[k] = table[k]
      BY <1>2, <2>2, ChainNames
    <3>2. table'["EPHEMERD-DIND"] = table["EPHEMERD-DIND"] \o dindPortRules(c)
      BY <1>2, <2>2, ChainNames
    <3> QED BY <1>7, <3>1, <3>2, ChainNames
  <2> QED BY <1>4, <2>1, <2>2
<1> QED BY <1>1, <1>5, <1>6, <1>8, JobChainsOnly

LEMMA WithoutIs ==
  ASSUME NEW t, DOMAIN t = Chains, t["EPHEMERD-DIND"] \in Seq(OwnRules), NEW r
  PROVE  LET u == Without(t, "EPHEMERD-DIND", r)
         IN /\ DOMAIN u = Chains /\ u["EPHEMERD-DIND"] \in Seq(OwnRules)
            /\ \A k \in Chains : k # "EPHEMERD-DIND" => u[k] = t[k]
<1> DEFINE u == Without(t, "EPHEMERD-DIND", r)
           s == t["EPHEMERD-DIND"]
           m == {i \in DOMAIN s : s[i] = r}
<1>1. CASE ~Has(t, "EPHEMERD-DIND", r)
  BY <1>1 DEF Without
<1>2. CASE Has(t, "EPHEMERD-DIND", r)
  <2>1. u = [t EXCEPT !["EPHEMERD-DIND"] = RemoveAt(s, Min(m))]
    BY <1>2 DEF Without
  <2>2. m # {} /\ m \subseteq 1..Len(s) /\ Len(s) \in Nat /\ s \in Seq(OwnRules)
    BY <1>2 DEF Has
  <2> HIDE DEF m, s, u
  <2>3. Min(m) \in 1..Len(s)
    <3>1. m \subseteq Nat
      BY <2>2
    <3>2. Min(m) \in m
      BY <2>2, <3>1, LeastOf
    <3> QED BY <2>2, <3>2
  <2>4. RemoveAt(s, Min(m)) \in Seq(OwnRules)
    <3> DEFINE k == Min(m)
    <3> HIDE DEF k
    <3>1. SubSeq(s, 1, k - 1) \in Seq(OwnRules) /\ SubSeq(s, k + 1, Len(s)) \in Seq(OwnRules)
      BY <2>2, <2>3 DEF k
    <3>2. RemoveAt(s, k) \in Seq(OwnRules)
      BY <3>1, ConcatProperties DEF RemoveAt
    <3> QED BY <3>2 DEF k
  <2> QED BY <2>1, <2>4, ChainNames DEF u
<1> QED BY <1>1, <1>2

LEMMA CloseKeeps ==
  ASSUME FwInv, NEW c \in Guests, closeHostPort(c) PROVE FwInv'
<1> DEFINE t == Without(table, "EPHEMERD-DIND", dindPortRules(c)[1])
<1>1. /\ fwStep = 9 /\ fwStep' = 9 /\ inTable' = inTable /\ opened' = opened \ {c}
      /\ table' = Without(t, "EPHEMERD-DIND", dindPortRules(c)[2])
  BY DEF closeHostPort
<1>2. DOMAIN table = Chains /\ table["EPHEMERD-DIND"] \in Seq(OwnRules) /\ PairsThenDrop(table["EPHEMERD-C2C"])
  BY <1>1, RulesServing
<1>3. /\ DOMAIN t = Chains /\ t["EPHEMERD-DIND"] \in Seq(OwnRules)
      /\ \A k \in Chains : k # "EPHEMERD-DIND" => t[k] = table[k]
  BY <1>2, WithoutIs
<1> HIDE DEF t
<1>4. /\ DOMAIN table' = Chains /\ table'["EPHEMERD-DIND"] \in Seq(OwnRules)
      /\ \A k \in Chains : k # "EPHEMERD-DIND" => table'[k] = t[k]
  BY <1>1, <1>3, WithoutIs
<1>5. \A k \in Chains : k # "EPHEMERD-DIND" => table'[k] = table[k]
  BY <1>3, <1>4
<1>6. opened' \subseteq Guests
  BY <1>1 DEF FwInv, FwTyped
<1>7. table'["EPHEMERD-C2C"] = table["EPHEMERD-C2C"]
  BY <1>5, ChainNames
<1> QED BY <1>1, <1>2, <1>4, <1>5, <1>6, <1>7, JobChainsOnly

LEMMA PairOnTop ==
  ASSUME NEW s, PairsThenDrop(s), NEW r \in PairRules
  PROVE  PairsThenDrop(<<r>> \o s)
<1> DEFINE V == PairRules \cup {CrossJobDrop}
           t == <<r>> \o s
<1>1. /\ s \in Seq(V) /\ Len(s) \in Nat /\ Len(s) > 0 /\ s[Len(s)] = CrossJobDrop
      /\ \A i \in 1..(Len(s) - 1) : s[i] \in PairRules
  BY DEF PairsThenDrop
<1>2. t \in Seq(V)
  <2>1. <<r>> \in Seq(V)
    OBVIOUS
  <2> HIDE DEF V
  <2> QED BY <1>1, <2>1, ConcatProperties
<1>3. /\ DOMAIN t = 1..(Len(s) + 1) /\ t[1] = r
      /\ \A i \in 1..Len(s) : t[i + 1] = s[i]
  <2> HIDE DEF V
  <2> QED BY <1>1, PastFirst
<1> HIDE DEF t, V
<1>4. Len(t) = Len(s) + 1
  BY <1>1, <1>2, <1>3
<1>5. t[Len(t)] = CrossJobDrop
  BY <1>1, <1>3, <1>4
<1>6. ASSUME NEW i \in 1..(Len(t) - 1) PROVE t[i] \in PairRules
  <2>1. CASE i = 1
    BY <1>3, <2>1
  <2>2. CASE i # 1
    <3>1. i - 1 \in 1..(Len(s) - 1) /\ i - 1 \in 1..Len(s) /\ (i - 1) + 1 = i
      BY <1>1, <1>4, <2>2
    <3> QED BY <1>1, <1>3, <3>1
  <2> QED BY <2>1, <2>2
<1>7. PairsThenDrop(t)
  BY <1>1, <1>2, <1>4, <1>5, <1>6 DEF PairsThenDrop, V
<1> QED BY <1>7 DEF t

LEMMA PairKeeps ==
  ASSUME FwInv, NEW a \in Guests, NEW b \in Guests, c2cPairRules(a, b) PROVE FwInv'
<1> DEFINE s == table["EPHEMERD-C2C"]
           t == [table EXCEPT !["EPHEMERD-C2C"] = <<PairRule(a, b)>> \o @]
<1>1. fwStep = 9 /\ fwStep' = 9 /\ inTable' = inTable /\ opened' = opened
  BY DEF c2cPairRules
<1>2. table' = [t EXCEPT !["EPHEMERD-C2C"] = <<PairRule(b, a)>> \o @]
  BY DEF c2cPairRules, OnTop, PairRule
<1>3. DOMAIN table = Chains /\ table["EPHEMERD-DIND"] \in Seq(OwnRules) /\ PairsThenDrop(s)
  BY <1>1, RulesServing
<1>4. PairRule(a, b) \in PairRules /\ PairRule(b, a) \in PairRules
  <2>1. <<a, b>> \in Guests \X Guests /\ <<b, a>> \in Guests \X Guests
    OBVIOUS
  <2>2. PairRule(<<a, b>>[1], <<a, b>>[2]) \in PairRules /\ PairRule(<<b, a>>[1], <<b, a>>[2]) \in PairRules
    BY <2>1 DEF PairRules
  <2> QED BY <2>2
<1>5. PairsThenDrop(<<PairRule(b, a)>> \o (<<PairRule(a, b)>> \o s))
  <2> HIDE DEF s
  <2>1. PairsThenDrop(<<PairRule(a, b)>> \o s)
    BY <1>3, <1>4, PairOnTop
  <2> QED BY <1>4, <2>1, PairOnTop
<1>6. /\ DOMAIN table' = Chains
      /\ \A k \in Chains : k # "EPHEMERD-C2C" => table'[k] = table[k]
      /\ table'["EPHEMERD-C2C"] = <<PairRule(b, a)>> \o (<<PairRule(a, b)>> \o s)
  BY <1>2, <1>3, ChainNames
<1> HIDE DEF t
<1>7. table'["EPHEMERD-DIND"] = table["EPHEMERD-DIND"]
  BY <1>6, ChainNames
<1>8. opened' \subseteq Guests
  BY <1>1 DEF FwInv, FwTyped
<1> QED BY <1>1, <1>3, <1>5, <1>6, <1>7, <1>8, JobChainsOnly

LEMMA FwKept == FwInv /\ [FwNext]_fwVars => FwInv'
<1> SUFFICES ASSUME FwInv, [FwNext]_fwVars PROVE FwInv'
  OBVIOUS
<1>1. CASE StartDaemon
  <2>1. /\ fwStep = 0 /\ fwStep' = 1 /\ table' = table /\ opened' = opened /\ inTable' \subseteq GatewayPorts
    BY <1>1 DEF StartDaemon
  <2> QED BY <2>1 DEF FwInv, FwTyped, InputOrdered, ForwardOrdered, OwnForward, OwnInput, PerJob
<1>2. CASE installFirewallRules
  <2>1. fwStep \in 1..8
    BY <1>2 DEF installFirewallRules
  <2> QED BY <1>2, <2>1, BlockOne, BlockTwo, BlockThree, BlockFour, BlockFive, BlockSix, BlockSeven, BlockEight
<1>3. CASE Dies
  <2>1. fwStep' = 0 /\ opened' = {} /\ table' = table /\ inTable' = inTable
    BY <1>3 DEF Dies
  <2>2. FwTyped' /\ InputOrdered' /\ ForwardOrdered'
    BY <2>1 DEF FwInv, FwTyped, InputOrdered, ForwardOrdered
  <2>3. OwnForward' /\ OwnInput' /\ PerJob'
    BY <2>1 DEF OwnForward, OwnInput, PerJob
  <2> QED BY <2>2, <2>3 DEF FwInv
<1>4. CASE removeFirewallRules
  <2>1. fwStep' = 0 /\ opened' = {} /\ table' = [c \in Chains |-> <<>>] /\ inTable' = inTable
    BY <1>4 DEF removeFirewallRules
  <2>2. table'["INPUT"] = <<>> /\ table'["FORWARD"] = <<>> /\ DOMAIN table' = Chains
    BY <2>1, ChainNames
  <2>3. FwTyped' /\ InputOrdered' /\ ForwardOrdered'
    BY <2>1, <2>2 DEF FwInv, FwTyped, InputOrdered, ForwardOrdered
  <2>4. OwnForward' /\ OwnInput' /\ PerJob'
    BY <2>1 DEF OwnForward, OwnInput, PerJob
  <2> QED BY <2>3, <2>4 DEF FwInv
<1>5. ASSUME NEW c \in Guests, openHostPort(c) \/ closeHostPort(c) PROVE FwInv'
  BY <1>5, OpenKeeps, CloseKeeps
<1>6. ASSUME NEW t \in Twins, c2cPairRules(t[1], t[2]) PROVE FwInv'
  <2>1. t[1] \in Guests /\ t[2] \in Guests
    BY FirewallAssumption DEF FirewallAssumption
  <2> QED BY <1>6, <2>1, PairKeeps
<1>7. CASE UNCHANGED fwVars
  BY <1>7 DEF fwVars, FwInv, FwTyped, InputOrdered, ForwardOrdered, OwnForward, OwnInput, PerJob
<1> QED BY <1>1, <1>2, <1>3, <1>4, <1>5, <1>6, <1>7 DEF FwNext

-----------------------------------------------------------------------------
(* The verdicts.                                                            *)
LEMMA Verdicts ==
  ASSUME NEW p, NEW m, NEW to \in {"ACCEPT", "DROP", "REJECT"}
  PROVE  /\ Matches(m, p) => /\ SaysLeaf(Rule(m, to), p) = to /\ SaysMid(Rule(m, to), p) = to
                             /\ SaysTop(Rule(m, to), p) = to
         /\ ~Matches(m, p) => /\ SaysLeaf(Rule(m, to), p) = "none" /\ SaysMid(Rule(m, to), p) = "none"
                              /\ SaysTop(Rule(m, to), p) = "none"
<1>1. to \notin Chains /\ Rule(m, to).m = m /\ Rule(m, to).to = to
  BY DEF Chains, Rule
<1> QED BY <1>1 DEF SaysLeaf, SaysMid, SaysTop

LEMMA Jumps ==
  ASSUME NEW p, NEW m, NEW chain \in Chains
  PROVE  /\ Matches(m, p) => /\ SaysMid(Jump(m, chain), p) = Leaf(chain, p)
                             /\ SaysTop(Jump(m, chain), p) = Mid(chain, p)
         /\ ~Matches(m, p) => SaysMid(Jump(m, chain), p) = "none" /\ SaysTop(Jump(m, chain), p) = "none"
<1>1. Jump(m, chain).m = m /\ Jump(m, chain).to = chain
  BY DEF Jump, Rule
<1> QED BY <1>1 DEF SaysMid, SaysTop

(* EPHEMERD-INPUT decides every packet to the gateway.                      *)
LEMMA InputDecides ==
  ASSUME FwInv, fwStep = 9, NEW p, p.dst = "gateway"
  PROVE  Mid("EPHEMERD-INPUT", p) =
           IF p.port \in {Dns} \cup (inTable \ ControlPorts) THEN "ACCEPT" ELSE "DROP"
<1> DEFINE s == table["EPHEMERD-INPUT"]
           P == inTable \ ControlPorts
           R == PortRuleSet(P, "ACCEPT")
<1>0. IsFiniteSet(inTable)
  BY FS_Subset, FirewallAssumption DEF FirewallAssumption, FwInv, FwTyped
<1>1. s = containerInputRules(inTable)
  BY RulesServing
<1>2. \E n \in Nat : InputShape(s, n, P)
  BY <1>0, <1>1, InputRulesAre
<1> HIDE DEF s, P
<1>3. PICK n \in Nat : InputShape(s, n, P)
  BY <1>2
<1>4. /\ DOMAIN s = 1..(n + 4) /\ s[1] = Loopback /\ s[2] = Established /\ s[3] = DnsAccept
      /\ \A i \in 1..n : s[i + 3] \in R
      /\ \A r \in R : \E i \in 1..n : s[i + 3] = r
      /\ s[n + 4] = AllDrop
  BY <1>3 DEF InputShape
<1>5. SaysMid(s[1], p) = "none" /\ SaysMid(s[2], p) = "none"
  BY <1>4, Verdicts, MatchesAre DEF Loopback, Established
<1>6. /\ p.port = Dns => SaysMid(s[3], p) = "ACCEPT"
      /\ p.port # Dns => SaysMid(s[3], p) = "none"
  BY <1>4, Verdicts, MatchesAre DEF DnsAccept
<1>7. ASSUME NEW i \in 1..n
      PROVE  /\ SaysMid(s[i + 3], p) \in {"none", "ACCEPT"}
             /\ p.port \notin P => SaysMid(s[i + 3], p) = "none"
  <2>1. s[i + 3] \in R
    BY <1>4
  <2>2. PICK q \in P : s[i + 3] = Rule(<<"port", q>>, "ACCEPT")
    BY <2>1 DEF PortRuleSet
  <2>3. CASE p.port = q
    <3>1. Matches(<<"port", q>>, p)
      BY <2>3, MatchesAre
    <3>2. SaysMid(s[i + 3], p) = "ACCEPT"
      BY <2>2, <3>1, Verdicts
    <3> QED BY <2>3, <3>2
  <2>4. CASE p.port # q
    <3>1. ~Matches(<<"port", q>>, p)
      BY <2>4, MatchesAre
    <3>2. SaysMid(s[i + 3], p) = "none"
      BY <2>2, <3>1, Verdicts
    <3> QED BY <3>2
  <2> QED BY <2>3, <2>4
<1>8. SaysMid(s[n + 4], p) = "DROP"
  BY <1>4, Verdicts, MatchesAre DEF AllDrop
<1>9. ASSUME NEW j \in 4..(n + 3)
      PROVE  /\ SaysMid(s[j], p) \in {"none", "ACCEPT"}
             /\ p.port \notin P => SaysMid(s[j], p) = "none"
  <2>1. j - 3 \in 1..n /\ (j - 3) + 3 = j
    OBVIOUS
  <2> QED BY <1>7, <2>1
<1>10. CASE p.port = Dns
  <2>1. \A j \in 1..3 : SaysMid(s[j], p) \in {"none", "ACCEPT"}
    BY <1>5, <1>6, <1>10
  <2>2. Mid("EPHEMERD-INPUT", p) = "ACCEPT"
    <3>1. n + 4 \in Nat /\ 3 \in 1..(n + 4) /\ SaysMid(s[3], p) = "ACCEPT"
      BY <1>6, <1>10
    <3> QED BY <1>4, <2>1, <3>1, MidIs DEF s
  <2> QED BY <1>10, <2>2
<1>11. CASE p.port # Dns /\ p.port \in P
  <2>1. Rule(<<"port", p.port>>, "ACCEPT") \in R
    BY <1>11 DEF PortRuleSet
  <2>2. PICK i \in 1..n : s[i + 3] = Rule(<<"port", p.port>>, "ACCEPT")
    BY <1>4, <2>1
  <2>3. SaysMid(s[i + 3], p) = "ACCEPT"
    BY <2>2, Verdicts, MatchesAre
  <2>4. ASSUME NEW j \in 1..(i + 3) PROVE SaysMid(s[j], p) \in {"none", "ACCEPT"}
    <3>1. CASE j \in 1..3
      BY <1>5, <1>6, <1>11, <3>1
    <3>2. CASE j \in 4..(n + 3)
      BY <1>9, <3>2
    <3> QED BY <3>1, <3>2
  <2>5. n + 4 \in Nat /\ i + 3 \in 1..(n + 4)
    OBVIOUS
  <2>6. Mid("EPHEMERD-INPUT", p) = "ACCEPT"
    BY <1>4, <2>3, <2>4, <2>5, MidIs DEF s
  <2> QED BY <1>11, <2>6 DEF P
<1>12. CASE p.port # Dns /\ p.port \notin P
  <2>1. ASSUME NEW j \in 1..(n + 4) PROVE SaysMid(s[j], p) \in {"none", "DROP"}
    <3>1. CASE j \in 1..3
      BY <1>5, <1>6, <1>12, <3>1
    <3>2. CASE j \in 4..(n + 3)
      BY <1>9, <1>12, <3>2
    <3>3. CASE j = n + 4
      BY <1>8, <3>3
    <3> QED BY <3>1, <3>2, <3>3
  <2>2. n + 4 \in Nat /\ n + 4 \in 1..(n + 4)
    OBVIOUS
  <2>3. Mid("EPHEMERD-INPUT", p) = "DROP"
    BY <1>4, <1>8, <2>1, <2>2, MidIs DEF s
  <2> QED BY <1>12, <2>3 DEF P
<1> QED BY <1>10, <1>11, <1>12

LEMMA HostPolicyHolds == FwInv => HostPolicy
<1> SUFFICES ASSUME FwInv, fwStep = 9, NEW c \in Guests, NEW port \in AllPorts \ {DindPort(c)}
             PROVE  Fate("INPUT", ToGateway(c, port)) =
                      IF port \in ({Dns} \cup inTable) \ ControlPorts THEN "ACCEPT" ELSE "DROP"
  BY DEF HostPolicy
<1> DEFINE p == ToGateway(c, port)
           s == table["INPUT"]
           Listed == ({Dns} \cup inTable) \ ControlPorts
<1>1. p.dst = "gateway" /\ p.port = port
  BY DEF ToGateway
<1> HIDE DEF p
<1>2. port \notin ControlPorts => Mid("EPHEMERD-INPUT", p) = IF port \in Listed THEN "ACCEPT" ELSE "DROP"
  <2>1. Mid("EPHEMERD-INPUT", p) = IF p.port \in {Dns} \cup (inTable \ ControlPorts) THEN "ACCEPT" ELSE "DROP"
    BY <1>1, InputDecides
  <2>2. port \notin ControlPorts => (port \in Listed <=> p.port \in {Dns} \cup (inTable \ ControlPorts))
    BY <1>1
  <2> HIDE DEF Listed
  <2> QED BY <2>1, <2>2
<1>3. s = FullInputList
  BY RulesServing
<1>4. PICK n \in Nat : /\ DOMAIN s = 1..(n + 2) /\ Lists(s, n, DropRules)
                       /\ s[n + 1] = ToInputChain /\ s[n + 2] = ToDind
  BY <1>3, FullInput
<1>5. SaysTop(s[n + 1], p) = Mid("EPHEMERD-INPUT", p)
  BY <1>4, Jumps, MatchesAre, ChainNames DEF ToInputChain
<1> HIDE DEF s, Listed
<1>6. ASSUME NEW i \in 1..n
      PROVE  /\ SaysTop(s[i], p) \in {"none", "DROP"}
             /\ port \notin ControlPorts => SaysTop(s[i], p) = "none"
  <2>1. s[i] \in DropRules
    BY <1>4 DEF Lists
  <2>2. PICK q \in ControlPorts : s[i] = Rule(<<"port", q>>, "DROP")
    BY <2>1 DEF DropRules, PortRuleSet
  <2>3. CASE port = q
    <3>1. Matches(<<"port", q>>, p)
      BY <1>1, <2>3, MatchesAre
    <3>2. SaysTop(s[i], p) = "DROP"
      BY <2>2, <3>1, Verdicts
    <3> QED BY <2>3, <3>2
  <2>4. CASE port # q
    <3>1. ~Matches(<<"port", q>>, p)
      BY <1>1, <2>4, MatchesAre
    <3>2. SaysTop(s[i], p) = "none"
      BY <2>2, <3>1, Verdicts
    <3> QED BY <3>2
  <2> QED BY <2>3, <2>4
<1>7. CASE port \in ControlPorts
  <2>1. Rule(<<"port", port>>, "DROP") \in DropRules
    BY <1>7 DEF DropRules, PortRuleSet
  <2>2. PICK i \in 1..n : s[i] = Rule(<<"port", port>>, "DROP")
    BY <1>4, <2>1 DEF Lists
  <2>3. SaysTop(s[i], p) = "DROP"
    <3>1. Matches(<<"port", port>>, p)
      BY <1>1, MatchesAre
    <3> QED BY <2>2, <3>1, Verdicts
  <2>4. \A j \in 1..i : SaysTop(s[j], p) \in {"none", "DROP"}
    BY <1>6
  <2>5. n + 2 \in Nat /\ i \in 1..(n + 2)
    OBVIOUS
  <2>6. Fate("INPUT", p) = "DROP"
    BY <1>4, <2>3, <2>4, <2>5, FateIs DEF s
  <2>7. port \notin Listed
    BY <1>7 DEF Listed
  <2> QED BY <2>6, <2>7 DEF p, Listed
<1>8. CASE port \notin ControlPorts
  <2> DEFINE v == IF port \in Listed THEN "ACCEPT" ELSE "DROP"
  <2>1. v # "none" /\ SaysTop(s[n + 1], p) = v
    BY <1>2, <1>5, <1>8
  <2> HIDE DEF v
  <2>2. ASSUME NEW j \in 1..(n + 1) PROVE SaysTop(s[j], p) \in {"none", v}
    <3>1. CASE j \in 1..n
      BY <1>6, <1>8, <3>1
    <3>2. CASE j = n + 1
      BY <2>1, <3>2
    <3> QED BY <3>1, <3>2
  <2>3. n + 2 \in Nat /\ n + 1 \in 1..(n + 2)
    OBVIOUS
  <2>4. Fate("INPUT", p) = v
    BY <1>4, <2>1, <2>2, <2>3, FateIs DEF s
  <2> QED BY <2>4 DEF p, v, Listed
<1> QED BY <1>7, <1>8

(* The jobs' own chain: the pair's ACCEPT if both joined, else the drop.    *)
LEMMA PairsDecide ==
  ASSUME FwInv, fwStep = 9, NEW a \in Guests, NEW b \in Guests, NEW p, p = ToPlace(a, b)
  PROVE  Leaf("EPHEMERD-C2C", p) = IF Has(table, "EPHEMERD-C2C", PairRule(a, b)) THEN "ACCEPT" ELSE "DROP"
<1> DEFINE s == table["EPHEMERD-C2C"]
           l == Len(s)
<1>1. p.from = a /\ p.dst = b /\ InSubnet(p)
  BY DEF ToPlace, InSubnet
<1>2. PairsThenDrop(s)
  BY RulesServing
<1>3. /\ l \in Nat /\ l > 0 /\ DOMAIN s = 1..l /\ s[l] = CrossJobDrop
      /\ \A i \in 1..(l - 1) : s[i] \in PairRules
  BY <1>2 DEF PairsThenDrop
<1> HIDE DEF l
<1>4. SaysLeaf(s[l], p) = "DROP"
  BY <1>1, <1>3, Verdicts, MatchesAre DEF CrossJobDrop
<1> HIDE DEF s
<1>5. ASSUME NEW i \in 1..(l - 1)
      PROVE  /\ SaysLeaf(s[i], p) \in {"none", "ACCEPT"}
             /\ SaysLeaf(s[i], p) = "ACCEPT" => s[i] = PairRule(a, b)
  <2>1. s[i] \in PairRules
    BY <1>3
  <2>2. PICK t \in Guests \X Guests : s[i] = PairRule(t[1], t[2])
    BY <2>1 DEF PairRules
  <2>3. s[i] = Rule(<<"pair", t[1], t[2]>>, "ACCEPT")
    BY <2>2 DEF PairRule
  <2>4. CASE t[1] = a /\ t[2] = b
    <3>1. Matches(<<"pair", t[1], t[2]>>, p)
      BY <1>1, <2>4, MatchesAre
    <3>2. SaysLeaf(s[i], p) = "ACCEPT"
      BY <2>3, <3>1, Verdicts
    <3> QED BY <2>2, <2>4, <3>2
  <2>5. CASE ~(t[1] = a /\ t[2] = b)
    <3>1. ~Matches(<<"pair", t[1], t[2]>>, p)
      BY <1>1, <2>5, MatchesAre
    <3>2. SaysLeaf(s[i], p) = "none"
      BY <2>3, <3>1, Verdicts
    <3> QED BY <3>2
  <2> QED BY <2>4, <2>5
<1>6. CASE Has(table, "EPHEMERD-C2C", PairRule(a, b))
  <2>1. PICK i \in 1..l : s[i] = PairRule(a, b)
    BY <1>3, <1>6 DEF Has, s
  <2>2. SaysLeaf(s[i], p) = "ACCEPT"
    <3>1. Matches(<<"pair", a, b>>, p)
      BY <1>1, MatchesAre
    <3> QED BY <2>1, <3>1, Verdicts DEF PairRule
  <2>3. i \in 1..(l - 1)
    BY <1>3, <1>4, <2>2
  <2>4. \A j \in 1..i : SaysLeaf(s[j], p) \in {"none", "ACCEPT"}
    BY <1>3, <1>5, <2>3
  <2>5. Leaf("EPHEMERD-C2C", p) = "ACCEPT"
    BY <1>3, <2>2, <2>4, LeafIs DEF s
  <2> QED BY <1>6, <2>5
<1>7. CASE ~Has(table, "EPHEMERD-C2C", PairRule(a, b))
  <2>1. \A i \in 1..l : s[i] # PairRule(a, b)
    BY <1>3, <1>7 DEF Has, s
  <2>2. ASSUME NEW j \in 1..l PROVE SaysLeaf(s[j], p) \in {"none", "DROP"}
    <3>1. CASE j = l
      BY <1>4, <3>1
    <3>2. CASE j # l
      <4>1. j \in 1..(l - 1)
        BY <1>3, <3>2
      <4> QED BY <1>5, <2>1, <4>1
    <3> QED BY <3>1, <3>2
  <2>3. l \in 1..l
    BY <1>3
  <2>4. Leaf("EPHEMERD-C2C", p) = "DROP"
    BY <1>3, <1>4, <2>2, <2>3, LeafIs DEF s
  <2> QED BY <1>7, <2>4
<1> QED BY <1>6, <1>7

(* The dind chain concerns packets to the gateway only.                     *)
LEMMA DindSilent ==
  ASSUME FwInv, fwStep = 9, NEW p, p.dst # "gateway"
  PROVE  Leaf("EPHEMERD-DIND", p) = "none"
<1> DEFINE s == table["EPHEMERD-DIND"]
<1>1. s \in Seq(OwnRules)
  BY RulesServing
<1> HIDE DEF s
<1>2. ASSUME NEW j \in DOMAIN s PROVE SaysLeaf(s[j], p) = "none"
  <2>1. s[j] \in OwnRules
    BY <1>1
  <2>2. CASE \E c \in Guests : s[j] = Rule(<<"own", c>>, "ACCEPT")
    <3>1. PICK c \in Guests : s[j] = Rule(<<"own", c>>, "ACCEPT")
      BY <2>2
    <3>2. ~Matches(<<"own", c>>, p)
      BY MatchesAre
    <3> QED BY <3>1, <3>2, Verdicts
  <2>3. CASE \E c \in Guests : s[j] = Rule(<<"port", DindPort(c)>>, "DROP")
    <3>1. PICK c \in Guests : s[j] = Rule(<<"port", DindPort(c)>>, "DROP")
      BY <2>3
    <3>2. ~Matches(<<"port", DindPort(c)>>, p)
      BY MatchesAre
    <3> QED BY <3>1, <3>2, Verdicts
  <2> QED BY <2>1, <2>2, <2>3 DEF OwnRules
<1> QED BY <1>2, LeafNone DEF s

(* EPHEMERD-FORWARD, for what is routed to anywhere but the gateway.        *)
LEMMA ForwardDecides ==
  ASSUME FwInv, fwStep = 9, NEW p, p.dst # "gateway"
  PROVE  /\ InSubnet(p) /\ Leaf("EPHEMERD-C2C", p) # "none" =>
               Mid("EPHEMERD-FORWARD", p) = Leaf("EPHEMERD-C2C", p)
         /\ ~InSubnet(p) /\ p.dst = "private" => Mid("EPHEMERD-FORWARD", p) = "REJECT"
         /\ ~InSubnet(p) /\ p.dst # "private" => Mid("EPHEMERD-FORWARD", p) = "ACCEPT"
<1> DEFINE f == forwardRules(inTable)
           s == <<ToDind>> \o f
<1>0. IsFiniteSet(inTable)
  BY FS_Subset, FirewallAssumption DEF FirewallAssumption, FwInv, FwTyped
<1>1. table["EPHEMERD-FORWARD"] = s
  BY RulesServing
<1>2. PICK V : \E n \in Nat : f \in Seq(V) /\ ForwardShape(f, n, inTable)
  BY <1>0, ForwardRulesAre
<1> HIDE DEF f
<1>3. PICK n \in Nat : f \in Seq(V) /\ ForwardShape(f, n, inTable)
  BY <1>2
<1>4. /\ Len(f) = n + 5 /\ f[1] = Established /\ f[2] = DnsAccept
      /\ \A i \in 1..n : f[i + 2] \in PortRuleSet(inTable, "ACCEPT")
      /\ f[n + 3] = PairJump /\ f[n + 4] = PrivateReject /\ f[n + 5] = AllAccept
  BY <1>3 DEF ForwardShape
<1>5. /\ DOMAIN s = 1..(Len(f) + 1) /\ s[1] = ToDind
      /\ \A i \in 1..Len(f) : s[i + 1] = f[i]
  BY <1>3, PastFirst
<1> HIDE DEF s
<1>6. DOMAIN s = 1..(n + 6)
  <2>1. Len(f) + 1 = n + 6
    BY <1>4
  <2> QED BY <1>5, <2>1
<1>7. s[2] = Established /\ s[3] = DnsAccept /\ s[n + 4] = PairJump /\ s[n + 5] = PrivateReject /\ s[n + 6] = AllAccept
  <2>1. s[1 + 1] = f[1] /\ s[2 + 1] = f[2]
    BY <1>4, <1>5
  <2>2. s[(n + 3) + 1] = f[n + 3]
    BY <1>4, <1>5
  <2>3. s[(n + 4) + 1] = f[n + 4]
    BY <1>4, <1>5
  <2>4. s[(n + 5) + 1] = f[n + 5]
    BY <1>4, <1>5
  <2> QED BY <1>4, <2>1, <2>2, <2>3, <2>4
<1>8. ASSUME NEW j \in 4..(n + 3) PROVE s[j] \in PortRuleSet(inTable, "ACCEPT")
  <2>1. j - 3 \in 1..n /\ j - 1 \in 1..Len(f) /\ (j - 3) + 2 = j - 1 /\ (j - 1) + 1 = j
    BY <1>4
  <2>2. s[(j - 1) + 1] = f[j - 1]
    BY <1>5, <2>1
  <2>3. f[(j - 3) + 2] \in PortRuleSet(inTable, "ACCEPT")
    BY <1>4, <2>1
  <2> QED BY <2>1, <2>2, <2>3
<1>9. ASSUME NEW j \in 1..(n + 3) PROVE SaysMid(s[j], p) = "none"
  <2>1. CASE j = 1
    <3>1. Matches(<<"all">>, p) /\ Leaf("EPHEMERD-DIND", p) = "none"
      BY MatchesAre, DindSilent
    <3>2. SaysMid(ToDind, p) = Leaf("EPHEMERD-DIND", p)
      BY <3>1, Jumps, ChainNames DEF ToDind
    <3> QED BY <1>5, <2>1, <3>1, <3>2
  <2>2. CASE j = 2
    BY <1>7, <2>2, Verdicts, MatchesAre DEF Established
  <2>3. CASE j = 3
    <3>1. ~Matches(<<"port", Dns>>, p)
      BY MatchesAre
    <3> QED BY <1>7, <2>3, <3>1, Verdicts DEF DnsAccept
  <2>4. CASE j \in 4..(n + 3)
    <3>1. PICK q \in inTable : s[j] = Rule(<<"port", q>>, "ACCEPT")
      BY <1>8, <2>4 DEF PortRuleSet
    <3>2. ~Matches(<<"port", q>>, p)
      BY MatchesAre
    <3> QED BY <3>1, <3>2, Verdicts
  <2> QED BY <2>1, <2>2, <2>3, <2>4
<1>10. n + 6 \in Nat /\ n + 4 \in 1..(n + 6) /\ n + 5 \in 1..(n + 6) /\ n + 6 \in 1..(n + 6)
  OBVIOUS
<1>11. ASSUME InSubnet(p), Leaf("EPHEMERD-C2C", p) # "none"
       PROVE  Mid("EPHEMERD-FORWARD", p) = Leaf("EPHEMERD-C2C", p)
  <2> DEFINE v == Leaf("EPHEMERD-C2C", p)
  <2> HIDE DEF v
  <2>1. Matches(<<"within">>, p)
    BY <1>11, MatchesAre
  <2>2. SaysMid(s[n + 4], p) = v /\ v # "none"
    BY <1>7, <1>11, <2>1, Jumps, ChainNames DEF PairJump, v
  <2>3. ASSUME NEW j \in 1..(n + 4) PROVE SaysMid(s[j], p) \in {"none", v}
    <3>1. CASE j \in 1..(n + 3)
      BY <1>9, <3>1
    <3>2. CASE j = n + 4
      BY <2>2, <3>2
    <3> QED BY <3>1, <3>2
  <2>4. Mid("EPHEMERD-FORWARD", p) = v
    BY <1>1, <1>6, <1>10, <2>2, <2>3, MidIs
  <2> QED BY <2>4 DEF v
<1>12. ASSUME ~InSubnet(p) PROVE SaysMid(s[n + 4], p) = "none"
  <2>1. ~Matches(<<"within">>, p)
    BY <1>12, MatchesAre
  <2> QED BY <1>7, <2>1, Jumps, ChainNames DEF PairJump
<1>13. ASSUME ~InSubnet(p), p.dst = "private" PROVE Mid("EPHEMERD-FORWARD", p) = "REJECT"
  <2>1. Matches(<<"denied">>, p)
    BY <1>13, MatchesAre
  <2>2. SaysMid(s[n + 5], p) = "REJECT"
    BY <1>7, <2>1, Verdicts DEF PrivateReject
  <2>3. ASSUME NEW j \in 1..(n + 5) PROVE SaysMid(s[j], p) \in {"none", "REJECT"}
    <3>1. CASE j \in 1..(n + 3)
      BY <1>9, <3>1
    <3>2. CASE j = n + 4
      BY <1>12, <1>13, <3>2
    <3>3. CASE j = n + 5
      BY <2>2, <3>3
    <3> QED BY <3>1, <3>2, <3>3
  <2> QED BY <1>1, <1>6, <1>10, <2>2, <2>3, MidIs
<1>14. ASSUME ~InSubnet(p), p.dst # "private" PROVE Mid("EPHEMERD-FORWARD", p) = "ACCEPT"
  <2>1. ~Matches(<<"denied">>, p) /\ Matches(<<"all">>, p)
    BY <1>14, MatchesAre
  <2>2. SaysMid(s[n + 5], p) = "none" /\ SaysMid(s[n + 6], p) = "ACCEPT"
    BY <1>7, <2>1, Verdicts DEF PrivateReject, AllAccept
  <2>3. ASSUME NEW j \in 1..(n + 6) PROVE SaysMid(s[j], p) \in {"none", "ACCEPT"}
    <3>1. CASE j \in 1..(n + 3)
      BY <1>9, <3>1
    <3>2. CASE j = n + 4
      BY <1>12, <1>14, <3>2
    <3>3. CASE j = n + 5 \/ j = n + 6
      BY <2>2, <3>3
    <3> QED BY <3>1, <3>2, <3>3
  <2> QED BY <1>1, <1>6, <1>10, <2>2, <2>3, MidIs
<1> QED BY <1>11, <1>13, <1>14

(* FORWARD sends a packet to our chain, by one jump or the other.           *)
LEMMA ForwardIs ==
  ASSUME FwInv, fwStep = 9, NEW p, Mid("EPHEMERD-FORWARD", p) # "none"
  PROVE  Fate("FORWARD", p) = Mid("EPHEMERD-FORWARD", p)
<1> DEFINE v == Mid("EPHEMERD-FORWARD", p)
           s == table["FORWARD"]
<1> HIDE DEF v
<1>1. s = <<ToJump, FromJump>>
  BY RulesServing
<1>2. DOMAIN s = 1..2 /\ s[1] = ToJump /\ s[2] = FromJump
  BY <1>1
<1> HIDE DEF s
<1>3. SaysTop(FromJump, p) = v
  BY MatchesAre, Jumps, ChainNames DEF FromJump, v
<1>4. SaysTop(ToJump, p) \in {"none", v}
  BY Jumps, ChainNames DEF ToJump, v
<1>5. \A j \in 1..2 : SaysTop(s[j], p) \in {"none", v}
  BY <1>2, <1>3, <1>4
<1>6. v # "none" /\ SaysTop(s[2], p) = v
  BY <1>2, <1>3 DEF v
<1>7. Fate("FORWARD", p) = v
  <2>1. 2 \in Nat /\ 2 \in 1..2
    OBVIOUS
  <2> QED BY <1>2, <1>5, <1>6, <2>1, FateIs DEF s
<1> QED BY <1>7 DEF v

LEMMA ForwardPolicyHolds == FwInv => ForwardPolicy
<1> SUFFICES ASSUME FwInv, fwStep = 9
             PROVE  /\ \A a, b \in Guests : a # b =>
                         Fate("FORWARD", ToPlace(a, b)) =
                           IF Has(table, "EPHEMERD-C2C", PairRule(a, b)) THEN "ACCEPT" ELSE "DROP"
                    /\ \A a \in Guests : /\ Fate("FORWARD", ToPlace(a, "private")) = "REJECT"
                                         /\ Fate("FORWARD", ToPlace(a, "public")) = "ACCEPT"
  BY DEF ForwardPolicy, PairRule
<1>1. "gateway" \notin Guests /\ "private" \notin Guests /\ "public" \notin Guests
  BY FirewallAssumption DEF FirewallAssumption
<1>2. ASSUME NEW a \in Guests, NEW b \in Guests
      PROVE  Fate("FORWARD", ToPlace(a, b)) =
               IF Has(table, "EPHEMERD-C2C", PairRule(a, b)) THEN "ACCEPT" ELSE "DROP"
  <2> DEFINE p == ToPlace(a, b)
  <2>1. p.dst = b
    BY DEF ToPlace
  <2> HIDE DEF p
  <2>2. p.dst # "gateway" /\ InSubnet(p)
    BY <1>1, <2>1 DEF InSubnet
  <2>3. Leaf("EPHEMERD-C2C", p) = IF Has(table, "EPHEMERD-C2C", PairRule(a, b)) THEN "ACCEPT" ELSE "DROP"
    BY PairsDecide DEF p
  <2>4. Leaf("EPHEMERD-C2C", p) # "none"
    BY <2>3
  <2>5. Mid("EPHEMERD-FORWARD", p) = Leaf("EPHEMERD-C2C", p)
    BY <2>2, <2>4, ForwardDecides
  <2>6. Fate("FORWARD", p) = Leaf("EPHEMERD-C2C", p)
    BY <2>4, <2>5, ForwardIs
  <2> QED BY <2>3, <2>6 DEF p
<1>3. ASSUME NEW a \in Guests PROVE Fate("FORWARD", ToPlace(a, "private")) = "REJECT"
  <2> DEFINE p == ToPlace(a, "private")
  <2>1. p.dst = "private"
    BY DEF ToPlace
  <2> HIDE DEF p
  <2>2. p.dst # "gateway" /\ ~InSubnet(p)
    BY <1>1, <2>1 DEF InSubnet
  <2>3. Mid("EPHEMERD-FORWARD", p) = "REJECT"
    BY <2>1, <2>2, ForwardDecides
  <2>4. Fate("FORWARD", p) = "REJECT"
    BY <2>3, ForwardIs
  <2> QED BY <2>4 DEF p
<1>4. ASSUME NEW a \in Guests PROVE Fate("FORWARD", ToPlace(a, "public")) = "ACCEPT"
  <2> DEFINE p == ToPlace(a, "public")
  <2>1. p.dst = "public"
    BY DEF ToPlace
  <2> HIDE DEF p
  <2>2. p.dst # "gateway" /\ ~InSubnet(p) /\ p.dst # "private"
    BY <1>1, <2>1 DEF InSubnet
  <2>3. Mid("EPHEMERD-FORWARD", p) = "ACCEPT"
    BY <2>2, ForwardDecides
  <2>4. Fate("FORWARD", p) = "ACCEPT"
    BY <2>3, ForwardIs
  <2> QED BY <2>4 DEF p
<1> QED BY <1>2, <1>3, <1>4

LEMMA NothingStackedHolds == FwInv => NothingStacked
<1> SUFFICES ASSUME FwInv PROVE NothingStacked
  OBVIOUS
<1>1. ASSUME NEW i \in DOMAIN table["INPUT"], NEW j \in DOMAIN table["INPUT"], table["INPUT"][i] = table["INPUT"][j]
      PROVE  i = j
  <2> DEFINE s == table["INPUT"]
  <2>1. s \in {<<>>, <<ToDind>>, <<ToInputChain, ToDind>>, FullInputList}
    BY DEF FwInv, InputOrdered
  <2>2. CASE s \in {<<>>, <<ToDind>>}
    BY <1>1, <2>2
  <2>3. CASE s = <<ToInputChain, ToDind>>
    BY <1>1, <2>3, JumpsDiffer
  <2>4. CASE s = FullInputList
    <3> HIDE DEF s
    <3>1. PICK n \in Nat : /\ DOMAIN s = 1..(n + 2) /\ Lists(s, n, DropRules)
                           /\ s[n + 1] = ToInputChain /\ s[n + 2] = ToDind
      BY <2>4, FullInput
    <3>2. ASSUME NEW k \in 1..n PROVE s[k] \notin {ToInputChain, ToDind}
      <4>1. s[k] \in DropRules
        BY <3>1 DEF Lists
      <4>2. PICK q \in ControlPorts : s[k] = Rule(<<"port", q>>, "DROP")
        BY <4>1 DEF DropRules, PortRuleSet
      <4> QED BY <4>2, JumpsDiffer
    <3>3. i \in 1..(n + 2) /\ j \in 1..(n + 2) /\ s[i] = s[j]
      BY <1>1, <3>1 DEF s
    <3>4. CASE i \in 1..n /\ j \in 1..n
      BY <3>1, <3>3, <3>4 DEF Lists
    <3>5. CASE i \notin 1..n \/ j \notin 1..n
      <4>1. ToDind # ToInputChain
        BY JumpsDiffer
      <4> QED BY <3>1, <3>2, <3>3, <3>5, <4>1
    <3> QED BY <3>4, <3>5
  <2> QED BY <2>1, <2>2, <2>3, <2>4
<1>2. ASSUME NEW i \in DOMAIN table["FORWARD"], NEW j \in DOMAIN table["FORWARD"], table["FORWARD"][i] = table["FORWARD"][j]
      PROVE  i = j
  <2>1. table["FORWARD"] \in {<<>>, <<FromJump>>, <<ToJump, FromJump>>}
    BY DEF FwInv, ForwardOrdered
  <2> QED BY <1>2, <2>1, JumpsDiffer
<1> QED BY <1>1, <1>2 DEF NothingStacked

-----------------------------------------------------------------------------
(* For any lists of ports, any pairs of containers and any number of starts *)
(* over whatever a crashed daemon left: while jobs run the rules let        *)
(* through what the policy says and nothing else, and no rule of the host's *)
(* own chains is there twice.                                               *)
THEOREM PolicyStaysHeld == ContainersSpec => []PolicyHolds
<1>1. ContainersStart => FwInv
  BY FwStarts DEF ContainersStart, ContainersInit
<1>2. FwInv /\ [ContainersNext]_<<focus, containersVars>> => FwInv'
  <2> SUFFICES ASSUME FwInv, [ContainersNext]_<<focus, containersVars>> PROVE FwInv'
    OBVIOUS
  <2>1. [FwNext]_fwVars
    BY DEF ContainersNext, ContainersFrozen, ContainersMoves, containersVars
  <2> QED BY <2>1, FwKept
<1>3. FwInv => PolicyHolds
  BY HostPolicyHolds, ForwardPolicyHolds, NothingStackedHolds DEF PolicyHolds
<1> QED BY <1>1, <1>2, <1>3, PTL DEF ContainersSpec
=============================================================================
