------------------------------ MODULE L2Bridge ------------------------------
(***************************************************************************)
(* Windows container networking on a bridged LAN (pkg/networking:          *)
(* network_windows, l2bridge, firewall_windows): the address plan resolved *)
(* from the adapter and the configuration, the allocator that hands out    *)
(* its pool, the HNS endpoints made and deleted with those addresses (they *)
(* outlive the daemon), the ACL ladder of an endpoint and the per-job      *)
(* inbound allows of the host firewall.  Addresses are AddrBits wide.      *)
(***************************************************************************)
EXTENDS Integers, FiniteSets, FiniteSetsExt

CONSTANTS Endpoints,  \* container ids
          AddrBits,   \* width of an address
          HostAddr,   \* the adapter's address
          Router,     \* the LAN's default gateway
          PoolSpecs,  \* ip_pool as written: [base, ones] or [lo, hi]
          LanOnes,    \* prefix length of the bridged LAN
          MaxHcnErrs, \* bound on HNS and netsh calls that fail
          MaxKills    \* bound on hard kills of the daemon

ASSUME L2BridgeAssumption ==
    /\ AddrBits \in Nat \ {0} /\ LanOnes \in 0 .. AddrBits
    /\ HostAddr \in 0 .. 2^AddrBits - 1 /\ Router \in 0 .. 2^AddrBits - 1
    /\ MaxHcnErrs \in Nat /\ MaxKills \in Nat

NoIP == -1
VARIABLES plan,     \* l2BridgePlan: the pool and host access, or none
          wAt,      \* endpoint -> "none", "up", "leaving", "gone"
          hnsEp,    \* endpoint -> the address HNS holds for it, NoIP: none
          byID,     \* ipAllocator: endpoint -> its address, NoIP: none
          reserved, \* addresses withheld: host, gateway, adopted endpoints
          allows,   \* host-firewall allows: [addr, job]
          hcnErrs, kills

l2Vars == <<plan, wAt, hnsEp, byID, reserved, allows, hcnErrs, kills>>

NoPlan == [up |-> FALSE]
Masked(a, ones) == LET n == 2^(AddrBits - ones) IN (a \div n) * n

(* A CIDR as an inclusive range of addresses. *)
cidrRange(a, ones) == LET lo == Masked(a, ones) IN lo .. lo + 2^(AddrBits - ones) - 1

(* A CIDR pool loses its network and broadcast addresses unless it is too     *)
(* short to have them; a start-end range is taken as written.                 *)
parseIPPool(spec) ==
    IF "ones" \in DOMAIN spec
    THEN LET r == cidrRange(spec.base, spec.ones)
         IN IF spec.ones <= AddrBits - 2 THEN r \ {Min(r), Max(r)} ELSE r
    ELSE spec.lo .. spec.hi

\* What an operator writes as a pool parses to addresses, AddrBits wide.
ASSUME SubnetAssumption == \A s \in PoolSpecs : parseIPPool(s) \subseteq 0 .. 2^AddrBits - 1

(* resolveL2BridgePlan: the LAN is the adapter's, the gateway is on it, and   *)
(* the pool is a slice of it that holds neither the host nor the gateway.     *)
Plans ==
    LET lan == cidrRange(HostAddr, LanOnes)
    IN {[up |-> TRUE, pool |-> parseIPPool(s), hostAccess |-> h, extra |-> x] :
           s \in {t \in PoolSpecs : LET p == parseIPPool(t)
                                    IN /\ Router \in lan /\ p # {} /\ p \subseteq lan
                                       /\ HostAddr \notin p /\ Router \notin p},
           h \in BOOLEAN, x \in BOOLEAN}

L2Init ==
    /\ plan = NoPlan
    /\ wAt = [e \in Endpoints |-> "none"]
    /\ hnsEp = [e \in Endpoints |-> NoIP]
    /\ byID = [e \in Endpoints |-> NoIP]
    /\ reserved = {} /\ allows = {} /\ hcnErrs = 0 /\ kills = 0

Held(f) == {f[e] : e \in Endpoints} \ {NoIP}
HcnErrs(n) == hcnErrs + n <= MaxHcnErrs /\ hcnErrs' = hcnErrs + n

(* The addresses of the endpoints found on the network are withheld for the   *)
(* life of the process, none when they cannot be listed.                      *)
adoptExistingEndpoints == Held(hnsEp)

(* A daemon starts: the plan, the allocator, the network found or made. *)
initL2Bridge ==
    /\ ~plan.up
    /\ plan' \in Plans
    /\ \/ reserved' = {HostAddr, Router} \cup adoptExistingEndpoints /\ UNCHANGED hcnErrs
       \/ reserved' = {HostAddr, Router} /\ HcnErrs(1)
    /\ wAt' = [e \in Endpoints |-> IF hnsEp[e] = NoIP THEN "none" ELSE "gone"]
    /\ UNCHANGED <<hnsEp, byID, allows, kills>>

Candidates == plan.pool \ (reserved \cup Held(byID))

(* The lowest free address, NoIP when the pool is exhausted. *)
allocate == IF Candidates = {} THEN NoIP ELSE Min(Candidates)

(* What an endpoint's teardown or a failed set-up does to HNS: the endpoint is *)
(* deleted, or the call fails and it stays with its address.                   *)
EndpointGoes(e) ==
    \/ hnsEp' = [hnsEp EXCEPT ![e] = NoIP] /\ UNCHANGED hcnErrs
    \/ HcnErrs(1) /\ UNCHANGED hnsEp

windowsSetup_Strands(e) ==
    /\ plan.up /\ wAt[e] = "none" /\ allocate # NoIP /\ HcnErrs(1)
    /\ wAt' = [wAt EXCEPT ![e] = "gone"] /\ byID' = [byID EXCEPT ![e] = allocate]
    /\ UNCHANGED <<plan, hnsEp, reserved, allows, kills>>

(* setup runs under the mutex: an address, the endpoint with it (HNS refuses  *)
(* one that is taken), the ACLs, the namespace.  What fails gives back the    *)
(* address, and deletes the endpoint when there is one.                       *)
windowsSetup(e) ==
    LET ip == allocate
    IN /\ plan.up /\ wAt[e] = "none"
       /\ \/ /\ ip # NoIP /\ ip \notin Held(hnsEp)
             /\ wAt' = [wAt EXCEPT ![e] = "up"]
             /\ byID' = [byID EXCEPT ![e] = ip] /\ hnsEp' = [hnsEp EXCEPT ![e] = ip]
             /\ UNCHANGED hcnErrs
          \/ /\ ip = NoIP \/ ip \in Held(hnsEp)
             /\ wAt' = [wAt EXCEPT ![e] = "gone"] /\ UNCHANGED <<byID, hnsEp, hcnErrs>>
          \/ /\ ip # NoIP /\ ip \notin Held(hnsEp) /\ wAt' = [wAt EXCEPT ![e] = "gone"]
             /\ \/ HcnErrs(1) /\ UNCHANGED hnsEp
                \/ HcnErrs(2) /\ hnsEp' = [hnsEp EXCEPT ![e] = ip]
             /\ UNCHANGED byID
       /\ UNCHANGED <<plan, reserved, allows, kills>>

(* The allow for one container's /32. *)
hostPortAllowRule(e) == [addr |-> byID[e], job |-> e]

(* When netsh fails the job is refused.    *)
windowsOpenHostPort(e) ==
    /\ plan.up /\ wAt[e] = "up" /\ ~\E r \in allows : r.job = e
    /\ \/ allows' = allows \cup {hostPortAllowRule(e)} /\ UNCHANGED hcnErrs
       \/ HcnErrs(1) /\ UNCHANGED allows
    /\ UNCHANGED <<plan, wAt, hnsEp, byID, reserved, kills>>

(* The pool address goes back whatever happens to the endpoint. *)
windowsTeardown(e) ==
    /\ plan.up /\ wAt[e] = "up" /\ wAt' = [wAt EXCEPT ![e] = "leaving"]
    /\ byID' = [byID EXCEPT ![e] = NoIP]
    /\ EndpointGoes(e)
    /\ UNCHANGED <<plan, reserved, allows, kills>>

(* The dind server stops after the network is gone and closes its port. *)
windowsCloseHostPort(e) ==
    /\ plan.up /\ wAt[e] = "leaving" /\ wAt' = [wAt EXCEPT ![e] = "gone"]
    /\ \/ allows' = {r \in allows : r.job # e} /\ UNCHANGED hcnErrs
       \/ HcnErrs(1) /\ UNCHANGED allows
    /\ UNCHANGED <<plan, hnsEp, byID, reserved, kills>>

(* A clean stop, with no job left: the allows are swept by their prefix. *)
removeL2BridgeFirewallRules ==
    /\ plan.up /\ \A e \in Endpoints : wAt[e] \in {"none", "gone"}
    /\ plan' = NoPlan /\ allows' = {} /\ byID' = [e \in Endpoints |-> NoIP] /\ reserved' = {}
    /\ UNCHANGED <<wAt, hnsEp, hcnErrs, kills>>

(* A hard kill: the allocator dies with the process, HNS and the firewall keep. *)
Killed ==
    /\ plan.up /\ kills < MaxKills /\ kills' = kills + 1
    /\ plan' = NoPlan /\ byID' = [e \in Endpoints |-> NoIP] /\ reserved' = {}
    /\ UNCHANGED <<wAt, hnsEp, allows, hcnErrs>>

L2Next == \/ initL2Bridge \/ removeL2BridgeFirewallRules \/ Killed
          \/ \E e \in Endpoints : windowsSetup(e) \/ windowsOpenHostPort(e) \/ windowsTeardown(e) \/ windowsCloseHostPort(e)
L2Spec == L2Init /\ [][L2Next]_l2Vars

----------------------------------------------------------------------------
(* The ladder applied to an endpoint: <<priority, matches, action>>, the      *)
(* lowest number first.  Destinations: the host, an operator's carve-out, the *)
(* rest of the private ranges, the internet.                                  *)
Destinations == {"host", "extra", "private", "public"}
buildL2BridgeEgressACLPolicies ==
    {<<200, {"host", "extra", "private"}, "block">>, <<65500, Destinations, "allow">>}
    \cup (IF plan.hostAccess THEN {<<100, {"host"}, "allow">>} ELSE {})
    \cup (IF plan.extra THEN {<<150, {"extra"}, "allow">>} ELSE {})
Egress(dst) ==
    LET hit == {r \in buildL2BridgeEgressACLPolicies : dst \in r[2]}
    IN (CHOOSE r \in hit : \A q \in hit : r[1] <= q[1])[3]

L2TypeOK ==
    /\ plan = NoPlan \/ plan \in Plans
    /\ wAt \in [Endpoints -> {"none", "up", "leaving", "gone"}]
    /\ hnsEp \in [Endpoints -> 0 .. 2^AddrBits - 1 \cup {NoIP}]
    /\ byID \in [Endpoints -> 0 .. 2^AddrBits - 1 \cup {NoIP}]
    /\ hcnErrs \in 0 .. MaxHcnErrs /\ kills \in 0 .. MaxKills

(* A running container's address is of the pool, so it is neither the host's  *)
(* nor the gateway's, and no other endpoint, a dead daemon's included, has it. *)
AddressOwned ==
    plan.up => \A e \in Endpoints : wAt[e] = "up" =>
        /\ byID[e] = hnsEp[e] /\ byID[e] \in plan.pool \ {HostAddr, Router}
        /\ \A f \in Endpoints \ {e} : hnsEp[f] # byID[e]

(* The allocator holds an address for a running container only: every path    *)
(* out of setup and teardown gives it back.                                   *)
NothingStranded == \A e \in Endpoints : byID[e] # NoIP => wAt[e] = "up"

(* While no call failed, the address offered next is not one HNS would        *)
(* refuse: a restart over leftover endpoints withholds theirs.                *)
OfferIsFree == (plan.up /\ hcnErrs = 0) => allocate \notin Held(hnsEp)

(* The ladder: private addresses are closed but for the host, when something  *)
(* it serves must be reached, and the operator's carve-outs.                  *)
EgressClosed ==
    plan.up => /\ Egress("private") = "block" /\ Egress("public") = "allow"
               /\ Egress("host") = (IF plan.hostAccess THEN "allow" ELSE "block")
               /\ Egress("extra") = (IF plan.extra THEN "allow" ELSE "block")
=============================================================================
