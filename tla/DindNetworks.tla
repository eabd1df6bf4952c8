----------------------------- MODULE DindNetworks -----------------------------
(***************************************************************************)
(* The Docker networks of one job (pkg/dind/networks.go).  They are records*)
(* only: membership is kept twice, in the network (nw.Containers) and in   *)
(* the container (entry.Networks, by name), and addresses are counted up.  *)
(* Handlers hold Server.mu throughout, except that a start writes the      *)
(* bridge's membership long after it found the container.                  *)
(*                                                                         *)
(* A network is the triple of its id, its name and its subnet; an id is    *)
(* never used twice, a name may be.                                        *)
(***************************************************************************)
EXTENDS Integers, FiniteSets

CONSTANTS
  Boxes,         \* containers
  NetIds,        \* ids of networks other than the bridge
  NetNames,      \* names that jobs give them
  Bridge,        \* the id, and the name, of the default network
  FirstOctet,    \* pickFreeSubnet: the first candidate
  LastOctet,     \* and the last; the one after it is the fallback
  MaxIP          \* a bound on the addresses given out in a network

ASSUME NetworksAssumption ==
  /\ Bridge \notin NetIds \cup NetNames
  /\ FirstOctet \in Nat /\ LastOctet \in Nat /\ FirstOctet <= LastOctet /\ MaxIP \in Nat \ {0}

VARIABLES
  boxes,       \* s.containers
  used,        \* ids given out so far
  networks,    \* s.networks: the ids that are there
  nwName,      \* nw.Name
  nwSubnet,    \* nw.Subnet: its second octet; 0 for the bridge
  nextIP,      \* nw.nextIP
  members,     \* nw.Containers: container -> address, 0 for none
  joined,      \* entry.Networks: container -> name -> <<network id, address>>
  linking,     \* starts that have found their container and not yet its address
  stale        \* history: containers whose start outlived them

netVars == <<boxes, used, networks, nwName, nwSubnet, nextIP, members, joined, linking, stale>>

Ids == NetIds \cup {Bridge}
Names == NetNames \cup {Bridge}
NotIn == <<Bridge, 0>>

NetworksTypeOK ==
  /\ boxes \subseteq Boxes /\ used \subseteq Ids /\ networks \subseteq used
  /\ nwName \in [Ids -> Names] /\ nwSubnet \in [Ids -> Nat] /\ nextIP \in [Ids -> 2..(MaxIP + 1)]
  /\ members \in [Ids -> [Boxes -> 0..MaxIP]]
  /\ joined \in [Boxes -> [Names -> Ids \X (0..MaxIP)]]
  /\ linking \subseteq Boxes /\ stale \subseteq Boxes

\* initDefaultBridgeNetwork.
NetworksInit ==
  /\ boxes = {} /\ used = {Bridge} /\ networks = {Bridge}
  /\ nwName = [n \in Ids |-> Bridge] /\ nwSubnet = [n \in Ids |-> 0]
  /\ nextIP = [n \in Ids |-> 2] /\ members = [n \in Ids |-> [b \in Boxes |-> 0]]
  /\ joined = [b \in Boxes |-> [n \in Names |-> NotIn]] /\ linking = {} /\ stale = {}

\* allocateIP: the next address of the subnet.
allocateIP(n) == nextIP[n] <= MaxIP /\ nextIP' = [nextIP EXCEPT ![n] = @ + 1]

Joins(b, n) ==
  /\ allocateIP(n)
  /\ members' = [members EXCEPT ![n][b] = nextIP[n]]
  /\ joined' = [joined EXCEPT ![b][nwName[n]] = <<n, nextIP[n]>>]

\* assignContainerNetwork, as a container is registered: the network it asks
\* for, or the bridge when that one is not there.
assignContainerNetwork(b) ==
  /\ b \notin boxes \cup stale /\ boxes' = boxes \cup {b}
  /\ \E n \in networks : Joins(b, n)
  /\ UNCHANGED <<used, networks, nwName, nwSubnet, linking, stale>>

\* pickFreeSubnet: the lowest octet no network has, or the fallback, which has
\* no check.
pickFreeSubnet ==
  LET free == {o \in FirstOctet..LastOctet : \A n \in networks : nwSubnet[n] # o}
  IN IF free = {} THEN LastOctet + 1 ELSE CHOOSE o \in free : \A p \in free : o <= p

\* handleNetworkCreate without IPAM: a name that is taken is refused.
handleNetworkCreate(n) ==
  /\ n \in NetIds \ used
  /\ \E name \in NetNames :
       /\ \A m \in networks : nwName[m] # name
       /\ nwName' = [nwName EXCEPT ![n] = name]
  /\ nwSubnet' = [nwSubnet EXCEPT ![n] = pickFreeSubnet]
  /\ used' = used \cup {n} /\ networks' = networks \cup {n}
  /\ UNCHANGED <<boxes, nextIP, members, joined, linking, stale>>

handleNetworkConnect(b, n) ==
  /\ b \in boxes /\ n \in networks
  /\ Joins(b, n)
  /\ UNCHANGED <<boxes, used, networks, nwName, nwSubnet, linking, stale>>

handleNetworkDisconnect(b, n) ==
  /\ b \in boxes /\ n \in networks
  /\ members' = [members EXCEPT ![n][b] = 0]
  /\ joined' = [joined EXCEPT ![b][nwName[n]] = NotIn]
  /\ UNCHANGED <<boxes, used, networks, nwName, nwSubnet, nextIP, linking, stale>>

\* Networks that go take their records with them.
DropNetwork(gone) ==
  /\ networks' = networks \ gone
  /\ nwName' = [n \in Ids |-> IF n \in gone THEN Bridge ELSE nwName[n]]
  /\ nwSubnet' = [n \in Ids |-> IF n \in gone THEN 0 ELSE nwSubnet[n]]
  /\ nextIP' = [n \in Ids |-> IF n \in gone THEN 2 ELSE nextIP[n]]
  /\ members' = [n \in Ids |-> IF n \in gone THEN [b \in Boxes |-> 0] ELSE members[n]]

\* handleNetworkRemove: members forget the network first.
handleNetworkRemove(n) ==
  /\ n \in networks \ {Bridge}
  /\ joined' = [b \in Boxes |-> IF members[n][b] # 0 /\ b \in boxes
                                THEN [joined[b] EXCEPT ![nwName[n]] = NotIn] ELSE joined[b]]
  /\ DropNetwork({n})
  /\ UNCHANGED <<boxes, used, linking, stale>>

Empty(n) == \A b \in Boxes : members[n][b] = 0

\* handleNetworkPrune: networks without a container go.
handleNetworkPrune ==
  /\ \E n \in networks \ {Bridge} : Empty(n)
  /\ DropNetwork({n \in networks \ {Bridge} : Empty(n)})
  /\ UNCHANGED <<boxes, used, joined, linking, stale>>

\* handleContainerStart finds its container, and later writes the address CNI
\* gave it into the bridge, whether the container is on it or not.
StartLooks(b) ==
  /\ b \in boxes \ linking
  /\ linking' = linking \cup {b}
  /\ UNCHANGED <<boxes, used, networks, nwName, nwSubnet, nextIP, members, joined, stale>>

StartWritesBridge(b) ==
  /\ b \in linking
  /\ linking' = linking \ {b}
  /\ \E ip \in 2..MaxIP :
       /\ members' = [members EXCEPT ![Bridge][b] = ip]
       /\ joined' = IF joined[b][Bridge] # NotIn THEN [joined EXCEPT ![b][Bridge] = <<Bridge, ip>>] ELSE joined
  /\ UNCHANGED <<boxes, used, networks, nwName, nwSubnet, nextIP, stale>>

\* A removed container leaves the map and every network.
removeContainerFromNetworks(b) ==
  /\ b \in boxes
  /\ boxes' = boxes \ {b}
  /\ members' = [n \in Ids |-> IF n \in networks THEN [members[n] EXCEPT ![b] = 0] ELSE members[n]]
  /\ joined' = [joined EXCEPT ![b] = [n \in Names |-> NotIn]]
  /\ stale' = stale \cup {b}
  /\ UNCHANGED <<used, networks, nwName, nwSubnet, nextIP, linking>>

NetworksNext ==
  \/ \E n \in NetIds : handleNetworkCreate(n) \/ handleNetworkRemove(n)
  \/ handleNetworkPrune
  \/ \E b \in Boxes :
       \/ assignContainerNetwork(b) \/ removeContainerFromNetworks(b)
       \/ StartLooks(b) \/ StartWritesBridge(b)
       \/ \E n \in Ids : handleNetworkConnect(b, n) \/ handleNetworkDisconnect(b, n)

NetworksSpec == NetworksInit /\ [][NetworksNext]_netVars

-----------------------------------------------------------------------------
\* The two records of membership agree on every network but the bridge, also
\* when a name is used again for a new network: a container's entry names a
\* network that is there and has it at that address, and no network lists a
\* container that is gone, which would keep prune from it for ever.
MembershipAgrees ==
  /\ \A b \in boxes, n \in networks \ {Bridge} :
       \/ members[n][b] = 0 /\ joined[b][nwName[n]][1] # n
       \/ members[n][b] # 0 /\ joined[b][nwName[n]] = <<n, members[n][b]>>
  /\ \A b \in boxes, name \in NetNames :
       joined[b][name] # NotIn => \E n \in networks : nwName[n] = name /\ joined[b][name][1] = n
  /\ \A n \in networks \ {Bridge}, b \in Boxes : members[n][b] # 0 => b \in boxes

\* Networks made without IPAM never share a subnet, up to the last octet, after
\* any order of creates, removals and prunes.
SubnetsDistinct ==
  \A m, n \in networks : m # n /\ nwSubnet[m] <= LastOctet => nwSubnet[m] # nwSubnet[n]
=============================================================================
