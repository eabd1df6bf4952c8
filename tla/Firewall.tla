------------------------------ MODULE Firewall ------------------------------
(***************************************************************************)
(* The iptables rules of a Linux node (pkg/networking/firewall_linux.go):  *)
(* the chains as ordered lists of rules, written command by command at     *)
(* start-up over whatever the previous daemon left, added to while jobs    *)
(* run, and removed at shutdown.  A packet's fate is the first rule that   *)
(* decides, through the jumps, so what the properties are about is the     *)
(* ORDER the commands leave behind, on a fresh host and after a crash.     *)
(***************************************************************************)
EXTENDS Naturals, Sequences, FiniteSets, SequencesExt

CONSTANTS Guests,        \* containers on the bridge
          Twins,         \* the pairs of containers that belong to one job
          GatewayPorts,  \* the ports an operator may list
          ControlPorts,  \* containerd, dispatch and debug ports
          MaxStarts      \* bound on daemon starts

ASSUME FirewallAssumption ==
  /\ Twins \subseteq Guests \X Guests /\ MaxStarts \in Nat
  /\ IsFiniteSet(GatewayPorts) /\ IsFiniteSet(ControlPorts)
  /\ Guests \cap {"gateway", "private", "public"} = {}   \* a container is no other place

VARIABLES table,   \* chain -> its rules, in order
          fwStep,  \* the next block of installFirewallRules; 0 down, 9 serving
          inTable,  \* GatewayPorts of this start's configuration
          opened,  \* containers whose dind port is open
          starts

fwVars == <<table, fwStep, inTable, opened, starts>>

Chains == {"INPUT", "FORWARD", "EPHEMERD-FORWARD", "EPHEMERD-INPUT", "EPHEMERD-DIND", "EPHEMERD-C2C"}
Rule(m, to) == [m |-> m, to |-> to]
Jump(m, chain) == Rule(m, chain)

(* Packets: from container c to a port of the gateway, or routed to a place.   *)
ToGateway(c, port) == [from |-> c, port |-> port, dst |-> "gateway"]
ToPlace(c, dst) == [from |-> c, port |-> <<"any">>, dst |-> dst]
DindPort(c) == <<"dind", c>>
Dns == <<"dns">>
InSubnet(p) == p.dst = "gateway" \/ p.dst \in Guests

(* Only packets that open a connection: RELATED,ESTABLISHED and lo match none. *)
Matches(m, p) ==
    CASE m[1] \in {"all", "from"} -> TRUE
      [] m[1] \in {"lo", "established"} -> FALSE
      [] m[1] \in {"to", "within"} -> InSubnet(p)
      [] m[1] = "denied" -> InSubnet(p) \/ p.dst = "private"
      [] m[1] = "port" -> p.dst = "gateway" /\ p.port = m[2]
      [] m[1] = "own" -> p.dst = "gateway" /\ p.port = DindPort(m[2]) /\ p.from = m[2]
      [] m[1] = "pair" -> p.from = m[2] /\ p.dst = m[3]

(* First match, following a jump whose chain decides. *)
FirstDecided(s, Fate(_)) ==
    LET hits == {i \in DOMAIN s : Fate(s[i]) # "none"}
    IN IF hits = {} THEN "none" ELSE Fate(s[Min(hits)])
Leaf(chain, p) == FirstDecided(table[chain], LAMBDA r : IF Matches(r.m, p) THEN r.to ELSE "none")
Through(r, p, Below(_, _)) ==
    IF ~Matches(r.m, p) THEN "none" ELSE IF r.to \in Chains THEN Below(r.to, p) ELSE r.to
Mid(chain, p) == FirstDecided(table[chain], LAMBDA r : Through(r, p, Leaf))
Fate(chain, p) == FirstDecided(table[chain], LAMBDA r : Through(r, p, Mid))

----------------------------------------------------------------------------
Has(t, chain, r) == \E i \in DOMAIN t[chain] : t[chain][i] = r
OnTop(t, chain, r) == [t EXCEPT ![chain] = <<r>> \o @]
OnTopOnce(t, chain, r) == IF Has(t, chain, r) THEN t ELSE OnTop(t, chain, r)
\* -D takes the first rule that is the one given.
Without(t, chain, r) ==
    IF Has(t, chain, r) THEN [t EXCEPT ![chain] = RemoveAt(@, Min({i \in DOMAIN @ : @[i] = r}))] ELSE t
PortRules(S, to) == LET s == SetToSeq(S) IN [i \in DOMAIN s |-> Rule(<<"port", s[i]>>, to)]

ToDind == Jump(<<"all">>, "EPHEMERD-DIND")
ToInputChain == Jump(<<"from">>, "EPHEMERD-INPUT")
CrossJobDrop == Rule(<<"within">>, "DROP")

(* The jumps to the per-job dind chain go on top of INPUT and of our forward *)
(* chain, when they are not there yet.                                       *)
ensureDindChain(t) ==
    OnTopOnce(OnTopOnce(t, "INPUT", ToDind), "EPHEMERD-FORWARD", ToDind)

controlPlaneInputRules(ports) == PortRules(ports, "DROP")

(* Container to host: loopback and replies, DNS, the listed ports that are    *)
(* not control ports, and a DROP for the rest.                                *)
containerInputRules(ports) ==
    <<Rule(<<"lo">>, "ACCEPT"), Rule(<<"established">>, "ACCEPT"), Rule(<<"port", Dns>>, "ACCEPT")>>
    \o PortRules(ports \ ControlPorts, "ACCEPT") \o <<Rule(<<"all">>, "DROP")>>

(* The chain is flushed and filled before INPUT jumps to it, so a port that is  *)
(* no longer listed does not linger; the jump is inserted once.                 *)
installContainerInputChain(t) ==
    OnTopOnce([t EXCEPT !["EPHEMERD-INPUT"] = containerInputRules(inTable)], "INPUT", ToInputChain)

forwardRules_DeniesFirst(ports) ==
    <<Rule(<<"established">>, "ACCEPT"), Rule(<<"port", Dns>>, "ACCEPT")>>
    \o PortRules(ports, "ACCEPT")
    \o <<Rule(<<"denied">>, "REJECT"), Jump(<<"within">>, "EPHEMERD-C2C"), Rule(<<"all">>, "ACCEPT")>>

(* What installFirewallRules appends to EPHEMERD-FORWARD below the dind jump: *)
(* the per-job policy before the private ranges, as the subnet is one.        *)
forwardRules(ports) ==
    <<Rule(<<"established">>, "ACCEPT"), Rule(<<"port", Dns>>, "ACCEPT")>>
    \o PortRules(ports, "ACCEPT")
    \o <<Jump(<<"within">>, "EPHEMERD-C2C"), Rule(<<"denied">>, "REJECT"), Rule(<<"all">>, "ACCEPT")>>

(* installFirewallRules, block by block; the second block reads the table the *)
(* first one wrote.                                                           *)
Installed(k) ==
    CASE k = 1 -> [table EXCEPT !["EPHEMERD-FORWARD"] = <<>>]
      [] k = 2 -> OnTopOnce(table, "FORWARD", Jump(<<"from">>, "EPHEMERD-FORWARD"))
      [] k = 3 -> OnTopOnce(table, "FORWARD", Jump(<<"to">>, "EPHEMERD-FORWARD"))
      [] k = 4 -> ensureDindChain(table)
      [] k = 5 -> [table EXCEPT !["EPHEMERD-DIND"] = <<>>, !["EPHEMERD-C2C"] = <<CrossJobDrop>>]
      [] k = 6 -> [table EXCEPT !["EPHEMERD-FORWARD"] = @ \o forwardRules(inTable)]
      [] k = 7 -> installContainerInputChain(table)
      [] k = 8 -> LET absent == {q \in ControlPorts : ~Has(table, "INPUT", Rule(<<"port", q>>, "DROP"))}
                  IN [table EXCEPT !["INPUT"] = controlPlaneInputRules(absent) \o @]

FwInit == /\ table = [c \in Chains |-> <<>>] /\ fwStep = 0
          /\ inTable = {} /\ opened = {} /\ starts = 0

(* A daemon starts, with the gateway ports of its configuration. *)
StartDaemon ==
    /\ fwStep = 0 /\ starts < MaxStarts
    /\ starts' = starts + 1 /\ fwStep' = 1
    /\ \E ports \in SUBSET GatewayPorts : inTable' = ports
    /\ UNCHANGED <<table, opened>>

installFirewallRules ==
    /\ fwStep \in 1 .. 8
    /\ table' = Installed(fwStep) /\ fwStep' = fwStep + 1
    /\ UNCHANGED <<inTable, opened, starts>>

(* A command fails and Linux refuses to serve, or the daemon dies: the table  *)
(* stays as it is.                                                            *)
Dies == /\ fwStep > 0 /\ fwStep' = 0 /\ opened' = {} /\ UNCHANGED <<table, inTable, starts>>

dindPortRules(c) == <<Rule(<<"own", c>>, "ACCEPT"), Rule(<<"port", DindPort(c)>>, "DROP")>>

(* The owner's ACCEPT and the DROP behind it; when the DROP cannot be added    *)
(* the ACCEPT is rolled back.                                                  *)
openHostPort(c) ==
    /\ fwStep = 9 /\ c \notin opened
    /\ \/ table' = [ensureDindChain(table) EXCEPT !["EPHEMERD-DIND"] = @ \o dindPortRules(c)]
          /\ opened' = opened \cup {c}
       \/ table' = ensureDindChain(table) /\ UNCHANGED opened
    /\ UNCHANGED <<fwStep, inTable, starts>>

closeHostPort(c) ==
    /\ fwStep = 9 /\ c \in opened
    /\ table' = Without(Without(table, "EPHEMERD-DIND", dindPortRules(c)[1]),
                        "EPHEMERD-DIND", dindPortRules(c)[2])
    /\ opened' = opened \ {c} /\ UNCHANGED <<fwStep, inTable, starts>>

(* A container of the job joins: both directions on top of EPHEMERD-C2C. *)
c2cPairRules(a, b) ==
    /\ fwStep = 9 /\ <<a, b>> \in Twins /\ ~Has(table, "EPHEMERD-C2C", Rule(<<"pair", a, b>>, "ACCEPT"))
    /\ table' = OnTop(OnTop(table, "EPHEMERD-C2C", Rule(<<"pair", a, b>>, "ACCEPT")),
                      "EPHEMERD-C2C", Rule(<<"pair", b, a>>, "ACCEPT"))
    /\ UNCHANGED <<fwStep, inTable, opened, starts>>

(* A clean shutdown: the jumps and our chains go, and the control-port drops. *)
removeFirewallRules ==
    /\ fwStep = 9 /\ fwStep' = 0 /\ opened' = {}
    /\ table' = [c \in Chains |-> <<>>]
    /\ UNCHANGED <<inTable, starts>>

FwNext == \/ StartDaemon \/ installFirewallRules \/ Dies \/ removeFirewallRules
          \/ \E c \in Guests : openHostPort(c) \/ closeHostPort(c)
          \/ \E t \in Twins : c2cPairRules(t[1], t[2])
FwSpec == FwInit /\ [][FwNext]_fwVars

----------------------------------------------------------------------------
AllPorts == {Dns, <<"other">>} \cup GatewayPorts \cup ControlPorts \cup {DindPort(c) : c \in Guests}

FwTypeOK ==
    /\ DOMAIN table = Chains /\ fwStep \in 0 .. 9
    /\ \A c \in Chains : \A i \in DOMAIN table[c] :
          table[c][i].to \in {"ACCEPT", "DROP", "REJECT"} \cup Chains
    /\ inTable \subseteq GatewayPorts /\ opened \subseteq Guests /\ starts \in 0 .. MaxStarts

(* While jobs run, a container reaches on the host DNS and the listed ports,  *)
(* no control port, and nothing else but its own dind port, whatever an       *)
(* earlier daemon with other ports left (containerInputRules).                *)
HostPolicy ==
    fwStep = 9 => \A c \in Guests : \A port \in AllPorts \ {DindPort(c)} :
        Fate("INPUT", ToGateway(c, port)) =
            IF port \in ({Dns} \cup inTable) \ ControlPorts THEN "ACCEPT" ELSE "DROP"

(* While jobs run, what the host routes for a container: to the containers     *)
(* of its own job once they joined, to no other, to no private range, and to   *)
(* the internet (the order of rules 3 to 5 of installFirewallRules).           *)
ForwardPolicy ==
    fwStep = 9 =>
        /\ \A a, b \in Guests : a # b =>
             Fate("FORWARD", ToPlace(a, b)) =
                 IF Has(table, "EPHEMERD-C2C", Rule(<<"pair", a, b>>, "ACCEPT")) THEN "ACCEPT" ELSE "DROP"
        /\ \A a \in Guests : /\ Fate("FORWARD", ToPlace(a, "private")) = "REJECT"
                             /\ Fate("FORWARD", ToPlace(a, "public")) = "ACCEPT"

(* Restarts over a crash stack nothing: each jump and each control-port drop   *)
(* is in the host's own chains once (the check-before-add of every insert).    *)
NothingStacked ==
    \A c \in {"INPUT", "FORWARD"} : \A i, j \in DOMAIN table[c] :
        table[c][i] = table[c][j] => i = j
=============================================================================
