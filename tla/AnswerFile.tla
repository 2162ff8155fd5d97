------------------------------ MODULE AnswerFile ------------------------------
(***************************************************************************)
(* An answerfile read (AnswerFile::loadOptions), turned into the cluster   *)
(* model (Cluster::fillData), written out again (Cluster::dumpData, the    *)
(* --dump-answerfile option) and read once more from what was written.     *)
(* A key that is not in the file is None; what the file leaves out comes   *)
(* from the generic node, from a default or from the live interfaces, and  *)
(* every section can refuse the file.                                      *)
(*                                                                         *)
(* An address is "ok", "any" (0.0.0.0) or "bad" (no address); a gateway is *)
(* "in" or "out" of the subnet; a mask "ok", "zero" (0.0.0.0) or "bad".    *)
(* The operating system that answers for an interface is external.         *)
(***************************************************************************)
EXTENDS Naturals, Sequences, FiniteSets

CONSTANTS
    Answerfiles,  \* the files to start from
    Hosts,        \* [dry, head]: the --dry option and the head node's distribution
    Text          \* the values of keys

VARIABLES
    file,      \* the answerfile on disk
    env,       \* the element of Hosts
    stage,     \* the next part to read, "fill", "dump", "done" or "refused"
    round,     \* 1: the file of the operator, 2: the file that was written
    index,     \* the next node section
    nodes,     \* AnswerFile::nodes.nodes
    cluster,   \* the cluster model, NoCluster until it is filled
    first      \* the cluster model of round 1

avars == <<file, env, stage, round, index, nodes, cluster, first>>

None == "none"
NoCluster == [filled |-> FALSE]
NoName == <<>>   \* a name is <<prefix, number>>
Profiles == {"External", "Management", "Service", "Application"}
Present(f) == {p \in Profiles : f.nets[p].group}

\* The sections of an answerfile (struct AFNetwork, AFNode, AnswerFile).  No
\* address is the empty string: a key without a value is not an address, "bad".
\* The generic node has all its keys, or none counts (keys is FALSE).
Address == Text \ {""}
NetworkSections ==
    [group : BOOLEAN, iface : Text, ip : Text, mask : Text,
     gateway : {None, "any", "in", "out", "bad"}, domain : Text]
NodeSections ==
    [number : Nat, host : {NoName} \cup (Text \X Nat), mac : Text, ip : Address,
     root : Text, cpu : Text, bmc : Text, user : Text]
GenericSections ==
    [keys : BOOLEAN, scalars : Text, ip : Address \ {None}, prefix : Text, root : Text, user : Text]
Documents ==
    [nets : [Profiles -> NetworkSections], settings : BOOLEAN, distro : Text,
     provisioner : Text, repos : SUBSET SUBSET Text, ohpc : SUBSET SUBSET Text,
     generic : GenericSections, nodes : Seq(NodeSections),
     postfix : SUBSET [profile : Text, smtp : Text],
     ofed : Text, version : Text, queue : Text]

AInit ==
    /\ file \in Answerfiles /\ env \in Hosts
    /\ stage = "networks" /\ round = 1 /\ index = 1
    /\ nodes = <<>> /\ cluster = NoCluster /\ first = NoCluster

\* A part is read, or it throws and the program ends.
Read(from, accepted, to) ==
    /\ stage = from
    /\ stage' = IF accepted THEN to ELSE "refused"
    /\ UNCHANGED <<file, env, round, cluster, first>>

-------------------------------------------------------------------------------
\* validateGatewayInSubnet; under the mask 0.0.0.0 every address is inside.
GatewayFits(n) == n.gateway \in {"any", "in"} \/ n.mask = "zero"

\* convertNetworkAddressAndValidate: a key that is there has to be an address.
Parses(n) == "bad" \notin {n.ip, n.mask, n.gateway}

\* loadNetwork; the external and the management section have to be there.
Loads(n) ==
    /\ n.group /\ n.iface # None
    /\ Parses(n)
    /\ None \notin {n.ip, n.mask, n.gateway} => GatewayFits(n)

LoadNetworks ==
    /\ Read("networks",
            \A p \in Present(file) \cup {"External", "Management"} : Loads(file.nets[p]),
            "settings")
    /\ UNCHANGED <<index, nodes>>

\* loadInformation, loadTimeSettings, loadHostnameSettings: all keys are needed.
LoadSettings ==
    Read("settings", file.settings, "system") /\ UNCHANGED <<index, nodes>>

Distro(f) == IF f.distro = "alma" THEN "almalinux" ELSE f.distro
Supported == {"rocky", "almalinux", "ubuntu"}

\* loadSystemSettings: a dry run goes on without the rest of the section when
\* it does not know the distribution.  loadRepositories and loadOHPC refuse
\* nothing.
LoadSystem ==
    /\ Read("system",
            IF Distro(file) \in Supported THEN file.provisioner \in {"xcat", "confluent"}
            ELSE env.dry,
            "generic")
    /\ UNCHANGED <<index, nodes>>

\* validateGenericNodeScalars, parseUnsignedAnswerfileField
Numeric(scalars) == scalars = "ok"

\* loadNode("node"): all keys, and numbers where numbers are needed.
LoadGeneric ==
    /\ Read("generic", file.generic.keys /\ Numeric(file.generic.scalars) /\ file.generic.ip # "bad",
            "node")
    /\ index' = 1 /\ nodes' = <<>>

-------------------------------------------------------------------------------
\* validateAttribute: the node's own value, or the generic one.
Inherited(own, generic, empty) == IF own \in empty THEN generic ELSE own

\* loadNodes names a node without a hostname after the number of its section.
Hostname(n) == IF n.host # NoName THEN n.host ELSE <<file.generic.prefix, n.number>>

\* validateNode; only a node with a BMC address of its own has BMC settings.
Resolved(n) ==
    [host |-> Hostname(n), mac |-> n.mac,
     ip |-> Inherited(n.ip, file.generic.ip, {None, "any"}),
     root |-> Inherited(n.root, file.generic.root, {""}),
     cpu |-> Inherited(n.cpu, file.generic.scalars, {""}),
     bmc |-> n.bmc,
     user |-> IF n.bmc = "" THEN n.user ELSE Inherited(n.user, file.generic.user, {""})]

NodeAccepted(n) ==
    LET r == Resolved(n) IN
    /\ n.mac # None /\ n.ip # "bad"
    /\ n.host = NoName => file.generic.prefix # ""
    /\ r.ip # "any" /\ r.root # "" /\ Numeric(r.cpu)
    /\ r.bmc # "" => r.user # ""

\* The sections node.N in the order of the file; a section whose suffix is not a
\* positive number is left out.
SkipNode ==
    /\ stage = "node" /\ index <= Len(file.nodes)
    /\ file.nodes[index].number = 0
    /\ index' = index + 1
    /\ UNCHANGED <<file, env, stage, round, nodes, cluster, first>>

LoadNode ==
    /\ index <= Len(file.nodes)
    /\ LET n == file.nodes[index] IN
        /\ n.number # 0
        /\ Read("node", NodeAccepted(n), "node")
        /\ nodes' = IF NodeAccepted(n) THEN Append(nodes, Resolved(n)) ELSE nodes
    /\ index' = index + 1

\* string::lower, boost::to_lower_copy: of the spellings that validateMAC accepts of
\* one MAC address, with colons ("m1"), in upper case ("M1"), with hyphens ("m1-")
\* and in groups with dots ("m1."), it makes two the same.
LowerMac(m) == IF m = "M1" THEN "m1" ELSE m
\* rememberUniqueNodeValue: an empty value is not remembered.
Twice(values) == \E i, j \in DOMAIN values : i # j /\ values[i] = values[j] /\ values[i] # ""
SameName(ns) == \E i, j \in DOMAIN ns : i # j /\ ns[i].host = ns[j].host
Macs(ns) == [i \in DOMAIN ns |-> LowerMac(ns[i].mac)]
\* The addresses of the nodes and of their BMCs are remembered together.
AllAddresses(ns) == [x \in (DOMAIN ns) \X {"ip", "bmc"} |-> ns[x[1]][x[2]]]

\* Mutant of UniqueInventory: the addresses are compared as the file has them.
UniqueAsWritten(ns) ==
    /\ ~SameName(ns)
    /\ ~Twice(Macs(ns))
    /\ ~Twice([i \in DOMAIN ns |-> IF ns[i].ip = file.generic.ip THEN "" ELSE ns[i].ip])

\* validateNodeInventoryTopology
UniqueInventory(ns) ==
    ~SameName(ns) /\ ~Twice(Macs(ns)) /\ ~Twice(AllAddresses(ns))

CheckInventory ==
    /\ index > Len(file.nodes)
    /\ Read("node", UniqueInventory(nodes), "services")
    /\ UNCHANGED <<index, nodes>>

-------------------------------------------------------------------------------
PostfixLoads(p) == p.profile = "Local" \/ (p.profile \in {"Relay", "SASL"} /\ p.smtp = "ok")

\* normalizeOFEDKind; no section or an empty kind is the inbox stack.
OfedKind(f) ==
    CASE f.ofed \in {None, ""} -> "inbox" [] f.ofed = "mellanox" -> "doca" [] OTHER -> f.ofed
OfedVersion(f) ==
    IF f.ofed \in {None, ""} \/ f.version = "" THEN "latest" ELSE f.version

\* loadOFED
OfedLoads(f) ==
    /\ OfedKind(f) \in {"inbox", "doca", "oracle"}
    /\ f.ofed \notin {None, ""} => f.version # None

\* loadSlurm, loadPBS, validateSingleQueueSystem: at most one, with all its keys.
QueueLoads(f) == f.queue \in {None, "slurm", "pbs"}

\* The rest of loadOptions.
LoadServices ==
    /\ Read("services",
            (\A p \in file.postfix : PostfixLoads(p)) /\ OfedLoads(file) /\ QueueLoads(file),
            "fill")
    /\ UNCHANGED <<index, nodes>>

-------------------------------------------------------------------------------
\* What fillData takes for each part of a network: the answerfile's value, or
\* what it reads from the interface or puts in its place.
Live == {"External", "Service"}
Masks(p, n) == IF n.mask # None THEN {n.mask} \ {"zero"}
               ELSE IF p \in Live THEN {"ok"} ELSE {}
Gateways(p, n) == IF n.gateway # None THEN {n.gateway}
                  ELSE IF p = "Service" THEN {"any", "in", "out"} ELSE {"any"}
DomainNames(p, n) ==
    IF n.domain \notin {None, ""} THEN {n.domain}
    ELSE IF p \in Live THEN {"fetched"}
    ELSE IF p = "Application" /\ n.domain = None THEN {""} ELSE {}
Addresses(p, n) == IF n.ip # None THEN {n.ip} \ {"any"}
                   ELSE IF p = "External" THEN {"ok"} ELSE {}

Filled(p, n) ==
    IF n.iface = "gone" THEN {}
    ELSE [ip : Addresses(p, n), mask : Masks(p, n), gateway : Gateways(p, n),
          domain : DomainNames(p, n)]

\* Something has to be read from the interface, which may not have it.  A
\* missing domain of the external network is read through an empty optional.
MayThrow(p, n) ==
    p \in Live /\ (n.mask = None \/ n.domain \in {None, ""} \/ n.ip = None)

\* validateProvisionerSupport
ProvisionerFits ==
    /\ Distro(file) \in Supported
    /\ env.head = "ubuntu" /\ file.provisioner = "xcat" => Distro(file) = "ubuntu"

\* Connection::validateMAC
MacsValid == \A i \in DOMAIN nodes : nodes[i].mac \notin {"", "bad"}

\* The settings of the model: an answerfile without a queue system gets SLURM.
FilledSettings ==
    [distro |-> Distro(file), provisioner |-> file.provisioner,
     repos |-> file.repos, ohpc |-> file.ohpc, ofed |-> OfedKind(file),
     version |-> OfedVersion(file), queue |-> IF file.queue = "pbs" THEN "pbs" ELSE "slurm"]

\* A node without a BMC address has no BMC settings.
FilledNodes ==
    [i \in DOMAIN nodes |->
        [nodes[i] EXCEPT !.mac = LowerMac(@), !.user = IF nodes[i].bmc = "" THEN "" ELSE @]]

\* The end of fillData: the mail system and the values the nodes inherited from.
FilledServices == [postfix |-> file.postfix, generic |-> file.generic]

Optional(p) == IF p \in Present(file) THEN Filled(p, file.nets[p]) ELSE {NoCluster}

Fill ==
    /\ stage = "fill"
    /\ ProvisionerFits /\ MacsValid
    /\ \E ext \in Filled("External", file.nets["External"]),
          mgmt \in Filled("Management", file.nets["Management"]),
          svc \in Optional("Service"), app \in Optional("Application") :
        cluster' =
            [filled |-> TRUE, settings |-> FilledSettings, nodes |-> FilledNodes,
             services |-> FilledServices,
             nets |-> [External |-> ext, Management |-> mgmt, Service |-> svc, Application |-> app]]
    /\ stage' = IF round = 1 THEN "dump" ELSE "done"
    /\ UNCHANGED <<file, env, round, index, nodes, first>>

FillRefused ==
    /\ stage = "fill"
    /\ \/ ~ProvisionerFits \/ ~MacsValid
       \/ \E p \in Present(file) :
            Filled(p, file.nets[p]) = {} \/ MayThrow(p, file.nets[p])
    /\ stage' = "refused"
    /\ UNCHANGED <<file, env, round, index, nodes, cluster, first>>

-------------------------------------------------------------------------------
Absent == [group |-> FALSE, iface |-> None, ip |-> None, mask |-> None, gateway |-> None,
           domain |-> None]

\* dumpNetwork
DumpNetwork(n) ==
    IF n = NoCluster THEN Absent
    ELSE [group |-> TRUE, iface |-> "nic", ip |-> n.ip, mask |-> n.mask,
          gateway |-> n.gateway, domain |-> n.domain]

\* Mutant of DumpNode: the hostname is left to the number of the section.
DumpUnnamed(n, i) == [number |-> i, host |-> NoName, mac |-> n.mac, ip |-> n.ip, root |-> "",
                      cpu |-> n.cpu, bmc |-> n.bmc, user |-> IF n.bmc = "" THEN "" ELSE n.user]

\* dumpData and dumpNodes: the sections are numbered anew, and the root password
\* of a node is not written.
DumpNode(n, i) == [number |-> i, host |-> n.host, mac |-> n.mac, ip |-> n.ip, root |-> "",
                   cpu |-> n.cpu, bmc |-> n.bmc, user |-> IF n.bmc = "" THEN "" ELSE n.user]

\* dumpNodes: the numbered sections
DumpNodes(c) == [i \in DOMAIN c.nodes |-> DumpNode(c.nodes[i], i)]

\* dumpOptions: dumpInformation .. dumpSystemSettings write every key, with or
\* without a value; an empty selection of dumpRepositories and dumpOHPC is
\* written as an empty key, no selection as no section.
DumpOptions(c) ==
    [nets |-> [p \in Profiles |-> DumpNetwork(c.nets[p])],
     settings |-> TRUE, distro |-> c.settings.distro, provisioner |-> c.settings.provisioner,
     generic |-> c.services.generic, nodes |-> DumpNodes(c), postfix |-> c.services.postfix,
     ofed |-> c.settings.ofed, version |-> c.settings.version,
     repos |-> c.settings.repos, ohpc |-> c.settings.ohpc, queue |-> c.settings.queue]

\* dumpData
Dump ==
    /\ stage = "dump"
    /\ file' = DumpOptions(cluster)
    /\ first' = cluster /\ cluster' = NoCluster
    /\ stage' = "networks" /\ round' = 2 /\ index' = 1 /\ nodes' = <<>>
    /\ UNCHANGED env

ANext ==
    \/ LoadNetworks \/ LoadSettings \/ LoadSystem \/ LoadGeneric
    \/ SkipNode \/ LoadNode \/ CheckInventory \/ LoadServices
    \/ Fill \/ FillRefused \/ Dump

-------------------------------------------------------------------------------
\* The MAC address behind a spelling, and what its digits are separated with.
Device(m) == IF m \in {"m1", "M1", "m1-", "m1."} THEN "m1" ELSE m
Separator(m) == CASE m = "m1-" -> "-" [] m = "m1." -> "." [] OTHER -> ":"

\* The nodes of a filled model differ in name and in address, and no node has the
\* address of a BMC: two sections that are different in the file can become equal
\* by what they inherit from the generic node or by the name made of the section's
\* number.  They differ in MAC address too, in upper or lower case, unless one
\* address is spelt with two separators: the check compares text, so a MAC address
\* with colons and the same with hyphens are accepted as two.
InventoryIsUnique ==
    cluster # NoCluster =>
        \A i, j \in DOMAIN cluster.nodes :
            LET m == cluster.nodes[i]
                n == cluster.nodes[j]
            IN  /\ m.ip # n.bmc
                /\ i # j => /\ m.host # n.host /\ m.ip # n.ip
                            /\ Device(m.mac) = Device(n.mac) => Separator(m.mac) # Separator(n.mac)
                            /\ m.bmc = n.bmc => m.bmc = ""

\* What the second read refuses: a gateway read from the wire that is not in the
\* subnet of the interface, an application network without a domain, which is
\* written as an empty one, and nodes with root passwords of their own, which
\* are not written, beside an empty generic one.
Unreadable(c) ==
    \/ \E p \in Profiles :
        /\ c.nets[p] # NoCluster
        /\ c.nets[p].gateway = "out" \/ c.nets[p].domain = ""
    \/ c.services.generic.root = "" /\ c.nodes # <<>>

WithoutRoot(c) == [c EXCEPT !.nodes = [i \in DOMAIN @ |-> [@[i] EXCEPT !.root = ""]]]

\* A cluster that is written out by --dump-answerfile is read back, needs nothing
\* more from the interfaces, and is the same cluster, down to the names of nodes
\* whose sections were numbered differently; only the root passwords of single
\* nodes become the generic one.
DumpedClusterReturns ==
    round = 2 /\ ~Unreadable(first) =>
        /\ stage # "refused"
        /\ stage = "done" => WithoutRoot(cluster) = WithoutRoot(first)
===============================================================================
