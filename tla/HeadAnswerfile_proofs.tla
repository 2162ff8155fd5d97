----------------------- MODULE HeadAnswerfile_proofs -----------------------
(***************************************************************************)
(* Proofs about the answerfile of HeadNode, for every answerfile: what is  *)
(* accepted is a cluster of distinct nodes, and what is written out is     *)
(* read back as the same cluster.                                          *)
(***************************************************************************)
EXTENDS HeadNode, TLAPS

Reading == {"networks", "settings", "system", "generic", "node", "services", "fill"}

\* A node as loadNodes leaves it, and one that validateNode accepted beside the
\* generic node g.
LoadedNodes ==
    [host : Text \X Nat, mac : Text, ip : A!Address, root : Text, cpu : Text,
     bmc : Text, user : Text]
AcceptedNode(n, g) ==
    /\ n.mac # "none" /\ n.ip \notin {"bad", "any"}
    /\ n.ip = "none" => g.ip = "none"
    /\ n.cpu = "ok"
    /\ n.bmc # "" => n.user # ""
AcceptedGeneric(g) == g.keys /\ g.scalars = "ok" /\ g.ip # "bad"

FileType ==
    /\ file \in A!Documents /\ nodes \in Seq(LoadedNodes) /\ nodeIndex \in Nat \ {0}
    /\ round \in {1, 2} /\ fileStage \in Reading \cup {"dump", "done", "refused"}

\* What each part of loadOptions makes sure of.
NetworksLoad ==
    \A p \in A!Present(file) \cup {"External", "Management"} : A!Loads(file.nets[p])
SystemLoads == A!Distro(file) \in A!Supported => file.provisioner \in {"xcat", "confluent"}
GenericLoads == AcceptedGeneric(file.generic)
NodesLoad == \A i \in 1..Len(nodes) : AcceptedNode(nodes[i], file.generic)
ServicesLoad ==
    (\A p \in file.postfix : A!PostfixLoads(p)) /\ A!OfedLoads(file) /\ A!QueueLoads(file)

ReadInv ==
    /\ fileStage \in Reading \ {"networks"} => NetworksLoad
    /\ fileStage \in {"generic", "node", "services", "fill"} => SystemLoads
    /\ fileStage \in {"node", "services", "fill"} => GenericLoads /\ NodesLoad
    /\ fileStage \in {"services", "fill"} => A!UniqueInventory(nodes)
    /\ fileStage = "fill" => ServicesLoad

\* What fillData makes of an accepted file.
FilledNetworks ==
    [ip : Text \ {"none", "any", "bad"}, mask : Text \ {"none", "zero", "bad"},
     gateway : {"any", "in", "out"}, domain : Text \ {"none"}]
FilledSections ==
    [distro : A!Supported, provisioner : {"xcat", "confluent"}, repos : SUBSET SUBSET Text,
     ohpc : SUBSET SUBSET Text, ofed : {"inbox", "doca", "oracle"},
     version : Text \ {"none", ""}, queue : {"slurm", "pbs"}]
FilledServices ==
    [postfix : SUBSET [profile : Text, smtp : Text], generic : A!GenericSections]
Clusters ==
    [filled : {TRUE}, settings : FilledSections, nodes : Seq(LoadedNodes),
     services : FilledServices, nets : [A!Profiles -> FilledNetworks \cup {A!NoCluster}]]

\* No two nodes can be taken for each other.
Distinct(ns) ==
    \A i, j \in 1..Len(ns) :
        /\ ns[i].ip # ns[j].bmc
        /\ i # j => /\ ns[i].host # ns[j].host /\ A!LowerMac(ns[i].mac) # A!LowerMac(ns[j].mac)
                    /\ ns[i].ip # ns[j].ip
                    /\ ns[i].bmc = ns[j].bmc => ns[i].bmc = ""

\* A cluster model that fillData can produce on a head node with distribution h.
FilledCluster(c, h) ==
    /\ c \in Clusters
    /\ c.nets["External"] # A!NoCluster /\ c.nets["Management"] # A!NoCluster
    /\ h = "ubuntu" /\ c.settings.provisioner = "xcat" => c.settings.distro = "ubuntu"
    /\ AcceptedGeneric(c.services.generic)
    /\ \A p \in c.services.postfix : A!PostfixLoads(p)
    /\ \A i \in 1..Len(c.nodes) :
          /\ AcceptedNode(c.nodes[i], c.services.generic)
          /\ c.nodes[i].mac \notin {"", "bad", "M1"}
          /\ c.nodes[i].bmc = "" => c.nodes[i].user = ""
    /\ Distinct(c.nodes)

ClusterInv ==
    /\ cluster # A!NoCluster => FilledCluster(cluster, env.head)
    /\ cluster # A!NoCluster <=> fileStage \in {"dump", "done"}
    /\ round = 2 => FilledCluster(first, env.head) /\ file = A!DumpOptions(first)

\* What a node of the written file is read as: its root password is the generic one.
ReadBack(n, g) == [n EXCEPT !.root = g.root]

\* The second read, of a file that was written and can be read, and the nodes
\* that were read back and filled.
Returning == round = 2 /\ ~A!Unreadable(first)
ReadNodes ==
    \A i \in 1..Len(nodes) : nodes[i] = ReadBack(first.nodes[i], first.services.generic)
SameNodes ==
    /\ Len(cluster.nodes) = Len(first.nodes)
    /\ \A i \in 1..Len(first.nodes) :
          cluster.nodes[i] = ReadBack(first.nodes[i], first.services.generic)
SameSections ==
    /\ cluster.settings = first.settings /\ cluster.services = first.services
    /\ cluster.nets = first.nets

\* The second read follows the first cluster.
ReturnInv ==
    Returning =>
        /\ fileStage \notin {"dump", "refused"}
        /\ fileStage \in {"node", "services", "fill"} =>
            /\ nodeIndex = Len(nodes) + 1 /\ Len(nodes) <= Len(first.nodes)
            /\ ReadNodes
        /\ fileStage \in {"services", "fill"} => Len(nodes) = Len(first.nodes)
        /\ fileStage = "done" => SameSections /\ SameNodes

AnswerfileInv == FileType /\ ReadInv /\ ClusterInv /\ ReturnInv
-----------------------------------------------------------------------------
LEMMA OnePart ==
    [Next]_vars => which' = which /\ (which = "answerfile" => A!ANext \/ UNCHANGED fileVars)
BY DEF Next, ConfigureNetwork, ConfigureSlurm, ConfigureRepositories, InstallOfed,
       ReadAnswerfile, SetUpXcat, vars

\* A node section and the generic node give a node with a name.
LEMMA ResolvedType ==
    ASSUME file \in A!Documents, NEW n \in A!NodeSections
    PROVE  A!Resolved(n) \in LoadedNodes
<1>1. file.generic \in A!GenericSections
  BY DEF A!Documents
<1>2. A!Hostname(n) \in Text \X Nat
  BY <1>1 DEF A!Hostname, A!NodeSections, A!GenericSections, A!NoName
<1> QED BY <1>1, <1>2 DEF A!Resolved, A!Inherited, LoadedNodes, A!NodeSections, A!GenericSections

LEMMA ResolvedAccepted ==
    ASSUME NEW n, A!NodeAccepted(n), AcceptedGeneric(file.generic)
    PROVE  AcceptedNode(A!Resolved(n), file.generic)
BY DEF A!NodeAccepted, AcceptedGeneric, AcceptedNode, A!Resolved, A!Inherited, A!Numeric, A!None

\* The sections of the file.
LEMMA FileSection ==
    ASSUME file \in A!Documents, NEW i \in Nat \ {0}, i <= Len(file.nodes)
    PROVE  file.nodes[i] \in A!NodeSections
BY DEF A!Documents

-----------------------------------------------------------------------------
\* Pairs are known by their parts.
LEMMA PairParts ==
    ASSUME NEW U, NEW V
    PROVE  \A x, y \in U \X V :
               /\ x[1] \in U /\ x[2] \in V /\ y[1] \in U /\ y[2] \in V
               /\ x # y => x[1] # y[1] \/ x[2] # y[2]
OBVIOUS

LEMMA PairIsNotEmpty ==
    ASSUME NEW U, NEW V, NEW x \in U \X V
    PROVE  x # <<>>
<1>1. PICK a \in U, b \in V : x = <<a, b>>
  OBVIOUS
<1>2. Len(<<a, b>>) = 2 /\ Len(<<>>) = 0
  OBVIOUS
<1> QED BY <1>1, <1>2

LEMMA SeqOf ==
    ASSUME NEW U, NEW s \in Seq(U)
    PROVE  DOMAIN s = 1..Len(s) /\ Len(s) \in Nat /\ \A i \in 1..Len(s) : s[i] \in U
OBVIOUS

\* validateNodeInventoryTopology tells the nodes apart.
LEMMA UniqueIsDistinct ==
    ASSUME NEW ns \in Seq(LoadedNodes), A!UniqueInventory(ns),
           \A i \in 1..Len(ns) : ns[i].mac # ""
    PROVE  Distinct(ns)
<1>1. DOMAIN ns = 1..Len(ns) /\ \A i \in 1..Len(ns) : ns[i].ip # ""
  <2>1. \A n \in LoadedNodes : n.ip # ""
    BY DEF LoadedNodes, A!Address
  <2>2. DOMAIN ns = 1..Len(ns) /\ \A i \in 1..Len(ns) : ns[i] \in LoadedNodes
    BY SeqOf
  <2> QED BY <2>1, <2>2
<1> DEFINE all == A!AllAddresses(ns)
<1>2. /\ DOMAIN all = (1..Len(ns)) \X {"ip", "bmc"}
      /\ \A i \in 1..Len(ns) : all[<<i, "ip">>] = ns[i].ip /\ all[<<i, "bmc">>] = ns[i].bmc
  BY <1>1 DEF A!AllAddresses
<1>3. \A x, y \in DOMAIN all : x # y /\ all[x] = all[y] => all[x] = ""
  BY DEF A!UniqueInventory, A!Twice
<1> HIDE DEF all
<1>4. \A i, j \in 1..Len(ns) : ns[i].ip # ns[j].bmc
  <2> SUFFICES ASSUME NEW i \in 1..Len(ns), NEW j \in 1..Len(ns), ns[i].ip = ns[j].bmc
               PROVE  FALSE
    OBVIOUS
  <2>1. <<i, "ip">> \in DOMAIN all /\ <<j, "bmc">> \in DOMAIN all /\ <<i, "ip">> # <<j, "bmc">>
    BY <1>2
  <2> QED BY <1>1, <1>2, <1>3, <2>1
<1>5. \A i, j \in 1..Len(ns) : i # j => ns[i].ip # ns[j].ip
  <2> SUFFICES ASSUME NEW i \in 1..Len(ns), NEW j \in 1..Len(ns), i # j, ns[i].ip = ns[j].ip
               PROVE  FALSE
    OBVIOUS
  <2>1. <<i, "ip">> \in DOMAIN all /\ <<j, "ip">> \in DOMAIN all /\ <<i, "ip">> # <<j, "ip">>
    BY <1>2
  <2> QED BY <1>1, <1>2, <1>3, <2>1
<1>6. \A i, j \in 1..Len(ns) : i # j /\ ns[i].bmc = ns[j].bmc => ns[i].bmc = ""
  <2> SUFFICES ASSUME NEW i \in 1..Len(ns), NEW j \in 1..Len(ns), i # j, ns[i].bmc = ns[j].bmc
               PROVE  ns[i].bmc = ""
    OBVIOUS
  <2>1. <<i, "bmc">> \in DOMAIN all /\ <<j, "bmc">> \in DOMAIN all /\ <<i, "bmc">> # <<j, "bmc">>
    BY <1>2
  <2> QED BY <1>2, <1>3, <2>1
<1>7. \A i, j \in 1..Len(ns) : i # j => ns[i].host # ns[j].host
  BY <1>1 DEF A!UniqueInventory, A!SameName
<1>8. \A i, j \in 1..Len(ns) : i # j => A!LowerMac(ns[i].mac) # A!LowerMac(ns[j].mac)
  <2>1. \A i, j \in 1..Len(ns) : i # j /\ A!LowerMac(ns[i].mac) = A!LowerMac(ns[j].mac)
            => A!LowerMac(ns[i].mac) = ""
    BY <1>1 DEF A!UniqueInventory, A!Twice, A!Macs
  <2>2. \A i \in 1..Len(ns) : A!LowerMac(ns[i].mac) # ""
    BY DEF A!LowerMac
  <2> QED BY <2>1, <2>2
<1> QED BY <1>4, <1>5, <1>6, <1>7, <1>8 DEF Distinct

\* A list in which no value stands twice.
LEMMA ListedOnce ==
    ASSUME NEW U, NEW f, DOMAIN f = U, \A i, j \in U : i # j => f[i] # f[j]
    PROVE  ~A!Twice(f)
BY DEF A!Twice

\* Nodes that are told apart pass validateNodeInventoryTopology.
LEMMA DistinctIsUnique ==
    ASSUME NEW ns \in Seq(LoadedNodes), Distinct(ns)
    PROVE  A!UniqueInventory(ns)
<1>1. DOMAIN ns = 1..Len(ns)
  OBVIOUS
<1>2. ~A!SameName(ns)
  BY <1>1 DEF A!SameName, Distinct
<1>3. ~A!Twice(A!Macs(ns))
  <2> DEFINE macs == A!Macs(ns)
             U == 1..Len(ns)
  <2>1. DOMAIN macs = U /\ \A i \in U : macs[i] = A!LowerMac(ns[i].mac)
    BY <1>1 DEF A!Macs
  <2>2. \A i, j \in U : i # j => A!LowerMac(ns[i].mac) # A!LowerMac(ns[j].mac)
    BY DEF Distinct
  <2> HIDE DEF macs, U
  <2>3. \A i, j \in U : i # j => macs[i] # macs[j]
    BY <2>1, <2>2
  <2>4. ~A!Twice(macs)
    BY <2>1, <2>3, ListedOnce
  <2> QED BY <2>4 DEF macs
<1>4. ~A!Twice(A!AllAddresses(ns))
  <2> DEFINE all == A!AllAddresses(ns)
             U == 1..Len(ns)
             V == {"ip", "bmc"}
             D == U \X V
  <2>1. DOMAIN all = D /\ \A x \in D : all[x] = ns[x[1]][x[2]]
    BY <1>1 DEF A!AllAddresses
  <2>2. ASSUME NEW i \in U, NEW j \in U, NEW k \in V, NEW l \in V, i # j \/ k # l,
               ns[i][k] = ns[j][l]
        PROVE  ns[i][k] = ""
    BY <2>2 DEF Distinct
  <2> HIDE DEF all, U, V, D
  <2>3. \A x, y \in D :
            /\ x[1] \in U /\ x[2] \in V /\ y[1] \in U /\ y[2] \in V
            /\ x # y => x[1] # y[1] \/ x[2] # y[2]
    BY PairParts DEF D
  <2>4. ASSUME NEW x \in D, NEW y \in D, x # y, all[x] = all[y]
        PROVE  all[x] = ""
    <3>1. /\ x[1] \in U /\ x[2] \in V /\ y[1] \in U /\ y[2] \in V
          /\ x[1] # y[1] \/ x[2] # y[2]
      BY <2>3, <2>4
    <3>2. ns[x[1]][x[2]] = ns[y[1]][y[2]] /\ all[x] = ns[x[1]][x[2]]
      BY <2>1, <2>4
    <3> DEFINE i == x[1]
               j == y[1]
               k == x[2]
               l == y[2]
    <3> HIDE DEF i, j, k, l
    <3>3. i \in U /\ j \in U /\ k \in V /\ l \in V /\ (i # j \/ k # l) /\ ns[i][k] = ns[j][l]
      BY <3>1, <3>2 DEF i, j, k, l
    <3>4. ns[i][k] = ""
      BY <2>2, <3>3
    <3> QED BY <3>2, <3>4 DEF i, k
  <2>5. ~A!Twice(all)
    BY <2>1, <2>4 DEF A!Twice
  <2> QED BY <2>5 DEF all
<1> QED BY <1>2, <1>3, <1>4 DEF A!UniqueInventory
-----------------------------------------------------------------------------
\* A function on 1..n is a sequence.
LEMMA FunctionSeq ==
    ASSUME NEW U, NEW n \in Nat, NEW f \in [1..n -> U]
    PROVE  f \in Seq(U) /\ Len(f) = n
OBVIOUS

\* The nodes of a cluster are written as sections 1, 2, ... of the file.
LEMMA DumpedNodes ==
    ASSUME NEW c, c.nodes \in Seq(LoadedNodes)
    PROVE  /\ A!DumpNodes(c) \in Seq(A!NodeSections)
           /\ Len(A!DumpNodes(c)) = Len(c.nodes)
           /\ \A i \in 1..Len(c.nodes) : A!DumpNodes(c)[i] = A!DumpNode(c.nodes[i], i)
<1>1. DOMAIN c.nodes = 1..Len(c.nodes) /\ Len(c.nodes) \in Nat
      /\ \A i \in 1..Len(c.nodes) : c.nodes[i] \in LoadedNodes
  BY SeqOf
<1>2. \A n \in LoadedNodes : \A i \in Nat : A!DumpNode(n, i) \in A!NodeSections
  <2> SUFFICES ASSUME NEW n \in LoadedNodes, NEW i \in Nat
               PROVE  A!DumpNode(n, i) \in A!NodeSections
    OBVIOUS
  <2>1. /\ n.host \in Text \X Nat /\ n.mac \in Text /\ n.ip \in A!Address
        /\ n.cpu \in Text /\ n.bmc \in Text /\ n.user \in Text
    BY DEF LoadedNodes
  <2>2. (IF n.bmc = "" THEN "" ELSE n.user) \in Text /\ "" \in Text
    BY <2>1, TextAssumption
  <2> QED BY <2>1, <2>2, Zenon DEF A!DumpNode, A!NodeSections
<1>3. A!DumpNodes(c) \in [1..Len(c.nodes) -> A!NodeSections]
  BY <1>1, <1>2 DEF A!DumpNodes
<1> QED BY <1>1, <1>3, FunctionSeq DEF A!DumpNodes

\* dumpNetwork
LEMMA DumpedNetwork ==
    ASSUME NEW n \in FilledNetworks \cup {A!NoCluster}
    PROVE  /\ A!DumpNetwork(n) \in A!NetworkSections
           /\ A!DumpNetwork(n).group <=> n # A!NoCluster
           /\ n # A!NoCluster =>
                /\ n \in FilledNetworks
                /\ A!DumpNetwork(n).iface = "nic" /\ A!DumpNetwork(n).ip = n.ip
                /\ A!DumpNetwork(n).mask = n.mask /\ A!DumpNetwork(n).gateway = n.gateway
                /\ A!DumpNetwork(n).domain = n.domain
<1>1. CASE n = A!NoCluster
  <2>1. A!DumpNetwork(n) = A!Absent
    BY <1>1 DEF A!DumpNetwork
  <2>2. A!None \in {A!None, "any", "in", "out", "bad"} /\ A!None \in Text
    BY TextAssumption DEF A!None
  <2>3. A!Absent \in A!NetworkSections
    BY <2>2, Zenon DEF A!Absent, A!NetworkSections
  <2>4. A!Absent.group = FALSE
    BY DEF A!Absent
  <2> QED BY <1>1, <2>1, <2>3, <2>4
<1>2. CASE n # A!NoCluster
  <2>1. n \in FilledNetworks
    BY <1>2
  <2> DEFINE d == [group |-> TRUE, iface |-> "nic", ip |-> n.ip, mask |-> n.mask,
                   gateway |-> n.gateway, domain |-> n.domain]
  <2>2. A!DumpNetwork(n) = d
    BY <1>2 DEF A!DumpNetwork
  <2>3. /\ n.ip \in Text /\ n.mask \in Text /\ n.domain \in Text
        /\ n.gateway \in {A!None, "any", "in", "out", "bad"} /\ "nic" \in Text
    BY <2>1, TextAssumption DEF FilledNetworks
  <2>4. d \in A!NetworkSections
    BY <2>3, Zenon DEF A!NetworkSections
  <2>5. /\ d.group = TRUE /\ d.iface = "nic" /\ d.ip = n.ip /\ d.mask = n.mask
        /\ d.gateway = n.gateway /\ d.domain = n.domain
    OBVIOUS
  <2> HIDE DEF d
  <2> QED BY <1>2, <2>1, <2>2, <2>4, <2>5
<1> QED BY <1>1, <1>2

LEMMA DumpedDocument ==
    ASSUME NEW c \in Clusters
    PROVE  A!DumpOptions(c) \in A!Documents
<1>1. A!DumpNodes(c) \in Seq(A!NodeSections)
  BY DumpedNodes DEF Clusters
<1>2. [p \in A!Profiles |-> A!DumpNetwork(c.nets[p])] \in [A!Profiles -> A!NetworkSections]
  BY DumpedNetwork DEF Clusters
<1>3. c.settings \in FilledSections /\ c.services \in FilledServices
  BY DEF Clusters
<1>4. /\ c.settings.distro \in Text /\ c.settings.provisioner \in Text
      /\ c.settings.repos \in SUBSET SUBSET Text /\ c.settings.ohpc \in SUBSET SUBSET Text
      /\ c.settings.ofed \in Text /\ c.settings.version \in Text /\ c.settings.queue \in Text
  BY <1>3, TextAssumption DEF FilledSections, A!Supported
<1>5. /\ c.services.generic \in A!GenericSections
      /\ c.services.postfix \in SUBSET [profile : Text, smtp : Text]
  BY <1>3 DEF FilledServices
<1> QED BY <1>1, <1>2, <1>4, <1>5, Zenon DEF A!DumpOptions, A!Documents

LEMMA FileInit == A!AInit => AnswerfileInv
<1> SUFFICES ASSUME A!AInit
             PROVE  AnswerfileInv
  OBVIOUS
<1> USE DEF A!AInit
<1>1. FileType
  BY AnswerfileAssumption DEF FileType, Reading
<1>2. ReadInv /\ ClusterInv /\ ReturnInv
  BY DEF ReadInv, ClusterInv, ReturnInv, Returning
<1> QED BY <1>1, <1>2 DEF AnswerfileInv

LEMMA FileTypeNext == FileType /\ ClusterInv /\ A!ANext => FileType'
<1> SUFFICES ASSUME FileType, ClusterInv, A!ANext
             PROVE  FileType'
  OBVIOUS
<1> USE DEF FileType, Reading, A!Read
<1>1. CASE A!LoadNetworks \/ A!LoadSettings \/ A!LoadSystem
  BY <1>1 DEF A!LoadNetworks, A!LoadSettings, A!LoadSystem
<1>2. CASE A!LoadGeneric
  BY <1>2 DEF A!LoadGeneric
<1>8. CASE A!CheckInventory \/ A!LoadServices
  BY <1>8 DEF A!CheckInventory, A!LoadServices
<1>3. CASE A!SkipNode
  BY <1>3 DEF A!SkipNode
<1>4. CASE A!LoadNode
  <2>1. A!Resolved(file.nodes[nodeIndex]) \in LoadedNodes
    BY <1>4, FileSection, ResolvedType DEF A!LoadNode
  <2>2. nodes' \in Seq(LoadedNodes)
    BY <1>4, <2>1 DEF A!LoadNode
  <2> QED BY <1>4, <2>2 DEF A!LoadNode
<1>5. CASE A!Fill
  BY <1>5 DEF A!Fill
<1>6. CASE A!FillRefused
  BY <1>6 DEF A!FillRefused
<1>7. CASE A!Dump
  <2>1. cluster \in Clusters
    BY <1>7 DEF A!Dump, ClusterInv, FilledCluster
  <2>2. file' \in A!Documents
    BY <1>7, <2>1, DumpedDocument DEF A!Dump
  <2> QED BY <1>7, <2>2 DEF A!Dump
<1> QED BY <1>1, <1>2, <1>3, <1>4, <1>5, <1>6, <1>7, <1>8 DEF A!ANext
\* A file that stays as it is.
LEMMA SameFile ==
    ASSUME file' = file
    PROVE  /\ NetworksLoad' = NetworksLoad /\ SystemLoads' = SystemLoads
           /\ GenericLoads' = GenericLoads /\ ServicesLoad' = ServicesLoad
           /\ nodes' = nodes => NodesLoad' = NodesLoad
                                /\ A!UniqueInventory(nodes)' = A!UniqueInventory(nodes)
<1>1. NetworksLoad' = NetworksLoad
  BY DEF NetworksLoad, A!Present, A!Loads, A!Parses, A!GatewayFits
<1>2. SystemLoads' = SystemLoads
  BY DEF SystemLoads, A!Distro, A!Supported
<1>3. GenericLoads' = GenericLoads
  BY DEF GenericLoads, AcceptedGeneric
<1>4. ServicesLoad' = ServicesLoad
  BY DEF ServicesLoad, A!PostfixLoads, A!OfedLoads, A!OfedKind, A!QueueLoads
<1>5. nodes' = nodes => NodesLoad' = NodesLoad
  BY DEF NodesLoad, AcceptedNode
<1>6. nodes' = nodes => A!UniqueInventory(nodes)' = A!UniqueInventory(nodes)
  BY DEF A!UniqueInventory, A!SameName, A!Twice, A!Macs, A!AllAddresses, A!LowerMac
<1> QED BY <1>1, <1>2, <1>3, <1>4, <1>5, <1>6

LEMMA ReadNext == FileType /\ ReadInv /\ A!ANext => ReadInv'
<1> SUFFICES ASSUME FileType, ReadInv, A!ANext
             PROVE  ReadInv'
  OBVIOUS
<1> USE DEF ReadInv, Reading
<1>1. CASE A!LoadNetworks
  <2>1. file' = file /\ ((fileStage' = "settings" /\ NetworksLoad) \/ fileStage' = "refused")
    BY <1>1 DEF A!LoadNetworks, A!Read, NetworksLoad
  <2> QED BY <2>1, SameFile
<1>2. CASE A!LoadSettings
  <2>1. file' = file /\ fileStage = "settings" /\ fileStage' \in {"system", "refused"}
    BY <1>2 DEF A!LoadSettings, A!Read
  <2> QED BY <2>1, SameFile
<1>3. CASE A!LoadSystem
  <2>1. /\ file' = file /\ fileStage = "system"
        /\ (fileStage' = "generic" /\ SystemLoads) \/ fileStage' = "refused"
    BY <1>3 DEF A!LoadSystem, A!Read, SystemLoads
  <2> QED BY <2>1, SameFile
<1>4. CASE A!LoadGeneric
  <2>1. /\ file' = file /\ fileStage = "generic" /\ nodes' = <<>>
        /\ (fileStage' = "node" /\ GenericLoads) \/ fileStage' = "refused"
    BY <1>4 DEF A!LoadGeneric, A!Read, GenericLoads, AcceptedGeneric, A!Numeric
  <2>2. NodesLoad'
    BY <2>1 DEF NodesLoad
  <2> QED BY <2>1, <2>2, SameFile
<1>5. CASE A!SkipNode
  <2>1. file' = file /\ fileStage = "node" /\ fileStage' = "node" /\ nodes' = nodes
    BY <1>5 DEF A!SkipNode
  <2> QED BY <2>1, SameFile
<1>6. CASE A!LoadNode
  <2> DEFINE n == file.nodes[nodeIndex]
  <2>1. /\ file' = file /\ fileStage = "node"
        /\ \/ fileStage' = "node" /\ A!NodeAccepted(n) /\ nodes' = Append(nodes, A!Resolved(n))
           \/ fileStage' = "refused"
    BY <1>6 DEF A!LoadNode, A!Read
  <2>2. CASE fileStage' = "refused"
    BY <2>2
  <2>3. CASE A!NodeAccepted(n) /\ nodes' = Append(nodes, A!Resolved(n)) /\ fileStage' = "node"
    <3>1. AcceptedNode(A!Resolved(n), file.generic)
      BY <2>1, <2>3, ResolvedAccepted DEF GenericLoads
    <3>2. NodesLoad
      BY <2>1
    <3>3. \A i \in 1..Len(nodes') : nodes'[i] = A!Resolved(n) \/ (i \in 1..Len(nodes) /\ nodes'[i] = nodes[i])
      BY <2>3 DEF FileType
    <3>4. NodesLoad'
      BY <2>1, <3>1, <3>2, <3>3 DEF NodesLoad, AcceptedNode
    <3> QED BY <2>1, <2>3, <3>4, SameFile
  <2> QED BY <2>1, <2>2, <2>3
<1>7. CASE A!CheckInventory
  <2>1. /\ file' = file /\ fileStage = "node" /\ nodes' = nodes
        /\ (fileStage' = "services" /\ A!UniqueInventory(nodes)) \/ fileStage' = "refused"
    BY <1>7 DEF A!CheckInventory, A!Read
  <2> QED BY <2>1, SameFile
<1>8. CASE A!LoadServices
  <2>1. /\ file' = file /\ fileStage = "services" /\ nodes' = nodes
        /\ (fileStage' = "fill" /\ ServicesLoad) \/ fileStage' = "refused"
    BY <1>8 DEF A!LoadServices, A!Read, ServicesLoad
  <2> QED BY <2>1, SameFile
<1>9. CASE A!Fill \/ A!FillRefused \/ A!Dump
  <2>1. fileStage' \in {"dump", "done", "refused", "networks"}
    BY <1>9 DEF A!Fill, A!FillRefused, A!Dump
  <2> QED BY <2>1
<1> QED
  BY <1>1, <1>2, <1>3, <1>4, <1>5, <1>6, <1>7, <1>8, <1>9 DEF A!ANext
-----------------------------------------------------------------------------
\* fillData: the settings of a file that was accepted.
LEMMA FilledSettingsType ==
    ASSUME file \in A!Documents, SystemLoads, ServicesLoad, A!ProvisionerFits
    PROVE  A!FilledSettings \in FilledSections
<1>1. A!Distro(file) \in A!Supported /\ file.provisioner \in {"xcat", "confluent"}
  BY DEF A!ProvisionerFits, SystemLoads
<1>2. file.repos \in SUBSET SUBSET Text /\ file.ohpc \in SUBSET SUBSET Text /\ file.version \in Text
  BY DEF A!Documents
<1>3. A!OfedKind(file) \in {"inbox", "doca", "oracle"}
  BY DEF ServicesLoad, A!OfedLoads
<1>4. A!OfedVersion(file) \in Text \ {"none", ""}
  BY <1>2, TextAssumption DEF ServicesLoad, A!OfedLoads, A!OfedVersion, A!None
<1>5. (IF file.queue = "pbs" THEN "pbs" ELSE "slurm") \in {"slurm", "pbs"}
  OBVIOUS
<1> QED BY <1>1, <1>2, <1>3, <1>4, <1>5, Zenon DEF A!FilledSettings, FilledSections

\* fillData: a node, with its MAC address in lower case.
FilledFrom(m, n) ==
    /\ m.host = n.host /\ m.ip = n.ip /\ m.root = n.root /\ m.cpu = n.cpu /\ m.bmc = n.bmc
    /\ m.mac = A!LowerMac(n.mac) /\ m.user = IF n.bmc = "" THEN "" ELSE n.user

LEMMA FilledNode ==
    ASSUME NEW n \in LoadedNodes
    PROVE  LET m == [n EXCEPT !.mac = A!LowerMac(@), !.user = IF n.bmc = "" THEN "" ELSE @] IN
           m \in LoadedNodes /\ FilledFrom(m, n)
<1>1. /\ n.host \in Text \X Nat /\ n.mac \in Text /\ n.ip \in A!Address /\ n.root \in Text
      /\ n.cpu \in Text /\ n.bmc \in Text /\ n.user \in Text
  BY DEF LoadedNodes
<1>2. A!LowerMac(n.mac) \in Text /\ (IF n.bmc = "" THEN "" ELSE n.user) \in Text
  BY <1>1, TextAssumption DEF A!LowerMac
<1> QED BY <1>1, <1>2 DEF LoadedNodes, FilledFrom

LEMMA FilledNodesFacts ==
    ASSUME FileType
    PROVE  /\ A!FilledNodes \in Seq(LoadedNodes) /\ Len(A!FilledNodes) = Len(nodes)
           /\ \A i \in 1..Len(nodes) : FilledFrom(A!FilledNodes[i], nodes[i])
<1>1. /\ DOMAIN nodes = 1..Len(nodes) /\ Len(nodes) \in Nat
      /\ \A i \in 1..Len(nodes) : nodes[i] \in LoadedNodes
  BY SeqOf DEF FileType
<1>2. A!FilledNodes \in [1..Len(nodes) -> LoadedNodes]
  BY <1>1, FilledNode DEF A!FilledNodes
<1>3. \A i \in 1..Len(nodes) : FilledFrom(A!FilledNodes[i], nodes[i])
  BY <1>1, FilledNode DEF A!FilledNodes
<1>4. A!FilledNodes \in Seq(LoadedNodes) /\ Len(A!FilledNodes) = Len(nodes)
  BY <1>1, <1>2, FunctionSeq
<1> QED BY <1>3, <1>4

LEMMA LowerTwice == \A m : A!LowerMac(A!LowerMac(m)) = A!LowerMac(m) /\ A!LowerMac(m) # "M1"
BY DEF A!LowerMac

\* What lower case tells apart is another address or has other separators.
LEMMA SpeltApart ==
    \A m, n : A!LowerMac(m) # A!LowerMac(n) /\ A!Device(m) = A!Device(n)
                => A!Separator(m) # A!Separator(n)
BY DEF A!LowerMac, A!Device, A!Separator

LEMMA FilledNodesDistinct ==
    ASSUME FileType, A!UniqueInventory(nodes), A!MacsValid
    PROVE  Distinct(A!FilledNodes)
<1>1. nodes \in Seq(LoadedNodes)
  BY DEF FileType
<1>2. \A i \in 1..Len(nodes) : nodes[i].mac # ""
  BY <1>1, SeqOf DEF A!MacsValid
<1>3. Distinct(nodes)
  BY <1>1, <1>2, UniqueIsDistinct
<1> DEFINE ns == A!FilledNodes
<1>4. Len(ns) = Len(nodes) /\ \A i \in 1..Len(nodes) : FilledFrom(ns[i], nodes[i])
  BY FilledNodesFacts
<1> HIDE DEF ns
<1> SUFFICES Distinct(ns)
  BY DEF ns
<1> SUFFICES ASSUME NEW i \in 1..Len(nodes), NEW j \in 1..Len(nodes)
             PROVE  /\ ns[i].ip # ns[j].bmc
                    /\ i # j => /\ ns[i].host # ns[j].host
                                /\ A!LowerMac(ns[i].mac) # A!LowerMac(ns[j].mac)
                                /\ ns[i].ip # ns[j].ip
                                /\ ns[i].bmc = ns[j].bmc => ns[i].bmc = ""
  BY <1>4 DEF Distinct
<1>5. FilledFrom(ns[i], nodes[i]) /\ FilledFrom(ns[j], nodes[j])
  BY <1>4
<1>6. /\ ns[i].host = nodes[i].host /\ ns[i].ip = nodes[i].ip /\ ns[i].bmc = nodes[i].bmc
      /\ ns[j].host = nodes[j].host /\ ns[j].ip = nodes[j].ip /\ ns[j].bmc = nodes[j].bmc
  BY <1>5 DEF FilledFrom
<1>7. /\ A!LowerMac(ns[i].mac) = A!LowerMac(nodes[i].mac)
      /\ A!LowerMac(ns[j].mac) = A!LowerMac(nodes[j].mac)
  BY <1>5, LowerTwice DEF FilledFrom
<1>8. /\ nodes[i].ip # nodes[j].bmc
      /\ i # j => /\ nodes[i].host # nodes[j].host
                  /\ A!LowerMac(nodes[i].mac) # A!LowerMac(nodes[j].mac)
                  /\ nodes[i].ip # nodes[j].ip
                  /\ nodes[i].bmc = nodes[j].bmc => nodes[i].bmc = ""
  BY <1>3 DEF Distinct
<1> QED BY <1>6, <1>7, <1>8

\* fillData: a network that is there, with what the interface has to say.
LEMMA FilledNetwork ==
    ASSUME NEW p \in A!Profiles, NEW n \in A!NetworkSections, A!Loads(n), NEW f \in A!Filled(p, n)
    PROVE  f \in FilledNetworks
<1>1. /\ n.iface # "gone"
      /\ f \in [ip : A!Addresses(p, n), mask : A!Masks(p, n), gateway : A!Gateways(p, n),
                domain : A!DomainNames(p, n)]
  BY DEF A!Filled
<1>2. /\ n.ip \in Text /\ n.mask \in Text /\ n.domain \in Text
      /\ n.gateway \in {"none", "any", "in", "out", "bad"}
      /\ n.ip # "bad" /\ n.mask # "bad" /\ n.gateway # "bad"
  BY DEF A!NetworkSections, A!Loads, A!Parses, A!None
<1>3. A!Addresses(p, n) \subseteq Text \ {"none", "any", "bad"}
  BY <1>2, TextAssumption DEF A!Addresses, A!None
<1>4. A!Masks(p, n) \subseteq Text \ {"none", "zero", "bad"}
  BY <1>2, TextAssumption DEF A!Masks, A!None
<1>5. A!Gateways(p, n) \subseteq {"any", "in", "out"}
  BY <1>2 DEF A!Gateways, A!None
<1>6. A!DomainNames(p, n) \subseteq Text \ {"none"}
  BY <1>2, TextAssumption DEF A!DomainNames, A!None
<1> QED BY <1>1, <1>3, <1>4, <1>5, <1>6 DEF FilledNetworks

\* No network is the absent one: a record of other fields.
LEMMA NetworkIsThere == \A f \in FilledNetworks : f # A!NoCluster
BY DEF FilledNetworks, A!NoCluster

LEMMA FilledNetsFacts ==
    ASSUME FileType, NetworksLoad,
           NEW ext \in A!Filled("External", file.nets["External"]),
           NEW mgmt \in A!Filled("Management", file.nets["Management"]),
           NEW svc \in A!Optional("Service"), NEW app \in A!Optional("Application")
    PROVE  LET nets == [External |-> ext, Management |-> mgmt, Service |-> svc, Application |-> app] IN
           /\ nets \in [A!Profiles -> FilledNetworks \cup {A!NoCluster}]
           /\ nets["External"] # A!NoCluster /\ nets["Management"] # A!NoCluster
<1>1. \A p \in A!Profiles : file.nets[p] \in A!NetworkSections
  BY DEF FileType, A!Documents
<1>2. ext \in FilledNetworks /\ mgmt \in FilledNetworks
  BY <1>1, FilledNetwork DEF NetworksLoad, A!Profiles
<1>3. svc \in FilledNetworks \cup {A!NoCluster}
  BY <1>1, FilledNetwork DEF NetworksLoad, A!Profiles, A!Optional
<1>4. app \in FilledNetworks \cup {A!NoCluster}
  BY <1>1, FilledNetwork DEF NetworksLoad, A!Profiles, A!Optional
<1> DEFINE nets == [External |-> ext, Management |-> mgmt, Service |-> svc, Application |-> app]
<1>5. /\ nets["External"] = ext /\ nets["Management"] = mgmt
      /\ nets["Service"] = svc /\ nets["Application"] = app
  OBVIOUS
<1>6. nets \in [A!Profiles -> FilledNetworks \cup {A!NoCluster}]
  BY <1>2, <1>3, <1>4 DEF A!Profiles
<1> QED BY <1>2, <1>5, <1>6, NetworkIsThere

\* fillData makes a cluster of an accepted file.
LEMMA FillFacts ==
    ASSUME FileType, ReadInv, A!Fill
    PROVE  /\ FilledCluster(cluster', env.head)
           /\ cluster'.settings = A!FilledSettings /\ cluster'.services = A!FilledServices
           /\ cluster'.nodes = A!FilledNodes
           /\ cluster'.nets["External"] \in A!Filled("External", file.nets["External"])
           /\ cluster'.nets["Management"] \in A!Filled("Management", file.nets["Management"])
           /\ cluster'.nets["Service"] \in A!Optional("Service")
           /\ cluster'.nets["Application"] \in A!Optional("Application")
<1>1. /\ NetworksLoad /\ SystemLoads /\ GenericLoads /\ NodesLoad /\ ServicesLoad
      /\ A!UniqueInventory(nodes) /\ A!ProvisionerFits /\ A!MacsValid
  BY DEF A!Fill, ReadInv, Reading
<1>2. PICK ext \in A!Filled("External", file.nets["External"]),
           mgmt \in A!Filled("Management", file.nets["Management"]),
           svc \in A!Optional("Service"), app \in A!Optional("Application") :
        cluster' =
            [filled |-> TRUE, settings |-> A!FilledSettings, nodes |-> A!FilledNodes,
             services |-> A!FilledServices,
             nets |-> [External |-> ext, Management |-> mgmt, Service |-> svc, Application |-> app]]
  BY DEF A!Fill
<1> DEFINE nets == [External |-> ext, Management |-> mgmt, Service |-> svc, Application |-> app]
<1>3. /\ nets \in [A!Profiles -> FilledNetworks \cup {A!NoCluster}]
      /\ nets["External"] # A!NoCluster /\ nets["Management"] # A!NoCluster
  BY <1>1, FilledNetsFacts
<1>4. /\ nets["External"] = ext /\ nets["Management"] = mgmt
      /\ nets["Service"] = svc /\ nets["Application"] = app
  OBVIOUS
<1>5. /\ cluster' = [filled |-> TRUE, settings |-> A!FilledSettings, nodes |-> A!FilledNodes,
                     services |-> A!FilledServices, nets |-> nets]
  BY <1>2
<1> HIDE DEF nets
<1>6. /\ cluster'.settings = A!FilledSettings /\ cluster'.services = A!FilledServices
      /\ cluster'.nodes = A!FilledNodes /\ cluster'.nets = nets
  BY <1>5
<1>7. A!FilledSettings \in FilledSections
  BY <1>1, FilledSettingsType DEF FileType
<1>8. /\ A!FilledServices \in FilledServices /\ A!FilledServices.generic = file.generic
      /\ A!FilledServices.postfix = file.postfix
  BY DEF FileType, A!Documents, A!FilledServices, FilledServices
<1>9. /\ A!FilledNodes \in Seq(LoadedNodes) /\ Len(A!FilledNodes) = Len(nodes)
      /\ \A i \in 1..Len(nodes) : FilledFrom(A!FilledNodes[i], nodes[i])
  BY FilledNodesFacts
<1>10. cluster' \in Clusters
  BY <1>3, <1>5, <1>7, <1>8, <1>9, Zenon DEF Clusters
<1>11. Distinct(A!FilledNodes)
  BY <1>1, FilledNodesDistinct
<1>12. ASSUME NEW i \in 1..Len(nodes)
       PROVE  /\ AcceptedNode(A!FilledNodes[i], file.generic)
              /\ A!FilledNodes[i].mac \notin {"", "bad", "M1"}
              /\ A!FilledNodes[i].bmc = "" => A!FilledNodes[i].user = ""
  <2>1. FilledFrom(A!FilledNodes[i], nodes[i]) /\ AcceptedNode(nodes[i], file.generic)
    BY <1>1, <1>9 DEF NodesLoad
  <2>3. nodes \in Seq(LoadedNodes)
    BY DEF FileType
  <2>4. i \in DOMAIN nodes
    BY <2>3, SeqOf
  <2>2. nodes[i].mac \notin {"", "bad"}
    BY <1>1, <2>4 DEF A!MacsValid
  <2> QED BY <2>1, <2>2 DEF FilledFrom, AcceptedNode, A!LowerMac
<1>13. env.head = "ubuntu" /\ A!FilledSettings.provisioner = "xcat" => A!FilledSettings.distro = "ubuntu"
  BY <1>1 DEF A!ProvisionerFits, A!FilledSettings
<1>14. AcceptedGeneric(file.generic) /\ \A p \in file.postfix : A!PostfixLoads(p)
  BY <1>1 DEF GenericLoads, ServicesLoad
<1>15. FilledCluster(cluster', env.head)
  BY <1>3, <1>6, <1>8, <1>9, <1>10, <1>11, <1>12, <1>13, <1>14 DEF FilledCluster
<1> QED BY <1>2, <1>4, <1>6, <1>15

LEMMA ClusterIsThere == \A c \in Clusters : c # A!NoCluster
BY DEF Clusters, A!NoCluster

LEMMA ClusterNext == FileType /\ ReadInv /\ ClusterInv /\ A!ANext => ClusterInv'
<1> SUFFICES ASSUME FileType, ReadInv, ClusterInv, A!ANext
             PROVE  ClusterInv'
  OBVIOUS
<1>1. CASE \/ A!LoadNetworks \/ A!LoadSettings \/ A!LoadSystem \/ A!LoadGeneric
           \/ A!SkipNode \/ A!LoadNode \/ A!CheckInventory \/ A!LoadServices \/ A!FillRefused
  <2>1. /\ UNCHANGED <<file, env, round, cluster, first>>
        /\ fileStage \in Reading /\ fileStage' \notin {"dump", "done"}
    BY <1>1 DEF A!LoadNetworks, A!LoadSettings, A!LoadSystem, A!LoadGeneric, A!SkipNode,
                A!LoadNode, A!CheckInventory, A!LoadServices, A!FillRefused, A!Read, Reading
  <2> QED BY <2>1 DEF ClusterInv, Reading
<1>2. CASE A!Fill
  <2>1. FilledCluster(cluster', env.head) /\ cluster' # A!NoCluster
    BY <1>2, FillFacts, ClusterIsThere DEF FilledCluster
  <2>2. fileStage' \in {"dump", "done"} /\ UNCHANGED <<file, env, round, first>>
    BY <1>2 DEF A!Fill
  <2> QED BY <2>1, <2>2 DEF ClusterInv
<1>3. CASE A!Dump
  <2>1. /\ cluster' = A!NoCluster /\ first' = cluster /\ file' = A!DumpOptions(cluster)
        /\ env' = env /\ fileStage = "dump" /\ fileStage' = "networks"
    BY <1>3 DEF A!Dump
  <2>2. FilledCluster(cluster, env.head)
    BY <2>1 DEF ClusterInv
  <2>3. A!DumpOptions(cluster) = A!DumpOptions(first')
    BY <2>1
  <2> QED BY <2>1, <2>2, <2>3 DEF ClusterInv
<1> QED BY <1>1, <1>2, <1>3 DEF A!ANext
-----------------------------------------------------------------------------
\* What dumpData wrote.
LEMMA Written ==
    ASSUME ClusterInv, round = 2
    PROVE  /\ FilledCluster(first, env.head) /\ first \in Clusters
           /\ file.settings = TRUE /\ file.distro = first.settings.distro
           /\ file.provisioner = first.settings.provisioner
           /\ file.repos = first.settings.repos /\ file.ohpc = first.settings.ohpc
           /\ file.ofed = first.settings.ofed /\ file.version = first.settings.version
           /\ file.queue = first.settings.queue
           /\ file.generic = first.services.generic /\ file.postfix = first.services.postfix
           /\ file.nodes = A!DumpNodes(first)
           /\ \A p \in A!Profiles : file.nets[p] = A!DumpNetwork(first.nets[p])
<1>1. FilledCluster(first, env.head) /\ file = A!DumpOptions(first)
  BY DEF ClusterInv
<1>2. first \in Clusters
  BY <1>1 DEF FilledCluster
<1> QED BY <1>1, <1>2 DEF A!DumpOptions

\* The set of records with the parts of a network is the network.
LEMMA OnlyNetwork ==
    ASSUME NEW n \in FilledNetworks
    PROVE  [ip : {n.ip}, mask : {n.mask}, gateway : {n.gateway}, domain : {n.domain}] = {n}
<1> DEFINE only == [ip : {n.ip}, mask : {n.mask}, gateway : {n.gateway}, domain : {n.domain}]
<1>1. n \in only
  BY DEF FilledNetworks
<1>2. ASSUME NEW f \in only
      PROVE  f = n
  BY DEF FilledNetworks
<1> QED BY <1>1, <1>2

\* A network that was written is accepted, has all its keys and is the one it was.
LEMMA ReadsNetwork ==
    ASSUME ClusterInv, Returning, NEW p \in A!Profiles
    PROVE  /\ file.nets[p].group <=> first.nets[p] # A!NoCluster
           /\ first.nets[p] # A!NoCluster =>
                /\ A!Loads(file.nets[p]) /\ A!Filled(p, file.nets[p]) = {first.nets[p]}
                /\ ~A!MayThrow(p, file.nets[p])
<1> DEFINE n == first.nets[p]
           d == file.nets[p]
<1>1. d = A!DumpNetwork(n) /\ n \in FilledNetworks \cup {A!NoCluster}
  BY Written DEF Clusters, Returning
<1>2. n # A!NoCluster => n.gateway # "out" /\ n.domain # ""
  BY DEF Returning, A!Unreadable
<1> HIDE DEF n, d
<1>3. /\ d.group <=> n # A!NoCluster
      /\ n # A!NoCluster =>
            /\ n \in FilledNetworks
            /\ d.iface = "nic" /\ d.ip = n.ip /\ d.mask = n.mask /\ d.gateway = n.gateway
            /\ d.domain = n.domain
  BY <1>1, DumpedNetwork
<1>4. CASE n = A!NoCluster
  BY <1>3, <1>4 DEF n, d
<1>5. CASE n # A!NoCluster
  <2>1. /\ n \in FilledNetworks /\ d.group /\ d.iface = "nic" /\ d.ip = n.ip /\ d.mask = n.mask
        /\ d.gateway = n.gateway /\ d.domain = n.domain
    BY <1>3, <1>5
  <2>2. /\ n.ip \notin {"none", "any", "bad"} /\ n.mask \notin {"none", "zero", "bad"}
        /\ n.gateway \in {"any", "in"} /\ n.domain \notin {"none", ""}
    BY <1>2, <1>5, <2>1 DEF FilledNetworks
  <2>3. A!Loads(d)
    BY <2>1, <2>2 DEF A!Loads, A!Parses, A!GatewayFits, A!None
  <2>4. ~A!MayThrow(p, d)
    BY <2>1, <2>2 DEF A!MayThrow, A!None
  <2>5. A!Filled(p, d) = [ip : {n.ip}, mask : {n.mask}, gateway : {n.gateway}, domain : {n.domain}]
    <3>1. A!Addresses(p, d) = {n.ip}
      BY <2>1, <2>2 DEF A!Addresses, A!None
    <3>2. A!Masks(p, d) = {n.mask}
      BY <2>1, <2>2 DEF A!Masks, A!None
    <3>3. A!Gateways(p, d) = {n.gateway}
      BY <2>1, <2>2 DEF A!Gateways, A!None
    <3>4. A!DomainNames(p, d) = {n.domain}
      BY <2>1, <2>2 DEF A!DomainNames, A!None
    <3> QED BY <2>1, <3>1, <3>2, <3>3, <3>4 DEF A!Filled
  <2>6. A!Filled(p, d) = {n}
    BY <2>1, <2>5, OnlyNetwork
  <2> QED BY <1>5, <2>1, <2>3, <2>4, <2>6 DEF n, d
<1> QED BY <1>4, <1>5

LEMMA ReadsNetworks ==
    ASSUME ClusterInv, Returning
    PROVE  NetworksLoad
<1>1. first.nets["External"] # A!NoCluster /\ first.nets["Management"] # A!NoCluster
  BY Written DEF Returning, FilledCluster
<1>2. \A p \in A!Present(file) \cup {"External", "Management"} :
          p \in A!Profiles /\ first.nets[p] # A!NoCluster
  BY <1>1, ReadsNetwork DEF A!Present, A!Profiles
<1> QED BY <1>2, ReadsNetwork DEF NetworksLoad

\* Nothing in the sections of settings and services that were written is refused.
LEMMA ReadsSections ==
    ASSUME ClusterInv, Returning
    PROVE  /\ file.settings = TRUE /\ A!Distro(file) \in A!Supported
           /\ file.provisioner \in {"xcat", "confluent"}
           /\ GenericLoads /\ ServicesLoad /\ A!ProvisionerFits
           /\ A!FilledSettings = first.settings /\ A!FilledServices = first.services
<1> DEFINE s == first.settings
<1>1. s \in FilledSections /\ first.services \in FilledServices
  BY Written DEF Clusters, Returning
<1>2. /\ file.settings = TRUE /\ file.distro = s.distro /\ file.provisioner = s.provisioner
      /\ file.repos = s.repos /\ file.ohpc = s.ohpc /\ file.ofed = s.ofed
      /\ file.version = s.version /\ file.queue = s.queue
      /\ file.generic = first.services.generic /\ file.postfix = first.services.postfix
  BY Written DEF Returning
<1>3. /\ env.head = "ubuntu" /\ s.provisioner = "xcat" => s.distro = "ubuntu"
      /\ AcceptedGeneric(first.services.generic)
      /\ \A p \in first.services.postfix : A!PostfixLoads(p)
  BY Written DEF Returning, FilledCluster
<1> HIDE DEF s
<1>4. /\ s.distro \in {"rocky", "almalinux", "ubuntu"} /\ s.provisioner \in {"xcat", "confluent"}
      /\ s.ofed \in {"inbox", "doca", "oracle"} /\ s.version \notin {"none", ""}
      /\ s.queue \in {"slurm", "pbs"}
  BY <1>1 DEF FilledSections, A!Supported
<1>5. A!Distro(file) = s.distro /\ A!Distro(file) \in A!Supported
  BY <1>2, <1>4 DEF A!Distro, A!Supported
<1>6. GenericLoads
  BY <1>2, <1>3 DEF GenericLoads
<1>7. A!OfedKind(file) = s.ofed /\ A!OfedVersion(file) = s.version
  BY <1>2, <1>4 DEF A!OfedKind, A!OfedVersion, A!None
<1>8. A!OfedLoads(file) /\ A!QueueLoads(file)
  BY <1>2, <1>4, <1>7 DEF A!OfedLoads, A!QueueLoads, A!None
<1>9. A!ProvisionerFits
  BY <1>2, <1>3, <1>5 DEF A!ProvisionerFits
<1>10. (IF file.queue = "pbs" THEN "pbs" ELSE "slurm") = s.queue
  BY <1>2, <1>4
<1>11. A!FilledSettings = s
  BY <1>1, <1>2, <1>5, <1>7, <1>10 DEF A!FilledSettings, FilledSections
<1>12. A!FilledServices = first.services
  BY <1>1, <1>2 DEF A!FilledServices, FilledServices
<1> QED BY <1>2, <1>3, <1>4, <1>5, <1>6, <1>8, <1>9, <1>11, <1>12 DEF ServicesLoad, s

\* A node that was written is accepted, under its name and with its addresses.
LEMMA ReadsNode ==
    ASSUME ClusterInv, Returning, NEW i \in 1..Len(first.nodes)
    PROVE  /\ file.nodes[i].number # 0 /\ A!NodeAccepted(file.nodes[i])
           /\ A!Resolved(file.nodes[i]) = ReadBack(first.nodes[i], first.services.generic)
<1> DEFINE n == first.nodes[i]
           d == file.nodes[i]
           g == file.generic
<1>1. /\ first.nodes \in Seq(LoadedNodes) /\ file.nodes = A!DumpNodes(first)
      /\ g = first.services.generic
  BY Written DEF Returning, Clusters
<1>2. d = A!DumpNode(n, i) /\ n \in LoadedNodes /\ i # 0
  BY <1>1, DumpedNodes, SeqOf
<1>3. /\ AcceptedNode(n, g) /\ AcceptedGeneric(g)
      /\ n.mac \notin {"", "bad", "M1"} /\ (n.bmc = "" => n.user = "")
  BY <1>1, Written DEF Returning, FilledCluster
<1>4. first.nodes # <<>>
  OBVIOUS
<1>5. g.root # ""
  BY <1>1, <1>4 DEF Returning, A!Unreadable
<1> HIDE DEF n, d
<1>6. /\ d.number = i /\ d.host = n.host /\ d.mac = n.mac /\ d.ip = n.ip /\ d.root = ""
      /\ d.cpu = n.cpu /\ d.bmc = n.bmc /\ d.user = n.user
  BY <1>2, <1>3 DEF A!DumpNode
<1>7. n.host # <<>>
  <2>1. n.host \in Text \X Nat
    BY <1>2 DEF LoadedNodes
  <2> QED BY <2>1, PairIsNotEmpty
<1>8. A!Hostname(d) = n.host
  BY <1>6, <1>7 DEF A!Hostname, A!NoName
<1>9. A!Inherited(d.ip, g.ip, {A!None, "any"}) = n.ip
  BY <1>3, <1>6 DEF A!Inherited, A!None, AcceptedNode
<1>10. A!Inherited(d.root, g.root, {""}) = g.root /\ A!Inherited(d.cpu, g.scalars, {""}) = n.cpu
  BY <1>3, <1>6 DEF A!Inherited, AcceptedNode
<1>11. (IF d.bmc = "" THEN d.user ELSE A!Inherited(d.user, g.user, {""})) = n.user
  BY <1>3, <1>6 DEF A!Inherited, AcceptedNode
<1>12. A!Resolved(d) = [host |-> n.host, mac |-> n.mac, ip |-> n.ip, root |-> g.root, cpu |-> n.cpu,
                        bmc |-> n.bmc, user |-> n.user]
  BY <1>6, <1>8, <1>9, <1>10, <1>11 DEF A!Resolved
<1>13. ReadBack(n, g) = [host |-> n.host, mac |-> n.mac, ip |-> n.ip, root |-> g.root, cpu |-> n.cpu,
                         bmc |-> n.bmc, user |-> n.user]
  BY <1>2 DEF ReadBack, LoadedNodes
<1>14. A!NodeAccepted(d)
  <2> DEFINE r == A!Resolved(d)
  <2>1. r.ip = n.ip /\ r.root = g.root /\ r.cpu = n.cpu /\ r.bmc = n.bmc /\ r.user = n.user
    BY <1>12
  <2> HIDE DEF r
  <2>2. /\ d.mac # A!None /\ d.ip # "bad" /\ d.host # A!NoName
        /\ r.ip # "any" /\ r.root # "" /\ A!Numeric(r.cpu)
        /\ r.bmc # "" => r.user # ""
    BY <1>3, <1>5, <1>6, <1>7, <2>1 DEF AcceptedNode, A!Numeric, A!None, A!NoName
  <2> QED BY <2>2 DEF A!NodeAccepted, r
<1> QED BY <1>1, <1>2, <1>6, <1>12, <1>13, <1>14 DEF n, d

LEMMA ReadBackFields ==
    ASSUME NEW n \in LoadedNodes, NEW g
    PROVE  LET m == ReadBack(n, g) IN
           /\ m.host = n.host /\ m.mac = n.mac /\ m.ip = n.ip /\ m.bmc = n.bmc /\ m.user = n.user
           /\ m.cpu = n.cpu /\ m.root = g.root
BY DEF LoadedNodes, ReadBack

LEMMA FilledTwice ==
    ASSUME NEW n \in LoadedNodes, n.mac # "M1", n.bmc = "" => n.user = ""
    PROVE  [n EXCEPT !.mac = A!LowerMac(@), !.user = IF n.bmc = "" THEN "" ELSE @] = n
<1>1. A!LowerMac(n.mac) = n.mac /\ (IF n.bmc = "" THEN "" ELSE n.user) = n.user
  BY DEF A!LowerMac
<1> QED BY <1>1 DEF LoadedNodes

LEMMA ReadsInventory ==
    ASSUME FileType, ClusterInv, Returning, Len(nodes) = Len(first.nodes), ReadNodes
    PROVE  /\ A!UniqueInventory(nodes) /\ A!MacsValid
           /\ Len(A!FilledNodes) = Len(first.nodes)
           /\ \A i \in 1..Len(first.nodes) :
                 A!FilledNodes[i] = ReadBack(first.nodes[i], first.services.generic)
<1> DEFINE g == first.services.generic
<1>1. first.nodes \in Seq(LoadedNodes) /\ nodes \in Seq(LoadedNodes)
  BY Written DEF Returning, Clusters, FileType
<1>2. /\ Distinct(first.nodes)
      /\ \A i \in 1..Len(first.nodes) :
            /\ first.nodes[i].mac \notin {"", "bad", "M1"}
            /\ first.nodes[i].bmc = "" => first.nodes[i].user = ""
  BY Written DEF Returning, FilledCluster
<1> HIDE DEF g
<1>3. \A i \in 1..Len(nodes) :
        /\ nodes[i] \in LoadedNodes
        /\ nodes[i] = ReadBack(first.nodes[i], g) /\ nodes[i].host = first.nodes[i].host
        /\ nodes[i].mac = first.nodes[i].mac /\ nodes[i].ip = first.nodes[i].ip
        /\ nodes[i].bmc = first.nodes[i].bmc /\ nodes[i].user = first.nodes[i].user
  <2> SUFFICES ASSUME NEW i \in 1..Len(nodes)
               PROVE  /\ nodes[i] \in LoadedNodes
                      /\ nodes[i] = ReadBack(first.nodes[i], g)
                      /\ nodes[i].host = first.nodes[i].host
                      /\ nodes[i].mac = first.nodes[i].mac /\ nodes[i].ip = first.nodes[i].ip
                      /\ nodes[i].bmc = first.nodes[i].bmc
                      /\ nodes[i].user = first.nodes[i].user
    OBVIOUS
  <2>1. nodes[i] \in LoadedNodes /\ first.nodes[i] \in LoadedNodes
    BY <1>1, SeqOf
  <2>2. nodes[i] = ReadBack(first.nodes[i], g)
    BY DEF ReadNodes, g
  <2> QED BY <2>1, <2>2, ReadBackFields
<1>4. Distinct(nodes)
  <2> SUFFICES ASSUME NEW i \in 1..Len(nodes), NEW j \in 1..Len(nodes)
               PROVE  /\ nodes[i].ip # nodes[j].bmc
                      /\ i # j => /\ nodes[i].host # nodes[j].host
                                  /\ A!LowerMac(nodes[i].mac) # A!LowerMac(nodes[j].mac)
                                  /\ nodes[i].ip # nodes[j].ip
                                  /\ nodes[i].bmc = nodes[j].bmc => nodes[i].bmc = ""
    BY DEF Distinct
  <2>1. /\ first.nodes[i].ip # first.nodes[j].bmc
        /\ i # j => /\ first.nodes[i].host # first.nodes[j].host
                    /\ A!LowerMac(first.nodes[i].mac) # A!LowerMac(first.nodes[j].mac)
                    /\ first.nodes[i].ip # first.nodes[j].ip
                    /\ first.nodes[i].bmc = first.nodes[j].bmc => first.nodes[i].bmc = ""
    BY <1>2 DEF Distinct
  <2> QED BY <1>3, <2>1
<1>5. A!UniqueInventory(nodes)
  BY <1>1, <1>4, DistinctIsUnique
<1>6. DOMAIN nodes = 1..Len(nodes)
  BY <1>1, SeqOf
<1>7. A!MacsValid
  BY <1>2, <1>3, <1>6 DEF A!MacsValid
<1>8. Len(A!FilledNodes) = Len(nodes) /\ \A i \in 1..Len(nodes) : FilledFrom(A!FilledNodes[i], nodes[i])
  BY FilledNodesFacts
<1>9. ASSUME NEW i \in 1..Len(nodes)
      PROVE  A!FilledNodes[i] = nodes[i]
  <2>1. nodes[i] \in LoadedNodes /\ nodes[i].mac # "M1" /\ (nodes[i].bmc = "" => nodes[i].user = "")
    BY <1>2, <1>3
  <2>2. A!FilledNodes[i] = [nodes[i] EXCEPT !.mac = A!LowerMac(@),
                                !.user = IF nodes[i].bmc = "" THEN "" ELSE @]
    BY <1>6 DEF A!FilledNodes
  <2> QED BY <2>1, <2>2, FilledTwice
<1> QED BY <1>3, <1>5, <1>7, <1>8, <1>9 DEF g

\* fillData has one cluster to make of the file that was written: the first one.
LEMMA FillsTheSame ==
    ASSUME FileType, ReadInv, ClusterInv, Returning, A!Fill,
           Len(nodes) = Len(first.nodes), ReadNodes
    PROVE  (SameSections /\ SameNodes)'
<1>1. first' = first
  BY DEF A!Fill
<1>2. /\ FilledCluster(cluster', env.head)
      /\ cluster'.settings = A!FilledSettings /\ cluster'.services = A!FilledServices
      /\ cluster'.nodes = A!FilledNodes
      /\ cluster'.nets["External"] \in A!Filled("External", file.nets["External"])
      /\ cluster'.nets["Management"] \in A!Filled("Management", file.nets["Management"])
      /\ cluster'.nets["Service"] \in A!Optional("Service")
      /\ cluster'.nets["Application"] \in A!Optional("Application")
  BY FillFacts
<1>3. cluster'.settings = first.settings /\ cluster'.services = first.services
  BY <1>2, ReadsSections
<1>4. /\ cluster'.nets \in [A!Profiles -> FilledNetworks \cup {A!NoCluster}]
      /\ first.nets \in [A!Profiles -> FilledNetworks \cup {A!NoCluster}]
  BY <1>2, Written DEF FilledCluster, Clusters, Returning
<1>5. ASSUME NEW p \in {"Service", "Application"}, NEW n \in A!Optional(p)
      PROVE  n = first.nets[p]
  <2>1. p \in A!Profiles /\ (p \in A!Present(file) <=> file.nets[p].group)
    BY DEF A!Profiles, A!Present
  <2> QED BY <2>1, ReadsNetwork DEF A!Optional
<1>6. cluster'.nets["Service"] = first.nets["Service"] /\ cluster'.nets["Application"] = first.nets["Application"]
  BY <1>2, <1>5
<1>7. first.nets["External"] # A!NoCluster /\ first.nets["Management"] # A!NoCluster
  BY Written DEF Returning, FilledCluster
<1>8. /\ cluster'.nets["External"] = first.nets["External"]
      /\ cluster'.nets["Management"] = first.nets["Management"]
  BY <1>2, <1>7, ReadsNetwork DEF A!Profiles
<1>9. cluster'.nets = first.nets
  BY <1>4, <1>6, <1>8 DEF A!Profiles
<1>10. /\ Len(cluster'.nodes) = Len(first.nodes)
       /\ \A i \in 1..Len(first.nodes) :
             cluster'.nodes[i] = ReadBack(first.nodes[i], first.services.generic)
  BY <1>2, ReadsInventory
<1> QED BY <1>1, <1>3, <1>9, <1>10 DEF SameSections, SameNodes

\* fillData has nothing to refuse.
LEMMA FillsAgain ==
    ASSUME FileType, ClusterInv, Returning, Len(nodes) = Len(first.nodes), ReadNodes
    PROVE  ~A!FillRefused
<1>1. A!ProvisionerFits /\ A!MacsValid
  BY ReadsSections, ReadsInventory
<1>2. ASSUME NEW p \in A!Present(file)
      PROVE  A!Filled(p, file.nets[p]) # {} /\ ~A!MayThrow(p, file.nets[p])
  <2>1. p \in A!Profiles /\ file.nets[p].group
    BY DEF A!Present
  <2> QED BY <2>1, ReadsNetwork
<1> QED BY <1>1, <1>2 DEF A!FillRefused

LEMMA ReturnNext == FileType /\ FileType' /\ ReadInv /\ ClusterInv /\ ReturnInv /\ A!ANext => ReturnInv'
<1> SUFFICES ASSUME FileType, FileType', ReadInv, ClusterInv, ReturnInv, A!ANext, Returning'
             PROVE  ReturnInv'
  BY DEF ReturnInv
<1>1. CASE A!Dump
  BY <1>1 DEF A!Dump, ReturnInv
<1> SUFFICES ASSUME ~A!Dump
             PROVE  ReturnInv'
  BY <1>1
<1>2. UNCHANGED <<file, env, round, first>>
  BY DEF A!ANext, A!LoadNetworks, A!LoadSettings, A!LoadSystem, A!LoadGeneric, A!SkipNode,
         A!LoadNode, A!CheckInventory, A!LoadServices, A!Fill, A!FillRefused, A!Read
<1>3. Returning
  BY <1>2 DEF Returning, A!Unreadable
<1>4. nodes \in Seq(LoadedNodes) /\ nodes' \in Seq(LoadedNodes) /\ first.nodes \in Seq(LoadedNodes)
      /\ Len(file.nodes) = Len(first.nodes)
  <2>1. first.nodes \in Seq(LoadedNodes) /\ file.nodes = A!DumpNodes(first)
    BY <1>3, Written DEF Returning, Clusters
  <2> QED BY <2>1, DumpedNodes DEF FileType
<1>5. CASE A!LoadNetworks
  <2>1. fileStage' = "settings"
    BY <1>3, <1>5, ReadsNetworks DEF A!LoadNetworks, A!Read, NetworksLoad
  <2> QED BY <2>1 DEF ReturnInv
<1>6. CASE A!LoadSettings
  <2>1. fileStage' = "system"
    BY <1>3, <1>6, ReadsSections DEF A!LoadSettings, A!Read
  <2> QED BY <2>1 DEF ReturnInv
<1>7. CASE A!LoadSystem
  <2>1. fileStage' = "generic"
    BY <1>3, <1>7, ReadsSections DEF A!LoadSystem, A!Read
  <2> QED BY <2>1 DEF ReturnInv
<1>8. CASE A!LoadGeneric
  <2>1. fileStage' = "node" /\ nodes' = <<>> /\ nodeIndex' = 1
    BY <1>3, <1>8, ReadsSections DEF A!LoadGeneric, A!Read, GenericLoads, AcceptedGeneric, A!Numeric
  <2>2. ReadNodes' /\ Len(nodes') = 0 /\ Len(first.nodes) \in Nat
    BY <1>4, <2>1 DEF ReadNodes
  <2> QED BY <1>2, <2>1, <2>2 DEF ReturnInv
<1>9. CASE A!SkipNode
  <2>1. fileStage = "node" /\ nodeIndex \in 1..Len(first.nodes) /\ file.nodes[nodeIndex].number = 0
    BY <1>4, <1>9 DEF A!SkipNode, FileType
  <2> QED BY <1>3, <2>1, ReadsNode
<1>10. CASE A!LoadNode
  <2> DEFINE n == file.nodes[nodeIndex]
  <2>1. fileStage = "node" /\ nodeIndex \in 1..Len(first.nodes) /\ nodeIndex = Len(nodes) + 1 /\ ReadNodes
    BY <1>3, <1>4, <1>10 DEF A!LoadNode, A!Read, FileType, ReturnInv
  <2>2. A!NodeAccepted(n) /\ A!Resolved(n) = ReadBack(first.nodes[nodeIndex], first.services.generic)
    BY <1>3, <2>1, ReadsNode
  <2>3. fileStage' = "node" /\ nodes' = Append(nodes, A!Resolved(n)) /\ nodeIndex' = nodeIndex + 1
    BY <1>10, <2>2 DEF A!LoadNode, A!Read
  <2>4. /\ Len(nodes') = Len(nodes) + 1 /\ Len(nodes) \in Nat /\ nodes'[Len(nodes) + 1] = A!Resolved(n)
        /\ \A i \in 1..Len(nodes) : nodes'[i] = nodes[i]
    BY <1>4, <2>3
  <2>5. \A i \in 1..Len(nodes') : nodes'[i] = ReadBack(first.nodes[i], first.services.generic)
    BY <2>1, <2>2, <2>4 DEF ReadNodes
  <2>6. ReadNodes'
    BY <1>2, <2>5 DEF ReadNodes
  <2>7. nodeIndex' = Len(nodes') + 1 /\ Len(nodes') <= Len(first'.nodes)
    BY <1>2, <2>1, <2>3, <2>4
  <2> QED BY <2>3, <2>6, <2>7 DEF ReturnInv
<1>11. CASE A!CheckInventory
  <2>1. /\ fileStage = "node" /\ nodes' = nodes /\ nodeIndex' = nodeIndex /\ ReadNodes
        /\ nodeIndex = Len(nodes) + 1 /\ Len(nodes) = Len(first.nodes)
    BY <1>3, <1>4, <1>11 DEF A!CheckInventory, A!Read, ReturnInv, FileType
  <2>2. fileStage' = "services"
    BY <1>3, <1>11, <2>1, ReadsInventory DEF A!CheckInventory, A!Read
  <2>3. ReadNodes'
    BY <1>2, <2>1 DEF ReadNodes
  <2> QED BY <1>2, <2>1, <2>2, <2>3 DEF ReturnInv
<1>12. CASE A!LoadServices
  <2>1. /\ fileStage = "services" /\ nodes' = nodes /\ nodeIndex' = nodeIndex /\ ReadNodes
        /\ nodeIndex = Len(nodes) + 1 /\ Len(nodes) = Len(first.nodes)
    BY <1>3, <1>12 DEF A!LoadServices, A!Read, ReturnInv
  <2>2. fileStage' = "fill"
    BY <1>3, <1>12, <2>1, ReadsSections DEF A!LoadServices, A!Read, ServicesLoad
  <2>3. ReadNodes'
    BY <1>2, <2>1 DEF ReadNodes
  <2> QED BY <1>2, <2>1, <2>2, <2>3 DEF ReturnInv
<1>13. CASE A!Fill
  <2>1. fileStage' = "done" /\ fileStage = "fill" /\ ReadNodes /\ Len(nodes) = Len(first.nodes)
    BY <1>3, <1>13 DEF A!Fill, Returning, ReturnInv
  <2>2. (SameSections /\ SameNodes)'
    BY <1>3, <1>13, <2>1, FillsTheSame
  <2> QED BY <2>1, <2>2 DEF ReturnInv
<1>14. CASE A!FillRefused
  <2>1. ReadNodes /\ Len(nodes) = Len(first.nodes)
    BY <1>3, <1>14 DEF A!FillRefused, ReturnInv
  <2> QED BY <1>3, <1>14, <2>1, FillsAgain
<1> QED
  BY <1>5, <1>6, <1>7, <1>8, <1>9, <1>10, <1>11, <1>12, <1>13, <1>14 DEF A!ANext
-----------------------------------------------------------------------------
LEMMA FileStutter == AnswerfileInv /\ UNCHANGED fileVars => AnswerfileInv'
<1> SUFFICES ASSUME AnswerfileInv, UNCHANGED fileVars
             PROVE  AnswerfileInv'
  OBVIOUS
<1>1. UNCHANGED <<file, env, fileStage, round, nodeIndex, nodes, cluster, first>>
  BY DEF fileVars
<1>2. FileType'
  BY <1>1 DEF AnswerfileInv, FileType
<1>3. ReadInv'
  BY <1>1, SameFile DEF AnswerfileInv, ReadInv
<1>4. ClusterInv'
  BY <1>1 DEF AnswerfileInv, ClusterInv
<1>5. Returning' = Returning /\ ReadNodes' = ReadNodes /\ SameSections' = SameSections
      /\ SameNodes' = SameNodes
  BY <1>1 DEF Returning, A!Unreadable, ReadNodes, SameSections, SameNodes
<1>6. ReturnInv'
  BY <1>1, <1>5 DEF AnswerfileInv, ReturnInv
<1> QED BY <1>2, <1>3, <1>4, <1>6 DEF AnswerfileInv

LEMMA FileInvariance == Spec => [](which = "answerfile" => AnswerfileInv)
<1>1. Init => (which = "answerfile" => AnswerfileInv)
  BY FileInit DEF Init
<1>2. (which = "answerfile" => AnswerfileInv) /\ [Next]_vars => (which = "answerfile" => AnswerfileInv)'
  <2> SUFFICES ASSUME which = "answerfile", AnswerfileInv, [Next]_vars
               PROVE  AnswerfileInv'
    BY OnePart
  <2>1. CASE A!ANext
    <3>1. FileType'
      BY <2>1, FileTypeNext DEF AnswerfileInv
    <3> QED BY <2>1, <3>1, ReadNext, ClusterNext, ReturnNext DEF AnswerfileInv
  <2>2. CASE UNCHANGED fileVars
    BY <2>2, FileStutter
  <2> QED BY <2>1, <2>2, OnePart
<1> QED BY <1>1, <1>2, PTL DEF Spec
-----------------------------------------------------------------------------
\* The nodes of every cluster model that fillData makes differ in name, in address
\* and in BMC address, whatever they inherited: what validateNodeInventoryTopology
\* accepted survives the BMC settings that fillData drops.  Two nodes have one MAC
\* address only when it is spelt with different separators, which the check does
\* not see.
THEOREM NodesAreDistinct == Spec => []InventoryIsUnique
<1>1. (which = "answerfile" => AnswerfileInv) => InventoryIsUnique
  <2> SUFFICES ASSUME AnswerfileInv, cluster # A!NoCluster
               PROVE  A!InventoryIsUnique
    BY DEF InventoryIsUnique, A!InventoryIsUnique
  <2>1. FilledCluster(cluster, env.head)
    BY DEF AnswerfileInv, ClusterInv
  <2>2. Distinct(cluster.nodes) /\ cluster.nodes \in Seq(LoadedNodes)
    BY <2>1 DEF FilledCluster, Clusters
  <2>3. DOMAIN cluster.nodes = 1..Len(cluster.nodes)
    BY <2>2, SeqOf
  <2> QED BY <2>2, <2>3, SpeltApart DEF A!InventoryIsUnique, Distinct
<1> QED BY <1>1, FileInvariance, PTL

\* Whatever the operator's answerfile is, the file that dumpData writes of its
\* cluster is read without a complaint and makes the same cluster again, but for
\* the root passwords of single nodes; the exceptions are the ones that
\* Unreadable names.
THEOREM WrittenClusterReturns == Spec => []DumpedClusterReturns
<1>1. (which = "answerfile" => AnswerfileInv) => DumpedClusterReturns
  <2> SUFFICES ASSUME AnswerfileInv, Returning
               PROVE  /\ fileStage # "refused"
                      /\ fileStage = "done" => A!WithoutRoot(cluster) = A!WithoutRoot(first)
    BY DEF DumpedClusterReturns, A!DumpedClusterReturns, Returning
  <2>1. fileStage # "refused"
    BY DEF AnswerfileInv, ReturnInv
  <2> SUFFICES ASSUME fileStage = "done"
               PROVE  A!WithoutRoot(cluster) = A!WithoutRoot(first)
    BY <2>1
  <2>2. SameSections /\ SameNodes
    BY DEF AnswerfileInv, ReturnInv
  <2>3. cluster \in Clusters /\ first \in Clusters
    BY Written DEF AnswerfileInv, ClusterInv, FilledCluster, Returning
  <2>4. /\ cluster.nodes \in Seq(LoadedNodes) /\ first.nodes \in Seq(LoadedNodes)
    BY <2>3 DEF Clusters
  <2>5. /\ DOMAIN cluster.nodes = 1..Len(first.nodes) /\ DOMAIN first.nodes = 1..Len(first.nodes)
        /\ \A i \in 1..Len(first.nodes) : first.nodes[i] \in LoadedNodes
    BY <2>2, <2>4, SeqOf DEF SameNodes
  <2>6. ASSUME NEW i \in 1..Len(first.nodes)
        PROVE  [cluster.nodes[i] EXCEPT !.root = ""] = [first.nodes[i] EXCEPT !.root = ""]
    BY <2>2, <2>5 DEF SameNodes, ReadBack, LoadedNodes
  <2>7. [i \in DOMAIN cluster.nodes |-> [cluster.nodes[i] EXCEPT !.root = ""]]
            = [i \in DOMAIN first.nodes |-> [first.nodes[i] EXCEPT !.root = ""]]
    BY <2>5, <2>6
  <2> QED BY <2>2, <2>3, <2>7 DEF SameSections, A!WithoutRoot, Clusters
<1> QED BY <1>1, FileInvariance, PTL
=============================================================================
