----------------------------- MODULE Confluent -----------------------------
(***************************************************************************)
(* Confluent::install (src/src/services/confluent.cpp): one script prepares  *)
(* Confluent, builds the diskless image of the compute nodes in a scratch    *)
(* directory and publishes it; the nodes are then defined one by one, the    *)
(* head node's line in the hosts file is restored and PBS is told about the  *)
(* nodes.  Every step can fail and the installer is started again with other *)
(* settings on what the last run left.                                       *)
(*                                                                          *)
(* Of the tools only what the code relies on is modelled: imgutil builds and *)
(* packs a directory, confluent2hosts writes the nodes Confluent knows to    *)
(* the hosts file and drops the head node from it, qmgr and a restarted PBS  *)
(* server resolve names with the hosts file.                                 *)
(***************************************************************************)
EXTENDS FiniteSets

CONSTANTS
    Names,      \* hostnames of compute nodes
    Addrs,      \* their management addresses
    Heads,      \* management addresses the head node can have
    Kernels,    \* kernel versions
    Requests    \* the settings the installer is started with

Unset == "unset"
Queues == {"none", "slurm", "pbs"}
OSes == {"el", "deb"}
Clusters == UNION { [S -> Addrs] : S \in SUBSET Names }
Settings == [nodes : Clusters, head : Heads, queue : Queues, os : OSes,
             ofed : {"none", "inbox", "doca", "oracle"}, fabric : BOOLEAN,
             kernel : Kernels \cup {Unset}, running : Kernels]

ASSUME NodesAssumption == Unset \notin Addrs \cup Kernels
ASSUME RequestsAssumption == Requests \subseteq Settings /\ Requests # {}

VARIABLES
    pc,         \* the next step of the run, "off" or "done" when none goes on
    cfg,        \* its settings
    left,       \* the nodes the current loop has still to visit
    imported,   \* the distributions osdeploy has imported
    scratch,    \* the image in the scratch directory
    published,  \* the diskless images the nodes boot
    nodes,      \* Confluent's node database: the address of each node
    hosts,      \* the compute records of the hosts file
    headHosts,  \* the addresses its lines for the head node have
    pbs         \* the address the PBS server has resolved for each node

vars == <<pc, cfg, left, imported, scratch, published, nodes, hosts, headHosts,
          pbs>>
image == <<imported, scratch, published>>
registry == <<nodes, hosts, headHosts, pbs>>

NoImage == [state |-> "none", repos |-> FALSE, packages |-> {}, chrony |-> Unset,
            mounts |-> Unset, server |-> Unset, drivers |-> {}, kernels |-> {},
            boot |-> Unset, stuck |-> FALSE]
Broken == [NoImage EXCEPT !.state = "partial"]

\* queueSystemNodePackage: empty when there is no queue system.
QueuePackage(queue) ==
    CASE queue = "slurm" -> {"ohpc-slurm-client"}
      [] queue = "pbs" -> {"openpbs-execution-ohpc"}
      [] OTHER -> {}

\* buildNodeImagePackages, buildNodeImageInstallCommand
ImagePackages(c) == {"ohpc-base-compute", "lmod-ohpc", "hwloc"}
                        \cup QueuePackage(c.queue)

\* buildNodeImageOFEDCommands does nothing without an application network or
\* without an OFED stack.
StagesDoca(c) == c.fabric /\ c.ofed = "doca"

\* What it throws on, which is before any command is run.
Unsupported(c) ==
    c.fabric /\ (c.ofed = "oracle" \/ (c.ofed = "doca" /\ c.os = "deb"))

\* selectConfluentImageKernelVersion
ImageKernel(c) ==
    IF c.kernel # Unset THEN c.kernel
    ELSE IF c.ofed = "doca" THEN c.running ELSE Unset

-----------------------------------------------------------------------------
\* The earlier roles of the same run have put the head node into the hosts file.
Start(c) ==
    /\ pc \in {"off", "done"} /\ pc' = "bootstrap" /\ ~Unsupported(c)
    /\ cfg' = c /\ UNCHANGED left
    /\ headHosts' = headHosts \cup {c.head}
    /\ UNCHANGED <<imported, scratch, published, nodes, hosts, pbs>>

\* Repositories, packages, services and the Confluent environment.
Bootstrap ==
    /\ pc = "bootstrap" /\ pc' = "settings"
    /\ UNCHANGED <<cfg, left, image, registry>>

\* dnsmasq, SELinux, the trusted interface, the attributes of the group of all
\* nodes, the key pair, osdeploy initialize and Apache.
Configure ==
    /\ pc = "settings" /\ pc' = "import"
    /\ UNCHANGED <<cfg, left, image, registry>>

\* A failed import is let pass; the distribution must be there unless Ubuntu,
\* which imgutil builds from the head node's own sources.
ImportMedia ==
    /\ pc = "import"
    /\ imported' \in {imported, imported \cup {cfg.os}}
    /\ pc' = IF cfg.os = "deb" \/ cfg.os \in imported' THEN "clean" ELSE "off"
    /\ UNCHANGED <<cfg, left, scratch, published, registry>>

\* What rm -rf can leave of the scratch directory: nothing, or, when it fails,
\* what it could not remove, of which the model remembers that it is there.
Removal(s) ==
    {NoImage} \cup (IF s = NoImage THEN {}
                    ELSE { [i EXCEPT !.stuck = TRUE] : i \in {s, Broken} })

\* Mutant of RemoveLeftovers: the scratch directory is left as it is.
KeepScratch ==
    /\ pc = "clean" /\ pc' = "build"
    /\ published' \in {published, [published EXCEPT ![cfg.os] = NoImage]}
    /\ UNCHANGED <<cfg, left, imported, scratch, registry>>

\* Neither removal is checked.
RemoveLeftovers ==
    /\ pc = "clean" /\ pc' = "build"
    /\ scratch' \in Removal(scratch)
    /\ published' \in {published, [published EXCEPT ![cfg.os] = NoImage]}
    /\ UNCHANGED <<cfg, left, imported, registry>>

\* imgutil build: a system with the kernel of its package source, on top of what
\* is in the directory.
BuildScratch ==
    /\ pc = "build" /\ pc' = "repos"
    /\ \E k \in Kernels :
          scratch' = [scratch EXCEPT !.state = "built", !.kernels = @ \cup {k}]
    /\ UNCHANGED <<cfg, left, imported, published, registry>>

\* buildNodeImageRepositorySyncCommands
SyncRepositories ==
    /\ pc = "repos" /\ pc' = "chrony"
    /\ scratch' = [scratch EXCEPT !.repos = TRUE]
    /\ UNCHANGED <<cfg, left, imported, published, registry>>

ConfigureChrony ==
    /\ pc = "chrony" /\ pc' = "autofs"
    /\ scratch.repos
    /\ scratch' = [scratch EXCEPT !.chrony = cfg.head,
                                  !.packages = @ \cup {"chrony"}]
    /\ UNCHANGED <<cfg, left, imported, published, registry>>

ConfigureAutofs ==
    /\ pc = "autofs" /\ pc' = "queue"
    /\ scratch.repos
    /\ scratch' = [scratch EXCEPT !.mounts = cfg.head,
                                  !.packages = @ \cup {"autofs"}]
    /\ UNCHANGED <<cfg, left, imported, published, registry>>

\* buildNodeImageQueueSystemCommands: SLURM nodes fetch their configuration
\* from the head node.
ConfigureQueue ==
    /\ pc = "queue" /\ pc' = "ofed"
    /\ scratch.repos
    /\ scratch' = [scratch EXCEPT !.packages = @ \cup ImagePackages(cfg),
                                  !.server = IF cfg.queue = "slurm" THEN cfg.head
                                             ELSE @]
    /\ UNCHANGED <<cfg, left, imported, published, registry>>

\* The packages of a kernel, also from the archive of the distribution, are put
\* next to the kernel the image was built with.
WithKernel(k) == scratch.kernels \cup {k}

\* What dnf install doca-ofed gives: the drivers of the repository file named after
\* the kernel, which is generated when it is not there.  In a directory that still
\* has the drivers of another kernel the packages can count as installed.
WithDrivers(k) ==
    {scratch.drivers \cup {k}}
        \cup (IF scratch.drivers \cap Kernels = {} THEN {} ELSE {scratch.drivers})

\* The other stacks.
PlainDrivers(c) == IF c.fabric /\ c.ofed = "inbox" THEN {"inbox"} ELSE {}

\* buildNodeImageOFEDCommands
StageDrivers ==
    /\ pc = "ofed" /\ pc' = "pack"
    /\ \/ /\ StagesDoca(cfg)
          /\ LET k == ImageKernel(cfg)
             IN  \E d \in WithDrivers(k) :
                     scratch' = [scratch EXCEPT !.kernels = WithKernel(k), !.drivers = d]
       \/ /\ ~StagesDoca(cfg)
          /\ scratch' = [scratch EXCEPT !.drivers = @ \cup PlainDrivers(cfg)]
    /\ UNCHANGED <<cfg, left, imported, published, registry>>

\* Mutant of PackImage: the boot kernel is not looked at.
PackUnchecked ==
    /\ pc = "pack" /\ pc' = "finish"
    /\ \E k \in scratch.kernels :
          published' = [published EXCEPT ![cfg.os] = [scratch EXCEPT !.boot = k]]
    /\ UNCHANGED <<cfg, left, imported, scratch, registry>>

\* imgutil pack publishes one of the kernels.  With DOCA the boot files are
\* refreshed and a kernel other than the drivers' ends the run, with that image
\* published.
PackImage ==
    /\ pc = "pack"
    /\ \E k \in scratch.kernels :
          /\ published' = [published EXCEPT ![cfg.os] = [scratch EXCEPT !.boot = k]]
          /\ pc' = IF StagesDoca(cfg) /\ k # ImageKernel(cfg) THEN "off" ELSE "finish"
    /\ UNCHANGED <<cfg, left, imported, scratch, registry>>

\* The syncfiles list, and the scratch directory goes if it can be removed.
FinishImage ==
    /\ pc = "finish" /\ pc' = "nodes"
    /\ scratch' \in {scratch, NoImage}
    /\ left' = DOMAIN cfg.nodes
    /\ UNCHANGED <<cfg, imported, published, registry>>

-----------------------------------------------------------------------------
\* buildNodeDefinitionScript up to its last command.
DefineNode ==
    /\ pc = "nodes" /\ pc' = "confluent2hosts"
    /\ \E n \in left : nodes' = [nodes EXCEPT ![n] = cfg.nodes[n]] /\ left' = left \ {n}
    /\ UNCHANGED <<cfg, image, hosts, headHosts, pbs>>

\* confluent2hosts -a everything
PublishHosts ==
    /\ pc = "confluent2hosts" /\ pc' = "nodes"
    /\ hosts' = nodes /\ headHosts' = {}
    /\ UNCHANGED <<cfg, left, image, nodes, pbs>>

\* Mutant of AllNodesAdded: the nodes are registered before the head node's
\* line is back.
RegisterFirst ==
    /\ pc = "nodes" /\ left = {} /\ pc' = "register"
    /\ left' = DOMAIN cfg.nodes
    /\ UNCHANGED <<cfg, image, registry>>

AllNodesAdded ==
    /\ pc = "nodes" /\ left = {} /\ pc' = "repair"
    /\ UNCHANGED <<cfg, left, image, registry>>

\* buildHeadnodeHostsRepairScript, and the test of registerPbsNodes.
RepairHeadHosts ==
    /\ pc = "repair"
    /\ headHosts' = headHosts \cup {cfg.head}
    /\ \/ cfg.queue = "pbs" /\ pc' = "register" /\ left' = DOMAIN cfg.nodes
       \/ cfg.queue # "pbs" /\ pc' = "initialize" /\ UNCHANGED left
    /\ UNCHANGED <<cfg, image, nodes, hosts, pbs>>

\* qmgr finds the server by the head node's name and can only create a node
\* whose name it can resolve.
CanRegister(n) == cfg.head \in headHosts /\ hosts[n] # Unset

\* buildPbsNodeRegistrationCommand: a node that is there is left alone.
RegisterNode ==
    /\ pc = "register"
    /\ \E n \in left :
          /\ CanRegister(n)
          /\ pbs' = [pbs EXCEPT ![n] = IF @ = Unset THEN hosts[n] ELSE @]
          /\ left' = left \ {n}
    /\ UNCHANGED <<pc, cfg, image, nodes, hosts, headHosts>>

\* Mutant of RestartPbs: the server keeps the addresses it has.
NoRestart ==
    /\ pc = "register" /\ left = {} /\ pc' = "initialize"
    /\ UNCHANGED <<cfg, left, image, registry>>

\* systemctl restart pbs
RestartPbs ==
    /\ pc = "register" /\ left = {} /\ pc' = "initialize"
    /\ pbs' = [n \in Names |-> IF pbs[n] = Unset THEN Unset ELSE hosts[n]]
    /\ UNCHANGED <<cfg, left, image, nodes, hosts, headHosts>>

Initialize ==
    /\ pc = "initialize" /\ pc' = "done"
    /\ UNCHANGED <<cfg, left, image, registry>>

-----------------------------------------------------------------------------
\* A command fails or the process is killed: the directory or the file the
\* step was writing is left old, torn or new.
StopInScript ==
    /\ pc \in {"bootstrap", "settings", "import", "repos", "chrony", "autofs",
               "queue", "ofed", "finish"}
    /\ UNCHANGED <<image, registry>>

StopInClean ==
    /\ pc \in {"clean", "build"}
    /\ scratch' \in {scratch, Broken, NoImage}
    /\ published' \in {published, [published EXCEPT ![cfg.os] = Broken]}
    /\ UNCHANGED <<imported, registry>>

StopInPack ==
    /\ pc = "pack"
    /\ published' \in {published, [published EXCEPT ![cfg.os] = Broken]}
    /\ UNCHANGED <<imported, scratch, registry>>

StopInNodes ==
    /\ pc \in {"nodes", "confluent2hosts", "repair", "register", "initialize"}
    /\ UNCHANGED <<image, registry>>

Stop ==
    /\ pc' = "off"
    /\ StopInScript \/ StopInClean \/ StopInPack \/ StopInNodes
    /\ left' = {} /\ UNCHANGED cfg

Init ==
    /\ pc = "off" /\ cfg \in Requests /\ left = {}
    /\ imported = {} /\ scratch = NoImage /\ published = [o \in OSes |-> NoImage]
    /\ nodes = [n \in Names |-> Unset]
    /\ hosts = [n \in Names |-> Unset] /\ headHosts = {}
    /\ pbs = [n \in Names |-> Unset]

\* The script of Confluent::install.
BuildImage ==
    Bootstrap \/ Configure \/ ImportMedia \/ RemoveLeftovers \/ BuildScratch
        \/ SyncRepositories \/ ConfigureChrony \/ ConfigureAutofs
        \/ ConfigureQueue \/ StageDrivers \/ PackImage \/ FinishImage

\* What follows it.
AddNodes ==
    DefineNode \/ PublishHosts \/ AllNodesAdded \/ RepairHeadHosts
        \/ RegisterNode \/ RestartPbs \/ Initialize

Next == (\E c \in Requests : Start(c)) \/ BuildImage \/ AddNodes \/ Stop

Spec == Init /\ [][Next]_vars

-----------------------------------------------------------------------------
Steps == {"off", "bootstrap", "settings", "import", "clean", "build", "repos",
          "chrony", "autofs", "queue", "ofed", "pack", "finish", "nodes",
          "confluent2hosts", "repair", "register", "initialize", "done"}
Packages == {"ohpc-base-compute", "lmod-ohpc", "hwloc", "ohpc-slurm-client",
             "openpbs-execution-ohpc", "chrony", "autofs"}
ImageType == [state : {"none", "partial", "built"}, repos : BOOLEAN,
              packages : SUBSET Packages, chrony : Heads \cup {Unset},
              mounts : Heads \cup {Unset}, server : Heads \cup {Unset},
              drivers : SUBSET (Kernels \cup {"inbox"}),
              kernels : SUBSET Kernels, boot : Kernels \cup {Unset},
              stuck : BOOLEAN]
Resolved == [Names -> Addrs \cup {Unset}]

TypeOK ==
    /\ pc \in Steps /\ cfg \in Settings /\ left \subseteq DOMAIN cfg.nodes
    /\ imported \subseteq OSes
    /\ scratch \in ImageType /\ published \in [OSes -> ImageType]
    /\ nodes \in Resolved /\ hosts \in Resolved /\ pbs \in Resolved
    /\ headHosts \subseteq Heads

AfterImage == {"nodes", "confluent2hosts", "repair", "register", "initialize", "done"}

\* What the script of this run puts into the image.
Wanted == ImagePackages(cfg) \cup {"chrony", "autofs"}
WantedServer == IF cfg.queue = "slurm" THEN cfg.head ELSE Unset
WantedDrivers ==
    IF StagesDoca(cfg) THEN {ImageKernel(cfg)} ELSE PlainDrivers(cfg)

\* The image the nodes boot has this run's head node, its packages and its SLURM
\* server, whatever the scratch directory held when it was built.  It has nothing
\* else, no packages of another queue system and no other drivers, unless the
\* scratch directory of an earlier run could not be removed: "rm -rf $scratchdir
\* || :" lets that pass, and what it held is packed with the rest.
ImageIsThisRuns ==
    pc \in AfterImage =>
        LET i == published[cfg.os]
        IN  /\ i.state = "built"
            /\ i.chrony = cfg.head /\ i.mounts = cfg.head
            /\ Wanted \subseteq i.packages
            /\ cfg.queue = "slurm" => i.server = cfg.head
            /\ ~i.stuck => /\ i.packages = Wanted
                           /\ i.server = WantedServer
                           /\ i.drivers = WantedDrivers

\* With DOCA, nodes are only told to boot an image whose boot kernel is the kernel
\* of this run, although the image holds two kernels ("Published Confluent boot
\* kernel ... does not match"), and it is the kernel its drivers were built for,
\* although driver repositories of other kernels are on the head node.  The check
\* does not look at the drivers: in a scratch directory that could not be removed
\* those of an earlier kernel may be the only ones.
DocaKernelMatches ==
    (pc \in AfterImage /\ StagesDoca(cfg)) =>
        LET i == published[cfg.os]
        IN  /\ i.boot = ImageKernel(cfg)
            /\ ~i.stuck => i.drivers = {i.boot}

\* Every confluent2hosts run drops the head node from the hosts file, and PBS
\* can only register a node when the server's name and the node's resolve: the
\* registration runs when both do, and to the addresses of this run
\* ("Must run after the last confluent2hosts call AND after the head-node hosts
\* repair").
RegistrationResolves ==
    pc = "register" =>
        /\ cfg.head \in headHosts
        /\ \A n \in DOMAIN cfg.nodes : hosts[n] = cfg.nodes[n]

NoCluster == [n \in {} |-> Unset]
PbsNodes(c) == IF c.queue = "pbs" THEN c.nodes ELSE NoCluster

Registry == INSTANCE NodeRegistry
    WITH NoAddr <- Unset, registry <- pbs, wanted <- PbsNodes(cfg),
         phase <- CASE pc = "off" -> "idle" [] pc = "done" -> "complete"
                    [] OTHER -> "running"

\* Confluent and PBS agree in the end: a run that completes has every node
\* registered under its new address, also a node PBS had cached another address
\* of, and no node is ever taken away.
ImplementsRegistry == Registry!RSpec

=============================================================================
