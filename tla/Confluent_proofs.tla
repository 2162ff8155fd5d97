-------------------------- MODULE Confluent_proofs --------------------------
(***************************************************************************)
(* Proofs about Confluent, for any nodes, addresses, head nodes, kernels    *)
(* and settings and any number of interrupted runs, and the proof that it    *)
(* implements NodeRegistry.                                                  *)
(***************************************************************************)
EXTENDS Confluent, TLAPS

Registering == {"register", "initialize", "done"}

\* From imgutil build on the directory has what the steps of the script so far
\* have added.
ScratchInv ==
    /\ pc \in {"repos", "chrony", "autofs", "queue", "ofed", "pack"} =>
            scratch.state = "built"
    /\ pc \in {"autofs", "queue", "ofed", "pack"} =>
            scratch.chrony = cfg.head /\ "chrony" \in scratch.packages
    /\ pc \in {"queue", "ofed", "pack"} =>
            scratch.mounts = cfg.head /\ "autofs" \in scratch.packages
    /\ pc \in {"ofed", "pack"} =>
            /\ ImagePackages(cfg) \subseteq scratch.packages
            /\ cfg.queue = "slurm" => scratch.server = cfg.head

\* It has nothing else when what an earlier run left there could be removed.
CleanInv ==
    ~scratch.stuck =>
        /\ pc = "build" => scratch = NoImage
        /\ pc \in {"repos", "chrony"} => scratch.packages = {}
        /\ pc = "autofs" => scratch.packages = {"chrony"}
        /\ pc = "queue" => scratch.packages = {"chrony", "autofs"}
        /\ pc \in {"repos", "chrony", "autofs", "queue"} => scratch.server = Unset
        /\ pc \in {"ofed", "pack"} =>
                scratch.packages = Wanted /\ scratch.server = WantedServer
        /\ pc \in {"repos", "chrony", "autofs", "queue", "ofed"} => scratch.drivers = {}
        /\ pc = "pack" => scratch.drivers = WantedDrivers

\* The image that was packed is the scratch directory of this run.
PublishedInv ==
    pc \in AfterImage \cup {"finish"} =>
        LET i == published[cfg.os]
        IN  /\ i.state = "built"
            /\ i.chrony = cfg.head /\ i.mounts = cfg.head
            /\ Wanted \subseteq i.packages
            /\ cfg.queue = "slurm" => i.server = cfg.head
            /\ StagesDoca(cfg) => i.boot = ImageKernel(cfg)
            /\ ~i.stuck => /\ i.packages = Wanted
                           /\ i.server = WantedServer
                           /\ i.drivers = WantedDrivers

\* A loop over the nodes is only under way in its own steps.
LoopInv == left # {} => pc \in {"nodes", "confluent2hosts", "register"}

\* The nodes that have been visited have this run's address, in Confluent and,
\* after confluent2hosts, in the hosts file.
HostsInv ==
    /\ pc = "confluent2hosts" =>
            \A n \in DOMAIN cfg.nodes \ left : nodes[n] = cfg.nodes[n]
    /\ pc = "nodes" =>
            \A n \in DOMAIN cfg.nodes \ left :
                nodes[n] = cfg.nodes[n] /\ hosts[n] = cfg.nodes[n]
    /\ pc \in {"repair"} \cup Registering =>
            \A n \in DOMAIN cfg.nodes : hosts[n] = cfg.nodes[n]

\* A name that is in the hosts file, or that PBS has resolved, stays resolvable:
\* no run takes a node out of Confluent's database.
NamesStay ==
    \A n \in Names : /\ hosts[n] # Unset => nodes[n] # Unset
                     /\ pbs[n] # Unset => hosts[n] # Unset

\* What PBS has of the nodes of this run.
PbsInv ==
    /\ pc = "register" =>
            /\ cfg.queue = "pbs" /\ cfg.head \in headHosts
            /\ \A n \in DOMAIN cfg.nodes \ left : pbs[n] # Unset
    /\ (pc \in {"initialize", "done"} /\ cfg.queue = "pbs") =>
            \A n \in DOMAIN cfg.nodes : pbs[n] = cfg.nodes[n]

\* The inductive invariant.
IInv ==
    /\ TypeOK /\ ScratchInv /\ CleanInv /\ PublishedInv
    /\ LoopInv /\ HostsInv /\ NamesStay /\ PbsInv

-----------------------------------------------------------------------------
\* The settings of a run, field by field.
LEMMA SettingsFields ==
    ASSUME NEW c \in Settings
    PROVE  /\ c.head \in Heads /\ c.queue \in Queues /\ c.os \in OSes
           /\ c.ofed \in {"none", "inbox", "doca", "oracle"} /\ c.fabric \in BOOLEAN
           /\ c.kernel \in Kernels \cup {Unset} /\ c.running \in Kernels
           /\ c.nodes \in Clusters /\ DOMAIN c.nodes \subseteq Names
           /\ \A n \in DOMAIN c.nodes : c.nodes[n] \in Addrs
<1>1. /\ c.head \in Heads /\ c.queue \in Queues /\ c.os \in OSes
      /\ c.ofed \in {"none", "inbox", "doca", "oracle"} /\ c.fabric \in BOOLEAN
      /\ c.kernel \in Kernels \cup {Unset} /\ c.running \in Kernels
      /\ c.nodes \in Clusters
  BY DEF Settings
<1>2. PICK S \in SUBSET Names : c.nodes \in [S -> Addrs]
  BY <1>1 DEF Clusters
<1> QED BY <1>1, <1>2

\* An image staged with DOCA has a kernel, and its packages are known ones.
LEMMA ImageParts ==
    ASSUME NEW c \in Settings
    PROVE  /\ StagesDoca(c) => ImageKernel(c) \in Kernels
           /\ ImagePackages(c) \subseteq Packages
BY SettingsFields DEF StagesDoca, ImageKernel, ImagePackages, QueuePackage, Packages

LEMMA ImageConstants ==
    /\ NoImage \in ImageType /\ Broken \in ImageType
    /\ NoImage.packages = {} /\ NoImage.drivers = {} /\ NoImage.server = Unset
    /\ ~NoImage.stuck
BY DEF NoImage, Broken, ImageType

\* What the removal leaves is nothing, or it is remembered.
LEMMA RemovalLeaves ==
    ASSUME NEW s \in ImageType, NEW t \in Removal(s)
    PROVE  t \in ImageType /\ (t = NoImage \/ t.stuck)
<1>1. NoImage \in ImageType /\ Broken \in ImageType
  BY ImageConstants
<1>2. ASSUME NEW i \in ImageType
      PROVE  /\ [i EXCEPT !.stuck = TRUE] \in ImageType
             /\ [i EXCEPT !.stuck = TRUE].stuck
  BY DEF ImageType
<1> QED BY <1>1, <1>2 DEF Removal

LEMMA InitIInv == Init => IInv
<1> SUFFICES ASSUME Init PROVE IInv
  OBVIOUS
<1>1. cfg \in Settings
  BY RequestsAssumption DEF Init
<1>2. TypeOK
  BY <1>1, ImageConstants DEF Init, TypeOK, Steps, Resolved
<1> QED
  BY <1>2 DEF Init, IInv, ScratchInv, CleanInv, PublishedInv, LoopInv, HostsInv, NamesStay,
              PbsInv, AfterImage, Registering

-----------------------------------------------------------------------------
ScriptSteps == {"bootstrap", "settings", "import", "clean", "build", "repos", "chrony",
                "autofs", "queue", "ofed", "pack", "finish"}

\* The script does not touch the nodes, the hosts file and PBS.
LEMMA ScriptFrame ==
    ASSUME IInv, UNCHANGED <<cfg, left, registry>>,
           pc \in ScriptSteps, pc' \in ScriptSteps \cup {"off"}
    PROVE  LoopInv' /\ HostsInv' /\ NamesStay' /\ PbsInv'
BY DEF IInv, LoopInv, HostsInv, NamesStay, PbsInv, ScriptSteps, registry, Registering

\* What follows the script does not touch the image.
LEMMA NodesFrame ==
    ASSUME IInv, UNCHANGED <<cfg, image>>,
           pc \in AfterImage \cup {"finish"}, pc' \in AfterImage
    PROVE  ScratchInv' /\ CleanInv' /\ PublishedInv'
<1>1. UNCHANGED <<cfg, scratch, published>>
  BY DEF image
<1>2. ScratchInv' /\ CleanInv'
  BY <1>1 DEF ScratchInv, CleanInv, AfterImage
<1>3. PublishedInv'
  BY <1>1 DEF IInv, PublishedInv, Wanted, WantedServer, WantedDrivers
<1> QED BY <1>2, <1>3

LEMMA StartIInv ==
    ASSUME IInv, NEW c \in Requests, Start(c)
    PROVE  IInv'
<1>1. c \in Settings /\ left = {}
  BY RequestsAssumption DEF Start, IInv, LoopInv
<1>2. TypeOK'
  BY <1>1, SettingsFields DEF Start, IInv, TypeOK, Steps
<1> QED
  BY <1>1, <1>2
  DEF Start, IInv, ScratchInv, CleanInv, PublishedInv, LoopInv, HostsInv, NamesStay, PbsInv, AfterImage,
      Registering

\* The steps of the script up to the point where the directory is built.
LEMMA PrepareIInv ==
    ASSUME IInv, Bootstrap \/ Configure \/ ImportMedia \/ RemoveLeftovers \/ BuildScratch
    PROVE  IInv'
<1>0. cfg.os \in OSes
  BY SettingsFields DEF IInv, TypeOK
<1>1. TypeOK'
  <2>1. CASE Bootstrap \/ Configure
    BY <2>1 DEF Bootstrap, Configure, IInv, TypeOK, Steps, image, registry
  <2>2. CASE ImportMedia
    BY <2>2, <1>0 DEF ImportMedia, IInv, TypeOK, Steps, registry
  <2>3. CASE RemoveLeftovers
    BY <2>3, <1>0, ImageConstants, RemovalLeaves
    DEF RemoveLeftovers, IInv, TypeOK, Steps, registry
  <2>4. CASE BuildScratch
    <3>0. PICK k \in Kernels :
              scratch' = [scratch EXCEPT !.state = "built", !.kernels = @ \cup {k}]
      BY <2>4 DEF BuildScratch
    <3>1. scratch' \in ImageType
      BY <3>0 DEF IInv, TypeOK, ImageType
    <3> QED BY <2>4, <3>1 DEF BuildScratch, IInv, TypeOK, Steps, registry
  <2> QED BY <2>1, <2>2, <2>3, <2>4
<1>2. ScratchInv' /\ CleanInv'
  <2>1. CASE Bootstrap \/ Configure \/ ImportMedia
    BY <2>1 DEF Bootstrap, Configure, ImportMedia, ScratchInv, CleanInv
  <2>2. CASE RemoveLeftovers
    <3>1. scratch' = NoImage \/ scratch'.stuck
      BY <2>2, RemovalLeaves DEF RemoveLeftovers, IInv, TypeOK
    <3> QED BY <2>2, <3>1 DEF RemoveLeftovers, ScratchInv, CleanInv
  <2>3. CASE BuildScratch
    <3>1. PICK k \in Kernels :
              scratch' = [scratch EXCEPT !.state = "built", !.kernels = @ \cup {k}]
      BY <2>3 DEF BuildScratch
    <3>2. /\ scratch'.state = "built" /\ scratch'.packages = scratch.packages
          /\ scratch'.server = scratch.server /\ scratch'.drivers = scratch.drivers
          /\ scratch'.stuck = scratch.stuck
      BY <3>1 DEF IInv, TypeOK, ImageType
    <3>3. pc = "build" /\ pc' = "repos"
      BY <2>3 DEF BuildScratch
    <3> QED BY <3>2, <3>3, ImageConstants DEF IInv, ScratchInv, CleanInv
  <2> QED BY <2>1, <2>2, <2>3
<1>3. /\ UNCHANGED <<cfg, left, registry>>
      /\ pc \in ScriptSteps /\ pc' \in (ScriptSteps \ {"finish"}) \cup {"off"}
  BY DEF Bootstrap, Configure, ImportMedia, RemoveLeftovers, BuildScratch, ScriptSteps
<1>4. PublishedInv'
  BY <1>3 DEF PublishedInv, AfterImage, ScriptSteps
<1> QED BY <1>1, <1>2, <1>3, <1>4, ScriptFrame DEF IInv

\* The steps that change the directory.
LEMMA CustomizeIInv ==
    ASSUME IInv, SyncRepositories \/ ConfigureChrony \/ ConfigureAutofs \/ ConfigureQueue
                    \/ StageDrivers
    PROVE  IInv'
<1>0. /\ cfg \in Settings /\ scratch \in ImageType
      /\ cfg.head \in Heads /\ cfg.queue \in Queues
  BY SettingsFields DEF IInv, TypeOK
<1>1. /\ UNCHANGED <<cfg, left, registry, imported, published>>
      /\ pc \in ScriptSteps /\ pc' \in ScriptSteps \ {"finish"}
  BY DEF SyncRepositories, ConfigureChrony, ConfigureAutofs, ConfigureQueue, StageDrivers,
         ScriptSteps
<1>2. PublishedInv'
  BY <1>1 DEF PublishedInv, AfterImage, ScriptSteps
<1>3. ASSUME scratch' \in ImageType
      PROVE  TypeOK'
  BY <1>1, <1>3 DEF IInv, TypeOK, Steps, ScriptSteps, registry
<1>4. CASE SyncRepositories
  <2>1. scratch' = [scratch EXCEPT !.repos = TRUE]
    BY <1>4 DEF SyncRepositories
  <2>2. scratch' \in ImageType
    BY <1>0, <2>1 DEF ImageType, IInv, TypeOK
  <2>3. ScratchInv' /\ CleanInv'
    BY <1>4, <1>0, <2>1 DEF SyncRepositories, IInv, ScratchInv, CleanInv, ImageType
  <2> QED BY <1>1, <1>2, <1>3, <2>2, <2>3, ScriptFrame DEF IInv
<1>5. CASE ConfigureChrony
  <2>1. scratch' = [scratch EXCEPT !.chrony = cfg.head, !.packages = @ \cup {"chrony"}]
    BY <1>5 DEF ConfigureChrony
  <2>2. scratch' \in ImageType
    BY <1>0, <2>1 DEF ImageType, IInv, TypeOK, Packages
  <2>3. ScratchInv' /\ CleanInv'
    BY <1>5, <1>0, <2>1 DEF ConfigureChrony, IInv, ScratchInv, CleanInv, ImageType
  <2> QED BY <1>1, <1>2, <1>3, <2>2, <2>3, ScriptFrame DEF IInv
<1>6. CASE ConfigureAutofs
  <2>1. scratch' = [scratch EXCEPT !.mounts = cfg.head, !.packages = @ \cup {"autofs"}]
    BY <1>6 DEF ConfigureAutofs
  <2>2. scratch' \in ImageType
    BY <1>0, <2>1 DEF ImageType, IInv, TypeOK, Packages
  <2>3. ScratchInv' /\ CleanInv'
    BY <1>6, <1>0, <2>1 DEF ConfigureAutofs, IInv, ScratchInv, CleanInv, ImageType
  <2> QED BY <1>1, <1>2, <1>3, <2>2, <2>3, ScriptFrame DEF IInv
<1>7. CASE ConfigureQueue
  <2> DEFINE server == IF cfg.queue = "slurm" THEN cfg.head ELSE scratch.server
  <2>1. scratch' = [scratch EXCEPT !.packages = @ \cup ImagePackages(cfg),
                                   !.server = server]
    BY <1>7 DEF ConfigureQueue
  <2>2. scratch' \in ImageType
    BY <1>0, <2>1, ImageParts DEF ImageType, IInv, TypeOK
  <2>3. ScratchInv' /\ CleanInv'
    BY <1>7, <1>0, <2>1 DEF ConfigureQueue, IInv, ScratchInv, CleanInv, ImageType, Wanted,
       WantedServer
  <2> QED BY <1>1, <1>2, <1>3, <2>2, <2>3, ScriptFrame DEF IInv
<1>8. CASE StageDrivers
  <2>1. CASE StagesDoca(cfg)
    <3> DEFINE k == ImageKernel(cfg)
    <3>1. k \in Kernels
      BY <1>0, <2>1, ImageParts
    <3>2. PICK d \in WithDrivers(k) :
              scratch' = [scratch EXCEPT !.kernels = WithKernel(k), !.drivers = d]
      BY <1>8, <2>1 DEF StageDrivers
    <3>3. /\ d \subseteq Kernels \cup {"inbox"} /\ WithKernel(k) \subseteq Kernels
          /\ scratch.drivers = {} => d = {k}
      BY <1>0, <3>1 DEF WithDrivers, WithKernel, ImageType
    <3>4. WantedDrivers' = {k}
      BY <1>1, <2>1 DEF WantedDrivers, StagesDoca, ImageKernel
    <3>5. Wanted' = Wanted /\ WantedServer' = WantedServer
      BY <1>1 DEF Wanted, WantedServer
    <3> HIDE DEF k
    <3>6. scratch' \in ImageType
      BY <1>0, <3>2, <3>3 DEF ImageType
    <3>7. /\ scratch'.drivers = d /\ scratch'.state = scratch.state
          /\ scratch'.chrony = scratch.chrony /\ scratch'.mounts = scratch.mounts
          /\ scratch'.packages = scratch.packages /\ scratch'.server = scratch.server
          /\ scratch'.stuck = scratch.stuck
      BY <1>0, <3>2 DEF ImageType
    <3>8. pc = "ofed" /\ pc' = "pack"
      BY <1>8 DEF StageDrivers
    <3>9. ScratchInv' /\ CleanInv'
      BY <1>1, <3>3, <3>4, <3>5, <3>7, <3>8 DEF IInv, ScratchInv, CleanInv
    <3> QED BY <1>1, <1>2, <1>3, <3>6, <3>9, ScriptFrame DEF IInv
  <2>2. CASE ~StagesDoca(cfg)
    <3> DEFINE d == PlainDrivers(cfg)
    <3>1. scratch' = [scratch EXCEPT !.drivers = @ \cup d]
      BY <1>8, <2>2 DEF StageDrivers
    <3>2. d \subseteq {"inbox"}
      BY DEF PlainDrivers
    <3>4. WantedDrivers' = d
      BY <1>1, <2>2 DEF WantedDrivers, StagesDoca
    <3>5. Wanted' = Wanted /\ WantedServer' = WantedServer
      BY <1>1 DEF Wanted, WantedServer
    <3> HIDE DEF d
    <3>6. scratch' \in ImageType
      BY <1>0, <3>1, <3>2 DEF ImageType
    <3>7. /\ scratch'.drivers = scratch.drivers \cup d /\ scratch'.state = scratch.state
          /\ scratch'.chrony = scratch.chrony /\ scratch'.mounts = scratch.mounts
          /\ scratch'.packages = scratch.packages /\ scratch'.server = scratch.server
          /\ scratch'.stuck = scratch.stuck
      BY <1>0, <3>1 DEF ImageType
    <3>8. pc = "ofed" /\ pc' = "pack"
      BY <1>8 DEF StageDrivers
    <3>9. ScratchInv' /\ CleanInv'
      BY <1>1, <3>4, <3>5, <3>7, <3>8 DEF IInv, ScratchInv, CleanInv
    <3> QED BY <1>1, <1>2, <1>3, <3>6, <3>9, ScriptFrame DEF IInv
  <2> QED BY <2>1, <2>2
<1> QED BY <1>4, <1>5, <1>6, <1>7, <1>8

\* The packed image is the scratch directory with a boot kernel; with DOCA the run
\* only goes on when that is the kernel of the drivers.
LEMMA PackIInv ==
    ASSUME IInv, PackImage
    PROVE  IInv'
<1>0. /\ cfg \in Settings /\ cfg.os \in OSes /\ scratch \in ImageType
      /\ published \in [OSes -> ImageType] /\ pc = "pack"
  BY SettingsFields DEF PackImage, IInv, TypeOK
<1>1. PICK k \in scratch.kernels :
          /\ published' = [published EXCEPT ![cfg.os] = [scratch EXCEPT !.boot = k]]
          /\ pc' = IF StagesDoca(cfg) /\ k # ImageKernel(cfg) THEN "off" ELSE "finish"
  BY DEF PackImage
<1>2. UNCHANGED <<cfg, left, imported, scratch, registry>>
  BY DEF PackImage
<1> DEFINE i == [scratch EXCEPT !.boot = k]
<1>3. /\ i \in ImageType /\ i.boot = k /\ i.state = scratch.state
      /\ i.chrony = scratch.chrony /\ i.mounts = scratch.mounts
      /\ i.packages = scratch.packages /\ i.server = scratch.server
      /\ i.drivers = scratch.drivers /\ i.stuck = scratch.stuck
  BY <1>0, <1>1 DEF ImageType
<1> HIDE DEF i
<1>4. published'[cfg.os] = i /\ published' \in [OSes -> ImageType]
  BY <1>0, <1>1, <1>3 DEF i
<1>5. TypeOK'
  BY <1>1, <1>2, <1>4 DEF IInv, TypeOK, Steps, registry
<1>6. /\ Wanted' = Wanted /\ WantedServer' = WantedServer
      /\ WantedDrivers' = WantedDrivers
  BY <1>2 DEF Wanted, WantedServer, WantedDrivers
<1>7. Wanted \subseteq scratch.packages
  BY <1>0 DEF IInv, ScratchInv, Wanted
<1>8. PublishedInv'
  BY <1>0, <1>1, <1>2, <1>3, <1>4, <1>6, <1>7
  DEF IInv, ScratchInv, CleanInv, PublishedInv, AfterImage
<1>9. ScratchInv' /\ CleanInv'
  BY <1>1 DEF ScratchInv, CleanInv
<1> QED BY <1>0, <1>1, <1>2, <1>5, <1>8, <1>9, ScriptFrame DEF IInv, ScriptSteps

LEMMA FinishIInv ==
    ASSUME IInv, FinishImage
    PROVE  IInv'
<1>1. TypeOK'
  BY ImageConstants DEF FinishImage, IInv, TypeOK, Steps, registry
<1>2. ScratchInv' /\ CleanInv' /\ PublishedInv'
  BY DEF FinishImage, IInv, ScratchInv, CleanInv, PublishedInv, AfterImage, Wanted,
         WantedServer, WantedDrivers
<1> QED
  BY <1>1, <1>2
  DEF FinishImage, IInv, LoopInv, HostsInv, NamesStay, PbsInv, Registering, registry

-----------------------------------------------------------------------------
\* The nodes are defined one by one, and the hosts file follows.
LEMMA DefineIInv ==
    ASSUME IInv, DefineNode \/ PublishHosts \/ AllNodesAdded
    PROVE  IInv'
<1>0. /\ DOMAIN cfg.nodes \subseteq Names
      /\ \A n \in DOMAIN cfg.nodes : cfg.nodes[n] \in Addrs
      /\ nodes \in Resolved /\ hosts \in Resolved /\ left \subseteq DOMAIN cfg.nodes
      /\ Unset \notin Addrs
  BY SettingsFields, NodesAssumption DEF IInv, TypeOK
<1>1. CASE DefineNode
  <2>1. PICK n \in left : /\ nodes' = [nodes EXCEPT ![n] = cfg.nodes[n]]
                          /\ left' = left \ {n}
    BY <1>1 DEF DefineNode
  <2>2. /\ pc = "nodes" /\ pc' = "confluent2hosts"
        /\ UNCHANGED <<cfg, image, hosts, headHosts, pbs>>
    BY <1>1 DEF DefineNode
  <2>3. TypeOK'
    BY <1>0, <2>1, <2>2 DEF IInv, TypeOK, Steps, Resolved, image
  <2>4. LoopInv' /\ HostsInv' /\ PbsInv'
    BY <1>0, <2>1, <2>2
    DEF IInv, LoopInv, HostsInv, PbsInv, Resolved, Registering
  <2>5. NamesStay'
    BY <1>0, <2>1, <2>2 DEF IInv, NamesStay, Resolved
  <2> QED BY <2>2, <2>3, <2>4, <2>5, NodesFrame DEF IInv, AfterImage
<1>2. CASE PublishHosts
  <2>1. /\ pc = "confluent2hosts" /\ pc' = "nodes"
        /\ hosts' = nodes /\ headHosts' = {}
        /\ UNCHANGED <<cfg, left, image, nodes, pbs>>
    BY <1>2 DEF PublishHosts
  <2>2. TypeOK'
    BY <2>1 DEF IInv, TypeOK, Steps, image
  <2>3. LoopInv' /\ HostsInv' /\ NamesStay' /\ PbsInv'
    BY <2>1 DEF IInv, LoopInv, HostsInv, NamesStay, PbsInv, Registering
  <2> QED BY <2>1, <2>2, <2>3, NodesFrame DEF IInv, AfterImage
<1>3. CASE AllNodesAdded
  <2>1. /\ pc = "nodes" /\ pc' = "repair" /\ left = {}
        /\ UNCHANGED <<cfg, left, image, registry>>
    BY <1>3 DEF AllNodesAdded
  <2>2. TypeOK'
    BY <2>1 DEF IInv, TypeOK, Steps, image, registry
  <2>3. LoopInv' /\ HostsInv' /\ NamesStay' /\ PbsInv'
    BY <2>1 DEF IInv, LoopInv, HostsInv, NamesStay, PbsInv, Registering, registry
  <2> QED BY <2>1, <2>2, <2>3, NodesFrame DEF IInv, AfterImage
<1> QED BY <1>1, <1>2, <1>3

\* The head node's line is put back and PBS learns the nodes.
LEMMA RegisterIInv ==
    ASSUME IInv, RepairHeadHosts \/ RegisterNode \/ RestartPbs \/ Initialize
    PROVE  IInv'
<1>0. /\ DOMAIN cfg.nodes \subseteq Names /\ cfg.head \in Heads
      /\ \A n \in DOMAIN cfg.nodes : cfg.nodes[n] \in Addrs
      /\ pbs \in Resolved /\ hosts \in Resolved /\ left \subseteq DOMAIN cfg.nodes
      /\ Unset \notin Addrs
  BY SettingsFields, NodesAssumption DEF IInv, TypeOK
<1>1. CASE RepairHeadHosts
  <2>1. /\ pc = "repair" /\ headHosts' = headHosts \cup {cfg.head}
        /\ \/ cfg.queue = "pbs" /\ pc' = "register" /\ left' = DOMAIN cfg.nodes
           \/ cfg.queue # "pbs" /\ pc' = "initialize" /\ UNCHANGED left
        /\ UNCHANGED <<cfg, image, nodes, hosts, pbs>>
    BY <1>1 DEF RepairHeadHosts
  <2>2. TypeOK'
    BY <1>0, <2>1 DEF IInv, TypeOK, Steps, image
  <2>3. LoopInv' /\ HostsInv' /\ NamesStay' /\ PbsInv'
    BY <2>1 DEF IInv, LoopInv, HostsInv, NamesStay, PbsInv, Registering
  <2> QED BY <2>1, <2>2, <2>3, NodesFrame DEF IInv, AfterImage
<1>2. CASE RegisterNode
  <2>1. PICK n \in left :
            /\ hosts[n] # Unset /\ left' = left \ {n}
            /\ pbs' = [pbs EXCEPT ![n] = IF @ = Unset THEN hosts[n] ELSE @]
    BY <1>2 DEF RegisterNode, CanRegister
  <2>2. pc = "register" /\ UNCHANGED <<pc, cfg, image, nodes, hosts, headHosts>>
    BY <1>2 DEF RegisterNode
  <2>3. n \in Names
    BY <1>0
  <2>4. TypeOK'
    BY <1>0, <2>1, <2>2, <2>3 DEF IInv, TypeOK, Steps, Resolved, image
  <2>5. LoopInv' /\ HostsInv' /\ NamesStay' /\ PbsInv'
    BY <1>0, <2>1, <2>2, <2>3
    DEF IInv, LoopInv, HostsInv, NamesStay, PbsInv, Resolved, Registering
  <2> QED BY <2>2, <2>4, <2>5, NodesFrame DEF IInv, AfterImage
<1>3. CASE RestartPbs
  <2>1. /\ pc = "register" /\ left = {} /\ pc' = "initialize"
        /\ pbs' = [n \in Names |-> IF pbs[n] = Unset THEN Unset ELSE hosts[n]]
        /\ UNCHANGED <<cfg, left, image, nodes, hosts, headHosts>>
    BY <1>3 DEF RestartPbs
  <2>2. TypeOK'
    BY <1>0, <2>1 DEF IInv, TypeOK, Steps, Resolved, image
  <2>3. LoopInv' /\ HostsInv' /\ NamesStay' /\ PbsInv'
    BY <1>0, <2>1 DEF IInv, LoopInv, HostsInv, NamesStay, PbsInv, Resolved, Registering
  <2> QED BY <2>1, <2>2, <2>3, NodesFrame DEF IInv, AfterImage
<1>4. CASE Initialize
  <2>1. /\ pc = "initialize" /\ pc' = "done"
        /\ UNCHANGED <<cfg, left, image, registry>>
    BY <1>4 DEF Initialize
  <2>2. TypeOK'
    BY <2>1 DEF IInv, TypeOK, Steps, image, registry
  <2>3. LoopInv' /\ HostsInv' /\ NamesStay' /\ PbsInv'
    BY <2>1 DEF IInv, LoopInv, HostsInv, NamesStay, PbsInv, Registering, registry
  <2> QED BY <2>1, <2>2, <2>3, NodesFrame DEF IInv, AfterImage
<1> QED BY <1>1, <1>2, <1>3, <1>4

LEMMA StopIInv ==
    ASSUME IInv, Stop
    PROVE  IInv'
<1>0. cfg.os \in OSes
  BY SettingsFields DEF IInv, TypeOK
<1>1. pc' = "off" /\ left' = {} /\ UNCHANGED <<cfg, registry, imported>>
  BY DEF Stop, StopInScript, StopInClean, StopInPack, StopInNodes, image
<1>2. scratch' \in ImageType /\ published' \in [OSes -> ImageType]
  <2>1. CASE StopInScript \/ StopInNodes
    BY <2>1 DEF StopInScript, StopInNodes, IInv, TypeOK, image
  <2>2. CASE StopInClean
    BY <2>2, <1>0, ImageConstants DEF StopInClean, IInv, TypeOK
  <2>3. CASE StopInPack
    BY <2>3, <1>0, ImageConstants DEF StopInPack, IInv, TypeOK
  <2> QED BY <2>1, <2>2, <2>3 DEF Stop
<1>3. TypeOK'
  BY <1>1, <1>2 DEF IInv, TypeOK, Steps, registry
<1> QED
  BY <1>1, <1>3
  DEF IInv, ScratchInv, CleanInv, PublishedInv, LoopInv, HostsInv, NamesStay, PbsInv,
      AfterImage, Registering, registry

LEMMA StutterIInv ==
    ASSUME IInv, UNCHANGED vars
    PROVE  IInv'
BY DEF vars, IInv, TypeOK, ScratchInv, CleanInv, PublishedInv, LoopInv, HostsInv,
       NamesStay, PbsInv, Wanted, WantedServer, WantedDrivers

\* The invariant is inductive: one lemma per group of actions.
LEMMA NextIInv == IInv /\ [Next]_vars => IInv'
BY StartIInv, PrepareIInv, CustomizeIInv, PackIInv, FinishIInv, DefineIInv, RegisterIInv,
   StopIInv, StutterIInv
DEF Next, BuildImage, AddNodes

LEMMA Invariance == Spec => []IInv
BY InitIInv, NextIInv, PTL DEF Spec

-----------------------------------------------------------------------------
\* The image that Confluent::install publishes has all that this run puts into it,
\* whatever the scratch directory held, and nothing but that, its queue system's
\* packages and its drivers, when what was there could be removed.
THEOREM ImagesAreThisRuns == Spec => []ImageIsThisRuns
<1>1. IInv => ImageIsThisRuns
  BY DEF IInv, PublishedInv, ImageIsThisRuns
<1> QED BY Invariance, <1>1, PTL

\* With DOCA no node is told to boot another kernel than the one of this run,
\* whichever of its kernels imgutil pack publishes, and it is the kernel of the
\* drivers when the scratch directory could be removed before the build.
THEOREM KernelsMatchDrivers == Spec => []DocaKernelMatches
<1>1. IInv => DocaKernelMatches
  BY DEF IInv, PublishedInv, DocaKernelMatches, WantedDrivers
<1> QED BY Invariance, <1>1, PTL

\* registerPbsNodes only runs when the head node and every node of the run resolve,
\* the nodes to the addresses of this run.
THEOREM RegistrationsResolve == Spec => []RegistrationResolves
<1>1. IInv => RegistrationResolves
  BY DEF IInv, HostsInv, PbsInv, RegistrationResolves, Registering
<1> QED BY Invariance, <1>1, PTL

-----------------------------------------------------------------------------
\* The refinement of NodeRegistry.
Phase == CASE pc = "off" -> "idle" [] pc = "done" -> "complete" [] OTHER -> "running"

LEMMA Phases ==
    /\ pc = "off" => Phase = "idle"
    /\ pc = "done" => Phase = "complete"
    /\ pc \notin {"off", "done"} => Phase = "running"
BY DEF Phase

LEMMA PrimedPhases ==
    /\ pc' = "off" => Phase' = "idle"
    /\ pc' = "done" => Phase' = "complete"
    /\ pc' \notin {"off", "done"} => Phase' = "running"
BY DEF Phase

LEMMA WantedClusters ==
    ASSUME NEW c \in Settings
    PROVE  PbsNodes(c) \in Clusters
<1>1. c.nodes \in Clusters
  BY SettingsFields
<1>2. NoCluster \in [{} -> Addrs]
  BY DEF NoCluster
<1> QED BY <1>1, <1>2 DEF PbsNodes, Clusters

\* A run that stops, at a failed import or a kernel that does not fit, or by a
\* command that fails, leaves the registry as it is.
LEMMA RegistryFails ==
    ASSUME pc \notin {"off", "done"}, pc' = "off", UNCHANGED <<cfg, pbs>>
    PROVE  Registry!Fail
BY Phases, PrimedPhases DEF Registry!Fail, Phase

LEMMA RegistryStutters ==
    ASSUME pc \notin {"off", "done"}, pc' \notin {"off", "done"}, UNCHANGED <<cfg, pbs>>
    PROVE  UNCHANGED Registry!rvars
BY Phases, PrimedPhases DEF Registry!rvars, Phase

\* Every step of the script stays inside the run or ends it.
LEMMA RefineScript ==
    ASSUME IInv, BuildImage
    PROVE  [Registry!RNext]_(Registry!rvars)
<1>1. /\ pc \notin {"off", "done"} /\ pc' # "done" /\ UNCHANGED <<cfg, pbs>>
  BY DEF BuildImage, Bootstrap, Configure, ImportMedia, RemoveLeftovers, BuildScratch,
         SyncRepositories, ConfigureChrony, ConfigureAutofs, ConfigureQueue, StageDrivers,
         PackImage, FinishImage, registry
<1> QED BY <1>1, RegistryFails, RegistryStutters DEF Registry!RNext

\* A node that PBS did not know is created with the address of the hosts file.
LEMMA RefineRegister ==
    ASSUME IInv, RegisterNode
    PROVE  [Registry!RNext]_(Registry!rvars)
<1>0. /\ pc = "register" /\ pc' = pc /\ cfg' = cfg
      /\ cfg.queue = "pbs" /\ PbsNodes(cfg) = cfg.nodes
      /\ DOMAIN cfg.nodes \subseteq Names /\ left \subseteq DOMAIN cfg.nodes
      /\ pbs \in Resolved /\ hosts \in Resolved
  BY SettingsFields DEF RegisterNode, IInv, TypeOK, PbsInv, PbsNodes
<1>1. PICK n \in left :
          /\ hosts[n] # Unset
          /\ pbs' = [pbs EXCEPT ![n] = IF @ = Unset THEN hosts[n] ELSE @]
  BY DEF RegisterNode, CanRegister
<1>2. n \in DOMAIN cfg.nodes /\ n \in Names /\ hosts[n] \in Addrs
  BY <1>0, <1>1 DEF Resolved
<1>3. CASE pbs[n] = Unset
  <2>1. pbs' = [pbs EXCEPT ![n] = hosts[n]]
    BY <1>1, <1>3
  <2>2. n \notin Registry!Registered
    BY <1>3 DEF Registry!Registered
  <2>3. Registry!Create
    BY <1>0, <1>2, <2>1, <2>2, Phases, PrimedPhases DEF Registry!Create, Phase
  <2> QED BY <2>3 DEF Registry!RNext
<1>4. CASE pbs[n] # Unset
  <2>1. pbs' = pbs
    BY <1>0, <1>1, <1>2, <1>4 DEF Resolved
  <2> QED BY <1>0, <2>1, RegistryStutters
<1> QED BY <1>3, <1>4

\* The restarted server resolves every node it knows again.
LEMMA RefineRestart ==
    ASSUME IInv, RestartPbs
    PROVE  Registry!Resolve
<1>0. /\ pc = "register" /\ pc' = "initialize" /\ cfg' = cfg
      /\ pbs' = [n \in Names |-> IF pbs[n] = Unset THEN Unset ELSE hosts[n]]
      /\ hosts \in Resolved
  BY DEF RestartPbs, IInv, TypeOK
<1> DEFINE f == [n \in Registry!Registered |-> hosts[n]]
<1>1. f \in [Registry!Registered -> Addrs]
  <2>1. \A n \in Registry!Registered : hosts[n] \in Addrs
    BY <1>0 DEF Registry!Registered, IInv, NamesStay, Resolved
  <2> QED BY <2>1
<1>2. pbs' = [n \in Names |-> IF n \in Registry!Registered THEN f[n] ELSE Unset]
  BY <1>0 DEF Registry!Registered
<1> QED
  BY <1>0, <1>1, <1>2, Phases, PrimedPhases DEF Registry!Resolve, Phase

\* A run is only complete when every node it has to register has its address.
LEMMA RefineComplete ==
    ASSUME IInv, Initialize
    PROVE  Registry!Complete
<1>1. /\ pc = "initialize" /\ pc' = "done" /\ cfg' = cfg /\ pbs' = pbs
  BY DEF Initialize, registry
<1>2. \A n \in DOMAIN PbsNodes(cfg) : pbs[n] = PbsNodes(cfg)[n]
  BY <1>1 DEF IInv, PbsInv, PbsNodes, NoCluster
<1> QED
  BY <1>1, <1>2, Phases, PrimedPhases DEF Registry!Complete, Phase

LEMMA RefineNodes ==
    ASSUME IInv, AddNodes
    PROVE  [Registry!RNext]_(Registry!rvars)
<1>1. CASE DefineNode \/ PublishHosts \/ AllNodesAdded \/ RepairHeadHosts
  <2>1. /\ pc \notin {"off", "done"} /\ pc' \notin {"off", "done"} /\ UNCHANGED <<cfg, pbs>>
    BY <1>1 DEF DefineNode, PublishHosts, AllNodesAdded, RepairHeadHosts, registry
  <2> QED BY <2>1, RegistryStutters
<1> QED
  BY <1>1, RefineRegister, RefineRestart, RefineComplete DEF AddNodes, Registry!RNext

LEMMA RefineNext == IInv /\ [Next]_vars => [Registry!RNext]_(Registry!rvars)
<1> SUFFICES ASSUME IInv, [Next]_vars
             PROVE  [Registry!RNext]_(Registry!rvars)
  OBVIOUS
<1>1. ASSUME NEW c \in Requests, Start(c)
      PROVE  Registry!Begin
  <2>1. /\ pc \in {"off", "done"} /\ pc' = "bootstrap" /\ cfg' = c /\ pbs' = pbs
    BY <1>1 DEF Start
  <2>2. PbsNodes(c) \in Clusters
    BY RequestsAssumption, WantedClusters
  <2> QED
    BY <2>1, <2>2, Phases, PrimedPhases DEF Registry!Begin, Phase
<1>2. CASE Stop
  <2>1. pc \notin {"off", "done"} /\ pc' = "off" /\ UNCHANGED <<cfg, pbs>>
    BY <1>2 DEF Stop, StopInScript, StopInClean, StopInPack, StopInNodes, registry
  <2> QED BY <2>1, RegistryFails DEF Registry!RNext
<1>3. CASE UNCHANGED vars
  BY <1>3 DEF vars, Registry!rvars
<1> QED
  BY <1>1, <1>2, <1>3, RefineScript, RefineNodes DEF Next, Registry!RNext

\* Confluent implements NodeRegistry: a run that completes has every node registered
\* with PBS under its new address, also one PBS had another address of, and no
\* node is ever taken away.
THEOREM RegistryImplemented == Spec => ImplementsRegistry
<1>1. Init => Registry!RInit
  <2> SUFFICES ASSUME Init PROVE Registry!RInit
    OBVIOUS
  <2>1. cfg \in Settings /\ pc = "off" /\ pbs = [n \in Names |-> Unset]
    BY RequestsAssumption DEF Init
  <2> QED BY <2>1, Phases, WantedClusters DEF Registry!RInit, Phase
<1> QED
  BY <1>1, Invariance, RefineNext, PTL DEF Spec, ImplementsRegistry, Registry!RSpec
=============================================================================
