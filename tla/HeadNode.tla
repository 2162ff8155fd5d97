------------------------------- MODULE HeadNode -------------------------------
(***************************************************************************)
(* The parts of the installer that prepare the head node, each run by      *)
(* itself as the --roles option runs it and as often as the operator       *)
(* starts the program again: the answerfile and the cluster model, the     *)
(* network role, the repos role, the OFED role, the SLURM role and the     *)
(* set-up of xCAT.  They write disjoint parts of the head node's state, so *)
(* a behaviour follows one of them, `which', and leaves the rest idle.     *)
(***************************************************************************)
EXTENDS Naturals, Sequences

CONSTANTS
    MaxRuns,                               \* bound: starts of the installer
    NetworkRequests, WireMask, Found,      \* of HeadNetwork
    Answers, Tries,                        \* of SlurmController
    Catalogue, Shipped, RepositoryRequests,  \* of Repositories
    Orders, Running,                       \* of Ofed
    Answerfiles, Hosts, Text,              \* of AnswerFile
    Interfaces, Subnets, HostBits, Domains, MaxAttempts, PoolSize, SetupRequests  \* of XcatSetup

\* "seed" stands for what slurm.conf has before the nodes: no node has that name.
ASSUME SlurmAssumption == \A a \in Answers : "seed" \notin a.nodes
\* repos/*.conf: an id has one file name in all of them; rocky.repo, rhel.repo and
\* the files of EPEL and OpenHPC each belong to one of them, and have the basic
\* repositories; the extension of all is .repo as it stands.
ASSUME CatalogueAssumption ==
    /\ \A c, d \in Catalogue : c.id = d.id => c.file = d.file
    /\ \A c \in Catalogue, s \in Shipped : ~s.exact => c.file # s.file
    /\ \A c \in Catalogue :
          /\ c.file = "rocky.repo" => c.conf = "rocky"
          /\ c.file = "rhel.repo" => c.conf = "rhel"
          /\ c.file \in {"epel.repo", "OpenHPC.repo"} => c.conf = "common"
    /\ \A c \in Catalogue : c.base =>
          /\ c.conf = "rocky" => c.file = "rocky.repo"
          /\ c.conf = "rhel" => c.file = "rhel.repo"
          /\ c.conf = "common" => c.file \in {"epel.repo", "OpenHPC.repo"}
ASSUME RequestAssumption ==
    \A r \in RepositoryRequests :
        {r.head, r.compute} \subseteq {"rocky", "rhel", "ubuntu"} /\ r.mirrors \in BOOLEAN
ASSUME PoolAssumption == PoolSize \in Nat \ {0}

VARIABLE which

\* the network role
VARIABLES
    netReq, netRuns, netPhase, loaded, connections, command, profiles,
    active, dns, hosts, named, stuck
N == INSTANCE HeadNetwork WITH
    Requests <- NetworkRequests, req <- netReq, runs <- netRuns,
    phase <- netPhase, todo <- connections, step <- command
networkVars ==
    <<netReq, netRuns, netPhase, loaded, connections, command, profiles,
      active, dns, hosts, named, stuck>>
\* The operator gives the mask of the service network's wire or none, and so did
\* the profiles found on an interface that is its own.
ASSUME NetworkAssumption ==
    /\ WireMask["Service"] # ""
    /\ \A r \in NetworkRequests :
          /\ r.mask \in {"", WireMask["Service"]} /\ r.on \in N!Cablings
          /\ r.nets \subseteq {"Service", "Application"}
          /\ N!OwnWire(r) =>
                \A f \in Found : \A p \in f :
                    p.on = r.on["Service"] => p.mask = WireMask["Service"]
NIdle ==
    /\ netReq = 0 /\ netRuns = 0 /\ netPhase = 0 /\ loaded = 0
    /\ connections = 0 /\ command = 0 /\ profiles = 0 /\ active = 0
    /\ dns = 0 /\ hosts = 0 /\ named = 0 /\ stuck = 0

\* the SLURM role
VARIABLES
    answers, slurmRuns, slurmStep, tries, root, account, dbdconf, slurmConf,
    dbd, ctld, roots
S == INSTANCE SlurmController WITH
    runs <- slurmRuns, step <- slurmStep, conf <- slurmConf
slurmVars ==
    <<answers, slurmRuns, slurmStep, tries, root, account, dbdconf, slurmConf,
      dbd, ctld, roots>>
SIdle ==
    /\ answers = 0 /\ slurmRuns = 0 /\ slurmStep = 0 /\ tries = 0 /\ root = 0
    /\ account = 0 /\ dbdconf = 0 /\ slurmConf = 0 /\ dbd = 0 /\ ctld = 0
    /\ roots = 0

\* the repos role
VARIABLES
    repoReq, repoRuns, repoPhase, dir, made, backup, distroConf, vault, plan,
    repoFiles, idIndex, image, torn, dropped, selected
R == INSTANCE Repositories WITH
    Requests <- RepositoryRequests, req <- repoReq, runs <- repoRuns,
    phase <- repoPhase, conf <- distroConf, todo <- repoFiles,
    index <- idIndex
repoVars ==
    <<repoReq, repoRuns, repoPhase, dir, made, backup, distroConf, vault, plan,
      repoFiles, idIndex, image, torn, dropped, selected>>
RIdle ==
    /\ repoReq = 0 /\ repoRuns = 0 /\ repoPhase = 0 /\ dir = 0 /\ made = 0
    /\ backup = 0 /\ distroConf = 0 /\ vault = 0 /\ plan = 0 /\ repoFiles = 0
    /\ idIndex = 0 /\ image = 0 /\ torn = 0 /\ dropped = 0 /\ selected = 0

\* the OFED role
VARIABLES
    order, ofedRuns, ofedStage, enabled, headers, built, compiled, drivers,
    installed, inbox, httpConf, serving, content, pinned, halfway
O == INSTANCE Ofed WITH
    runs <- ofedRuns, stage <- ofedStage, conf <- httpConf
ofedVars ==
    <<order, ofedRuns, ofedStage, enabled, headers, built, compiled, drivers,
      installed, inbox, httpConf, serving, content, pinned, halfway>>
OIdle ==
    /\ order = 0 /\ ofedRuns = 0 /\ ofedStage = 0 /\ enabled = 0
    /\ headers = 0 /\ built = 0 /\ compiled = 0 /\ drivers = 0
    /\ installed = 0 /\ inbox = 0 /\ httpConf = 0 /\ serving = 0
    /\ content = 0 /\ pinned = 0 /\ halfway = 0

\* the answerfile
VARIABLES
    file, env, fileStage, round, nodeIndex, nodes, cluster, first
A == INSTANCE AnswerFile WITH
    stage <- fileStage, index <- nodeIndex
ASSUME AnswerfileAssumption == \A f \in Answerfiles : f \in A!Documents
ASSUME TextAssumption ==
    {"", "none", "nic", "ok", "any", "latest", "fetched", "m1", "rocky", "almalinux", "ubuntu",
     "xcat", "confluent", "inbox", "doca", "oracle", "slurm", "pbs"} \subseteq Text
fileVars ==
    <<file, env, fileStage, round, nodeIndex, nodes, cluster, first>>
AIdle ==
    /\ file = 0 /\ env = 0 /\ fileStage = 0 /\ round = 0 /\ nodeIndex = 0
    /\ nodes = 0 /\ cluster = 0 /\ first = 0

\* the set-up of xCAT
VARIABLES
    pc, cfg, packages, helpers, ddns, creds, daemon, attempt, site
X == INSTANCE XcatSetup WITH
    Requests <- SetupRequests
xcatVars ==
    <<pc, cfg, packages, helpers, ddns, creds, daemon, attempt, site>>
XIdle ==
    /\ pc = 0 /\ cfg = 0 /\ packages = 0 /\ helpers = 0 /\ ddns = 0
    /\ creds = 0 /\ daemon = 0 /\ attempt = 0 /\ site = 0

-------------------------------------------------------------------------------
vars == <<which, networkVars, slurmVars, repoVars, ofedVars, fileVars, xcatVars>>

Init ==
    \/ which = "network" /\ N!NInit /\ SIdle /\ RIdle /\ OIdle /\ AIdle /\ XIdle
    \/ which = "slurm" /\ S!SInit /\ NIdle /\ RIdle /\ OIdle /\ AIdle /\ XIdle
    \/ which = "repos" /\ R!RInit /\ NIdle /\ SIdle /\ OIdle /\ AIdle /\ XIdle
    \/ which = "ofed" /\ O!OInit /\ NIdle /\ SIdle /\ RIdle /\ AIdle /\ XIdle
    \/ which = "answerfile" /\ A!AInit /\ NIdle /\ SIdle /\ RIdle /\ OIdle /\ XIdle
    \/ which = "xcat" /\ X!Init /\ NIdle /\ SIdle /\ RIdle /\ OIdle /\ AIdle

ConfigureNetwork ==
    /\ which = "network" /\ N!NNext /\ UNCHANGED which
    /\ UNCHANGED <<slurmVars, repoVars, ofedVars, fileVars, xcatVars>>

ConfigureSlurm ==
    /\ which = "slurm" /\ S!SNext /\ UNCHANGED which
    /\ UNCHANGED <<networkVars, repoVars, ofedVars, fileVars, xcatVars>>

ConfigureRepositories ==
    /\ which = "repos" /\ R!RNext /\ UNCHANGED which
    /\ UNCHANGED <<networkVars, slurmVars, ofedVars, fileVars, xcatVars>>

InstallOfed ==
    /\ which = "ofed" /\ O!ONext /\ UNCHANGED which
    /\ UNCHANGED <<networkVars, slurmVars, repoVars, fileVars, xcatVars>>

ReadAnswerfile ==
    /\ which = "answerfile" /\ A!ANext /\ UNCHANGED which
    /\ UNCHANGED <<networkVars, slurmVars, repoVars, ofedVars, xcatVars>>

SetUpXcat ==
    /\ which = "xcat" /\ X!Next /\ UNCHANGED which
    /\ UNCHANGED <<networkVars, slurmVars, repoVars, ofedVars, fileVars>>

Next ==
    \/ ConfigureNetwork \/ ConfigureSlurm \/ ConfigureRepositories
    \/ InstallOfed \/ ReadAnswerfile \/ SetUpXcat

XcatGoesOn ==
    /\ which = "xcat" /\ (X!Installer \/ X!Stop) /\ UNCHANGED which
    /\ UNCHANGED <<networkVars, slurmVars, repoVars, ofedVars, fileVars>>

\* A step of the set-up that does not succeed throws, so the set-up goes on.
Spec == Init /\ [][Next]_vars /\ WF_vars(XcatGoesOn)

-------------------------------------------------------------------------------
\* The network role leaves every network of the cluster with one profile, that of
\* this run, and up, whatever an interrupted run left of the profiles it deletes
\* and adds, unless a later network has its interface or a deletion failed.
NetworksUp == which = "network" => N!NetworksUp

\* A mask that is read from the service network's own interface is what the first
\* run read, though the role rewrites the interface.
MaskStable == which = "network" => N!MaskStable

\* A finished SLURM role leaves MariaDB, slurmdbd.conf and the running slurmdbd
\* with the password of this answerfile, also after runs with another one.
AccountingAgrees == which = "slurm" => S!AccountingAgrees

\* The running slurmctld has read the nodes of this answerfile and no others.
ControllerHasNodes == which = "slurm" => S!ControllerHasNodes

\* As long as the answerfile keeps its root password, no interruption of the role
\* locks the next run out of MariaDB.
NotLockedOut == which = "slurm" => S!NotLockedOut

\* The repos role leaves the repositories of this answerfile switched on, each in
\* one file, and of all others none but those of another distribution or release
\* that an earlier run switched on: it does not switch those off.
EnabledAsSelected == which = "repos" => R!EnabledAsSelected

\* No .repo file of the operating system is lost to a kill, because
\* moveFilesWithExtension copies all before it removes one; what is lost goes with
\* a backup that is discarded, or after a half-copied one was taken for finished.
OriginalsKept == which = "repos" => R!OriginalsKept

\* getxCATOSImageRepos finds the mandatory repositories in the files that the
\* repos role wrote, and no others but those that an earlier run switched on for
\* another release of the same distribution.
ImageIsComplete == which = "repos" => R!ImageIsComplete

\* The drivers that OFED::install compiles are the ones it installs, though old
\* packages lie where it looks for the newest.
DriversForKernel == which = "ofed" => O!DriversForKernel

\* The local repository of the drivers has the modules of the nodes' kernel and
\* is served, and that kernel is there for the image, unless createHTTPRepo was stopped before it restarted httpd.
ServedModules == which = "ofed" => O!ServedModules

\* The nodes of the cluster model differ in name and addresses, also by what they
\* inherit, and in MAC address, unless it is spelt with two separators.
InventoryIsUnique == which = "answerfile" => A!InventoryIsUnique

\* A cluster written by --dump-answerfile is read back as the same cluster.
DumpedClusterReturns == which = "answerfile" => A!DumpedClusterReturns

\* setup writes the site table of an xcatd that has answered and that has its
\* credentials, although the commands that start xcatd are not checked.
SetupOfRunningDaemon == which = "xcat" => X!SetupOfRunningDaemon

\* A completed set-up leaves a site table that is all its own and one definition
\* of its management network; the definitions earlier runs have made of other
\* subnets stay, each with the range of its own subnet.
SiteIsThisRuns == which = "xcat" => X!SiteIsThisRuns

\* A set-up that was started ends: an xcatd that never comes up costs setup
\* MaxAttempts looks at the site table, not an installation that hangs.
SetupEnds ==
    (which = "xcat" /\ pc \notin {"off", "done"}) ~> (which = "xcat" /\ pc \in {"off", "done"})
===============================================================================
