-------------------------- MODULE HeadNode_proofs --------------------------
(***************************************************************************)
(* Proofs about the parts of HeadNode, for any number of starts and any    *)
(* catalogue of repositories in which an id has one file.                  *)
(***************************************************************************)
EXTENDS HeadNode, FiniteSetTheorems, TLAPS

\* A behaviour follows one part.
LEMMA OnePart ==
    [Next]_vars =>
        /\ which' = which
        /\ which = "network" => N!NNext \/ UNCHANGED networkVars
        /\ which = "slurm" => S!SNext \/ UNCHANGED slurmVars
        /\ which = "repos" => R!RNext \/ UNCHANGED repoVars
        /\ which = "ofed" => O!ONext \/ UNCHANGED ofedVars
        /\ which = "xcat" => X!Next \/ UNCHANGED xcatVars
BY DEF Next, ConfigureNetwork, ConfigureSlurm, ConfigureRepositories, InstallOfed,
       ReadAnswerfile, SetUpXcat, vars

-----------------------------------------------------------------------------
SlurmWorking == {"install", "login", "root", "account", "dbdconf", "seed", "nodes",
                 "restart", "dbd", "ctld", "sacct"}
SlurmSteps == SlurmWorking \cup {"idle", "stopped", "denied", "crashed", "done"}

\* What the SLURM role has in place before each of its commands.
SlurmInv ==
    /\ answers \in Answers /\ slurmStep \in SlurmSteps
    /\ IsFiniteSet(roots)
    /\ slurmStep \in SlurmWorking => answers.root \in roots
    /\ root \in roots \cup {""}
    /\ slurmStep = "denied" => \E a, b \in roots : a # b
    /\ slurmStep \in {"dbdconf", "seed", "nodes", "restart", "dbd", "ctld", "sacct", "done"} =>
            account = answers.slurm
    /\ slurmStep \in {"seed", "nodes", "restart", "dbd", "ctld", "sacct", "done"} =>
            dbdconf = answers.slurm
    /\ slurmStep \in {"dbd", "ctld", "sacct", "done"} => dbd = answers.slurm
    /\ slurmStep = "nodes" => slurmConf = {"seed"}
    /\ slurmStep \in {"restart", "dbd", "ctld", "sacct", "done"} =>
            slurmConf = {"seed"} \cup answers.nodes
    /\ slurmStep = "ctld" => ctld \in {slurmConf, {}}
    /\ slurmStep \in {"sacct", "done"} => ctld = slurmConf

LEMMA SlurmInit == S!SInit => SlurmInv
BY FS_EmptySet DEF S!SInit, SlurmInv, SlurmSteps, SlurmWorking

LEMMA SlurmNext == SlurmInv /\ S!SNext => SlurmInv'
<1> SUFFICES ASSUME SlurmInv, S!SNext
             PROVE  SlurmInv'
  OBVIOUS
<1> USE DEF S!files, S!daemons
<1>1. ASSUME NEW a \in Answers, S!Begin(a)
      PROVE  SlurmInv'
  BY <1>1, FS_AddElement DEF S!Begin, SlurmInv, SlurmSteps, SlurmWorking
<1>2. CASE S!InstallServer
  BY <1>2 DEF S!InstallServer, S!Go, SlurmInv, SlurmSteps, SlurmWorking
<1>3. CASE S!Login
  BY <1>3 DEF S!Login, S!Go, S!Passwords, SlurmInv, SlurmSteps, SlurmWorking
<1>4. CASE S!SetRoot \/ S!SetAccount \/ S!WriteDbdConf
  BY <1>4 DEF S!SetRoot, S!SetAccount, S!WriteDbdConf, S!Go, SlurmInv, SlurmSteps, SlurmWorking
<1>5. CASE S!SeedConf \/ S!AppendNodes
  BY <1>5 DEF S!SeedConf, S!AppendNodes, S!Go, SlurmInv, SlurmSteps, SlurmWorking
<1>6. CASE S!RestartDbd \/ S!RestartCtld
  BY <1>6 DEF S!RestartDbd, S!RestartCtld, S!CtldReads, S!Go, SlurmInv, SlurmSteps, SlurmWorking
<1>7. CASE S!ConfirmCtld \/ S!Accounting
  BY <1>7 DEF S!ConfirmCtld, S!Accounting, S!Go, SlurmInv, SlurmSteps, SlurmWorking
<1>8. CASE S!Wait
  BY <1>8 DEF S!Wait, SlurmInv, SlurmSteps, SlurmWorking
<1>9. CASE S!Interrupt
  BY <1>9 DEF S!Interrupt, S!Working, SlurmInv, SlurmSteps, SlurmWorking
<1> QED
  BY <1>1, <1>2, <1>3, <1>4, <1>5, <1>6, <1>7, <1>8, <1>9 DEF S!SNext

LEMMA SlurmStutter == SlurmInv /\ UNCHANGED slurmVars => SlurmInv'
BY DEF SlurmInv, slurmVars

LEMMA SlurmInvariance == Spec => [](which = "slurm" => SlurmInv)
<1>1. Init => (which = "slurm" => SlurmInv)
  BY SlurmInit DEF Init
<1>2. (which = "slurm" => SlurmInv) /\ [Next]_vars => (which = "slurm" => SlurmInv)'
  BY OnePart, SlurmNext, SlurmStutter
<1> QED BY <1>1, <1>2, PTL DEF Spec

\* The accounting password of this answerfile is what MariaDB, slurmdbd.conf and
\* the running slurmdbd have when the SLURM role is done.
THEOREM AccountingIsThisRuns == Spec => []AccountingAgrees
<1>1. (which = "slurm" => SlurmInv) => AccountingAgrees
  BY DEF SlurmInv, AccountingAgrees, S!AccountingAgrees
<1> QED BY <1>1, SlurmInvariance, PTL

\* slurmctld runs with the nodes of this answerfile and no others.
THEOREM ControllerIsThisRuns == Spec => []ControllerHasNodes
<1>1. (which = "slurm" => SlurmInv) => ControllerHasNodes
  BY SlurmAssumption DEF SlurmInv, ControllerHasNodes, S!ControllerHasNodes
<1> QED BY <1>1, SlurmInvariance, PTL

\* Two passwords make two elements of a finite set.
LEMMA TwoElements ==
    ASSUME NEW T, IsFiniteSet(T), NEW a \in T, NEW b \in T, a # b
    PROVE  ~(Cardinality(T) <= 1)
<1>1. IsFiniteSet({a}) /\ Cardinality({a}) = 1
  BY FS_Singleton
<1>2. Cardinality({a} \cup {b}) = 2 /\ IsFiniteSet({a} \cup {b})
  <2> DEFINE one == {a}
  <2>1. b \notin one
    OBVIOUS
  <2>2. IsFiniteSet(one) /\ Cardinality(one) = 1
    BY <1>1
  <2> HIDE DEF one
  <2>3. /\ IsFiniteSet(one \cup {b})
        /\ b \notin one => Cardinality(one \cup {b}) = Cardinality(one) + 1
    BY <2>2, FS_AddElement
  <2>4. IsFiniteSet(one \cup {b}) /\ Cardinality(one \cup {b}) = 2
    BY <2>1, <2>2, <2>3
  <2> QED BY <2>4 DEF one
<1>3. Cardinality({a} \cup {b}) <= Cardinality(T)
  BY FS_Subset
<1>4. Cardinality(T) \in Nat
  BY FS_CardinalityType
<1> QED BY <1>2, <1>3, <1>4

\* While the answerfiles of all runs have one root password, the script that logs
\* in to MariaDB never finds a password it does not try.
THEOREM NeverLockedOut == Spec => []NotLockedOut
<1>1. (which = "slurm" => SlurmInv) => NotLockedOut
  <2> SUFFICES ASSUME SlurmInv, slurmStep = "denied"
               PROVE  ~(Cardinality(roots) <= 1)
    <3>1. S!Cardinality(roots) = Cardinality(roots)
      BY DEF S!Cardinality, Cardinality
    <3> QED BY <3>1 DEF NotLockedOut, S!NotLockedOut
  <2>1. PICK a, b \in roots : a # b
    BY DEF SlurmInv
  <2>2. IsFiniteSet(roots)
    BY DEF SlurmInv
  <2> QED BY <2>1, <2>2, TwoElements
<1> QED BY <1>1, SlurmInvariance, PTL

-----------------------------------------------------------------------------
\* What the set-up of xCAT has in place before each of its steps.
XcatInv ==
    /\ pc \notin {"off", "packages"} => packages
    /\ pc \in {"restart", "poll"} \cup X!Configuring => creds
    /\ pc \in X!Configuring => daemon = "up"
    /\ site = [interface |-> site.interface, networks |-> site.networks,
               precreate |-> site.precreate, domain |-> site.domain]
    /\ pc \in {"range", "postscripts", "domain", "done"} => site.interface = cfg.interface
    /\ pc \in {"domain", "done"} => site.precreate = TRUE
    /\ pc = "done" => site.domain = cfg.domain

\* The definitions of networks: that of this run, once it is made, and others.
DefinitionsInv ==
    /\ pc \in {"postscripts", "domain", "done"} => X!Namesakes(cfg) = {X!Definition(cfg)}
    /\ \A d \in site.networks : d.pool = X!DynamicRange(d.bits)

LEMMA XcatInit == X!Init => XcatInv /\ DefinitionsInv
BY DEF X!Init, XcatInv, DefinitionsInv, X!Configuring

\* Only chdef -t network changes them.
LEMMA DefinitionsStay ==
    ASSUME DefinitionsInv, site'.networks = site.networks,
           \/ pc' \notin {"postscripts", "domain", "done"}
           \/ cfg' = cfg /\ pc \in {"postscripts", "domain", "done"}
    PROVE  DefinitionsInv'
<1>1. ASSUME NEW d PROVE X!DynamicRange(d.bits)' = X!DynamicRange((d.bits)')
  BY DEF X!DynamicRange, X!PoolEnd, X!PoolCount, X!LastUsable
<1>2. cfg' = cfg => /\ X!Namesakes(cfg)' = X!Namesakes(cfg)
                    /\ X!Definition(cfg)' = X!Definition(cfg)
  BY DEF X!Namesakes, X!Definition, X!DynamicRange, X!PoolEnd, X!PoolCount, X!LastUsable
<1> QED BY <1>1, <1>2 DEF DefinitionsInv

LEMMA DefinitionsNext == XcatInv /\ DefinitionsInv /\ X!Next => DefinitionsInv'
<1> SUFFICES ASSUME XcatInv, DefinitionsInv, X!Next
             PROVE  DefinitionsInv'
  OBVIOUS
<1>1. CASE X!SetDHCPDynamicRange
  <2> DEFINE def == X!Definition(cfg)
  <2>1. /\ pc' = "postscripts" /\ cfg' = cfg
        /\ site' = [site EXCEPT !.networks = (@ \ X!Namesakes(cfg)) \cup {def}]
    BY <1>1 DEF X!SetDHCPDynamicRange
  <2>2. site'.networks = (site.networks \ X!Namesakes(cfg)) \cup {def}
    BY <2>1 DEF XcatInv
  <2>3. def.net = cfg.net /\ def.bits = cfg.bits /\ def.pool = X!DynamicRange(cfg.bits)
    BY DEF X!Definition
  <2>4. X!Definition(cfg)' = def
    BY <2>1 DEF X!Definition, X!DynamicRange, X!PoolEnd, X!PoolCount, X!LastUsable
  <2> HIDE DEF def
  <2>5. X!Namesakes(cfg)' = {def}
    BY <2>1, <2>2, <2>3 DEF X!Namesakes
  <2>6. \A d \in site'.networks : d.pool = X!DynamicRange(d.bits)
    BY <2>2, <2>3 DEF DefinitionsInv
  <2> QED BY <2>4, <2>5, <2>6 DEF DefinitionsInv
<1>2. CASE ~X!SetDHCPDynamicRange
  <2>1. /\ site'.networks = site.networks
        /\ \/ pc' \notin {"postscripts", "domain", "done"}
           \/ cfg' = cfg /\ pc \in {"postscripts", "domain", "done"}
    <3> USE <1>2 DEF X!files, XcatInv
    <3>1. CASE \E c \in SetupRequests : X!Start(c)
      BY <3>1 DEF X!Start
    <3>2. CASE X!InstallPackages \/ X!ExportDirectories \/ X!DaemonUp \/ X!Stop
      BY <3>2 DEF X!InstallPackages, X!ExportDirectories, X!DaemonUp, X!Stop
    <3>3. CASE X!PatchInstall
      BY <3>3 DEF X!PatchInstall, X!CheckPatch, X!EditHelpers, X!PatchDdns, X!EnableDaemon,
                  X!RepairCredentials, X!RestartDaemon
    <3>4. CASE X!Setup
      BY <3>4 DEF X!Setup, X!Poll, X!SetDHCPInterfaces, X!SetPrecreateMyPostscripts,
                  X!SetDomain
    <3> QED BY <3>1, <3>2, <3>3, <3>4 DEF X!Next, X!Installer
  <2> QED BY <2>1, DefinitionsStay
<1> QED BY <1>1, <1>2

LEMMA XcatNext == XcatInv /\ X!Next => XcatInv'
<1> SUFFICES ASSUME XcatInv, X!Next
             PROVE  XcatInv'
  OBVIOUS
<1> USE DEF X!files, X!Configuring
<1>1. ASSUME NEW c \in SetupRequests, X!Start(c)
      PROVE  XcatInv'
  BY <1>1 DEF X!Start, XcatInv
<1>2. CASE X!InstallPackages \/ X!ExportDirectories
  BY <1>2 DEF X!InstallPackages, X!ExportDirectories, XcatInv
<1>3. CASE X!PatchInstall
  BY <1>3 DEF X!PatchInstall, X!CheckPatch, X!EditHelpers, X!PatchDdns, X!EnableDaemon,
              X!RepairCredentials, X!RestartDaemon, XcatInv
<1>4. CASE X!Poll
  BY <1>4 DEF X!Poll, XcatInv
<1>5. CASE X!SetDHCPInterfaces
  BY <1>5 DEF X!SetDHCPInterfaces, XcatInv
<1>6. CASE X!SetDHCPDynamicRange
  <2>1. PICK defs : site' = [site EXCEPT !.networks = defs]
    BY <1>6 DEF X!SetDHCPDynamicRange
  <2>2. /\ pc = "range" /\ pc' = "postscripts" /\ UNCHANGED <<cfg, packages, creds, daemon>>
    BY <1>6 DEF X!SetDHCPDynamicRange
  <2>3. site' = [interface |-> site.interface, networks |-> defs,
                 precreate |-> site.precreate, domain |-> site.domain]
    BY <2>1 DEF XcatInv
  <2> QED BY <2>2, <2>3 DEF XcatInv
<1>7. CASE X!SetPrecreateMyPostscripts
  BY <1>7 DEF X!SetPrecreateMyPostscripts, XcatInv
<1>8. CASE X!SetDomain
  BY <1>8 DEF X!SetDomain, XcatInv
<1>9. CASE X!DaemonUp
  BY <1>9 DEF X!DaemonUp, XcatInv
<1>10. CASE X!Stop
  BY <1>10 DEF X!Stop, XcatInv
<1> QED
  BY <1>1, <1>2, <1>3, <1>4, <1>5, <1>6, <1>7, <1>8, <1>9, <1>10
  DEF X!Next, X!Installer, X!Setup

LEMMA XcatStutter ==
    XcatInv /\ DefinitionsInv /\ UNCHANGED xcatVars => XcatInv' /\ DefinitionsInv'
<1>1. XcatInv /\ UNCHANGED xcatVars => XcatInv'
  BY DEF XcatInv, xcatVars
<1>2. DefinitionsInv /\ UNCHANGED xcatVars => DefinitionsInv'
  BY DefinitionsStay DEF xcatVars
<1> QED BY <1>1, <1>2

LEMMA XcatInvariance == Spec => [](which = "xcat" => XcatInv /\ DefinitionsInv)
<1>1. Init => (which = "xcat" => XcatInv /\ DefinitionsInv)
  BY XcatInit DEF Init
<1>2. /\ which = "xcat" => XcatInv /\ DefinitionsInv
      /\ [Next]_vars
      => (which = "xcat" => XcatInv /\ DefinitionsInv)'
  BY OnePart, XcatNext, DefinitionsNext, XcatStutter
<1> QED BY <1>1, <1>2, PTL DEF Spec

\* XCAT::setup writes the site table of an xcatd that has answered, with its
\* credentials, although the commands that start xcatd are not checked.
THEOREM SetsUpRunningDaemon == Spec => []SetupOfRunningDaemon
<1>1. (which = "xcat" => XcatInv /\ DefinitionsInv) => SetupOfRunningDaemon
  BY DEF XcatInv, SetupOfRunningDaemon, X!SetupOfRunningDaemon, X!Configuring
<1> QED BY <1>1, XcatInvariance, PTL

\* A completed set-up leaves a site table that is all its own, and exactly one
\* definition of its management network, whatever interrupted runs with other
\* settings wrote; the definitions those made of other subnets stay, each with the
\* range of its own subnet.
THEOREM SiteTableIsThisRuns == Spec => []SiteIsThisRuns
<1>1. (which = "xcat" => XcatInv /\ DefinitionsInv) => SiteIsThisRuns
  BY DEF XcatInv, DefinitionsInv, SiteIsThisRuns, X!SiteIsThisRuns
<1> QED BY <1>1, XcatInvariance, PTL

\* defaultDHCPDynamicRangeFor, for a subnet with any number of usable addresses: the
\* pool is a part of them, is not empty, has PoolSize addresses or starts at the
\* first usable one, and where there is room leaves the last two of them out.
THEOREM DynamicRangeFits ==
    ASSUME NEW b, X!LastUsable(b) \in Nat, ~X!TooSmall(b)
    PROVE  LET range == X!DynamicRange(b) IN
           /\ range.from \in Nat /\ range.to \in Nat
           /\ X!FirstUsable <= range.from /\ range.from <= range.to
           /\ range.to <= X!LastUsable(b)
           /\ range.to - range.from + 1 = PoolSize \/ range.from = X!FirstUsable
           /\ X!LastUsable(b) > 3 => range.to = X!LastUsable(b) - 2
<1> DEFINE u == X!LastUsable(b)
<1>1. u \in Nat /\ 1 <= u
  BY DEF X!TooSmall, X!FirstUsable
<1>2. X!PoolEnd(b) = IF u > 3 THEN u - 2 ELSE u
  BY <1>1 DEF X!PoolEnd, X!FirstUsable
<1> HIDE DEF u
<1>3. X!PoolCount(b) = IF PoolSize < X!PoolEnd(b) THEN PoolSize ELSE X!PoolEnd(b)
  BY DEF X!PoolCount
<1> QED
  BY <1>1, <1>2, <1>3, PoolAssumption DEF X!DynamicRange, X!FirstUsable, u

-----------------------------------------------------------------------------
OfedKernels == {Running} \cup {o.kernel : o \in Orders}
AfterDrivers == {"host", "serve", "restart", "fill", "kernel", "done"}

\* What the OFED role has in place before each of its steps.
OfedInv ==
    /\ order \in Orders /\ built \in Seq(OfedKernels)
    /\ ofedStage \in {"group", "repos", "prereqs", "compile"} => ~compiled
    /\ (compiled /\ ofedStage = "drivers") => built # <<>> /\ built[Len(built)] = O!Kernel
    /\ (compiled /\ ofedStage \in AfterDrivers) => drivers = O!Kernel
    /\ ofedStage = "group" => order.kind = "inbox"
    /\ httpConf \subseteq serving \cup halfway
            \cup (IF ofedStage = "restart" THEN {O!Kernel} ELSE {})
    /\ ofedStage \in {"restart", "fill"} => O!Kernel \in httpConf
    /\ (ofedStage \in {"kernel", "done"} /\ order.kind = "doca") =>
            O!Kernel \in httpConf /\ O!Kernel \in content
    /\ (ofedStage = "done" /\ order.kind = "doca") => O!Kernel \in pinned

\* The packages are always taken for the kernel that the answerfile names or that
\* runs, and a node image with DOCA has that kernel.
LEMMA OfedKernel ==
    /\ O!PrereqKernel = O!Kernel
    /\ order \in Orders => O!Kernel \in OfedKernels
    /\ order.kind = "doca" => O!NodeKernel(order) = O!Kernel
BY DEF O!PrereqKernel, O!Kernel, O!Legacy, O!NodeKernel, OfedKernels

LEMMA OfedInit == O!OInit => OfedInv
BY DEF O!OInit, OfedInv, AfterDrivers

LEMMA OfedNext == OfedInv /\ O!ONext => OfedInv'
<1> SUFFICES ASSUME OfedInv, O!ONext
             PROVE  OfedInv'
  OBVIOUS
<1> USE DEF OfedInv, AfterDrivers
<1>0. UNCHANGED order => O!Kernel' = O!Kernel
  BY DEF O!Kernel
<1>1. ASSUME NEW o \in Orders, O!Begin(o)
      PROVE  OfedInv'
  BY <1>1 DEF O!Begin, O!Final, O!AfterInbox
<1>2. ASSUME NEW primary \in BOOLEAN, NEW fallback \in BOOLEAN, O!Prereqs(primary, fallback)
      PROVE  OfedInv'
  BY <1>0, <1>2 DEF O!Prereqs
<1>3. ASSUME NEW primary \in BOOLEAN, NEW fallback \in BOOLEAN, O!PinKernel(primary, fallback)
      PROVE  OfedInv'
  BY <1>0, <1>3, OfedKernel DEF O!PinKernel, O!Downloaded
<1>4. CASE O!GroupInstall
  BY <1>0, <1>4 DEF O!GroupInstall, O!AfterInbox
<1>5. CASE O!EnableRepos \/ O!SkipCompile
  BY <1>0, <1>5 DEF O!EnableRepos, O!SkipCompile
<1>6. CASE O!KernelSupport
  BY <1>0, <1>6, OfedKernel DEF O!KernelSupport
<1>7. CASE O!InstallDrivers
  BY <1>0, <1>7 DEF O!InstallDrivers, O!NewestPackage
<1>8. CASE O!InstallHost
  BY <1>0, <1>8 DEF O!InstallHost
<1>9. CASE O!WriteHttpConf
  BY <1>0, <1>9 DEF O!WriteHttpConf
<1>10. CASE O!RestartHttpd
  BY <1>0, <1>10 DEF O!RestartHttpd
<1>11. CASE O!FillRepo
  BY <1>0, <1>11 DEF O!FillRepo
<1>12. CASE O!Interrupt
  BY <1>0, <1>12 DEF O!Interrupt, O!Final
<1> QED
  BY <1>1, <1>2, <1>3, <1>4, <1>5, <1>6, <1>7, <1>8, <1>9, <1>10, <1>11, <1>12
  DEF O!ONext

LEMMA OfedStutter == OfedInv /\ UNCHANGED ofedVars => OfedInv'
<1> SUFFICES ASSUME OfedInv, UNCHANGED ofedVars
             PROVE  OfedInv'
  OBVIOUS
<1>1. O!Kernel' = O!Kernel
  BY DEF O!Kernel, ofedVars
<1> QED BY <1>1 DEF OfedInv, ofedVars, AfterDrivers

LEMMA OfedInvariance == Spec => [](which = "ofed" => OfedInv)
<1>1. Init => (which = "ofed" => OfedInv)
  BY OfedInit DEF Init
<1>2. (which = "ofed" => OfedInv) /\ [Next]_vars => (which = "ofed" => OfedInv)'
  BY OnePart, OfedNext, OfedStutter
<1> QED BY <1>1, <1>2, PTL DEF Spec

\* The drivers that a run compiles are the drivers it installs, whatever the
\* earlier runs left under /tmp/DOCA*.
THEOREM CompiledDriversInstalled == Spec => []DriversForKernel
<1>1. (which = "ofed" => OfedInv) => DriversForKernel
  BY DEF OfedInv, AfterDrivers, DriversForKernel, O!DriversForKernel
<1> QED BY <1>1, OfedInvariance, PTL

\* The node image finds its kernel and the modules built for it, from a local
\* repository that is served unless a run stopped halfway through making it.
THEOREM ModulesAreServed == Spec => []ServedModules
<1>1. (which = "ofed" => OfedInv) => ServedModules
  BY DEF OfedInv, ServedModules, O!ServedModules
<1> QED BY <1>1, OfedInvariance, PTL

-----------------------------------------------------------------------------
Networks == {"Management", "Service", "Application"}
Present == {"Management"} \cup netReq.nets
Written(p) == {q \in profiles : q.name = p} = {N!Wanted(p)}
IsUp(p) == Written(p) /\ active[netReq.on[p]] = p
StillToDo(p) == \E i \in 1..Len(connections) : connections[i] = p
Ordered(q) == \A i, j \in 1..Len(q) : i < j => N!Rank[q[i]] < N!Rank[q[j]]

\* A profile that this run has written is up unless a later network has taken its
\* interface, one that it has still to write is in the list, the list is in the
\* order of the ranks, and the profiles of the service network's own interface have
\* the mask of the wire.
NetType ==
    /\ netReq \in NetworkRequests /\ active = [i \in N!Devices |-> active[i]]
    /\ \A i \in N!Devices : active[i] # "none" =>
            \E q \in profiles : q.on = i /\ q.name = active[i]
NetMask ==
    N!OwnWire(netReq) =>
        /\ \A q \in profiles : q.on = netReq.on["Service"] => q.mask = WireMask["Service"]
        /\ netPhase \in {"loaded", "profile", "finish", "done"} =>
                /\ loaded # "" => loaded = WireMask["Service"]
                /\ "Service" \in netReq.nets => loaded = WireMask["Service"]
NetList ==
    netPhase = "profile" =>
        /\ connections \in Seq({"Management", "External"} \cup netReq.nets)
        /\ Ordered(connections)
        /\ \A p \in Present : \A i \in 1..Len(connections) :
                StillToDo(p) \/ N!Rank[p] < N!Rank[connections[i]]
NetProgress ==
    /\ netPhase = "profile" /\ ~netReq.dry /\ ~stuck =>
            /\ \A p \in Present : StillToDo(p) \/ IsUp(p) \/ N!Displaced(p)
            /\ connections # <<>> /\ command = 3 => \A q \in profiles : q.name # N!First
            /\ connections # <<>> /\ command = 4 => Written(N!First)
    /\ netPhase \in {"finish", "done"} /\ ~netReq.dry /\ ~stuck =>
            \A p \in Present : IsUp(p) \/ N!Displaced(p)
NetInv == NetType /\ NetMask /\ NetList /\ NetProgress

\* A list of connections, one longer.
LEMMA AppendThird ==
    ASSUME NEW a, NEW b, NEW c
    PROVE  Append(<<a, b>>, c) = <<a, b, c>>
<1> DEFINE s == Append(<<a, b>>, c)
<1>1. s \in Seq({a, b, c}) /\ Len(s) = 3
  OBVIOUS
<1>2. s[1] = a /\ s[2] = b /\ s[3] = c
  OBVIOUS
<1>3. s = [i \in 1..3 |-> s[i]] /\ <<a, b, c>> = [i \in 1..3 |-> <<a, b, c>>[i]]
  BY <1>1
<1> HIDE DEF s
<1>4. \A i \in 1..3 : s[i] = <<a, b, c>>[i]
  BY <1>2
<1> QED BY <1>3, <1>4 DEF s

LEMMA AppendFourth ==
    ASSUME NEW a, NEW b, NEW c, NEW d
    PROVE  Append(<<a, b, c>>, d) = <<a, b, c, d>>
<1> DEFINE s == Append(<<a, b, c>>, d)
<1>1. s \in Seq({a, b, c, d}) /\ Len(s) = 4
  OBVIOUS
<1>2. s[1] = a /\ s[2] = b /\ s[3] = c /\ s[4] = d
  OBVIOUS
<1>3. s = [i \in 1..4 |-> s[i]] /\ <<a, b, c, d>> = [i \in 1..4 |-> <<a, b, c, d>>[i]]
  BY <1>1
<1> HIDE DEF s
<1>4. \A i \in 1..4 : s[i] = <<a, b, c, d>>[i]
  BY <1>2
<1> QED BY <1>3, <1>4 DEF s

\* The role configures every network of the cluster, in the order of the ranks.
LEMMA AllConnections ==
    ASSUME NEW nets, nets \subseteq {"Service", "Application"}
    PROVE  /\ N!Connections(nets) \in Seq({"Management", "External"} \cup nets)
           /\ Ordered(N!Connections(nets))
           /\ \A p \in {"Management"} \cup nets :
                  \E i \in 1..Len(N!Connections(nets)) : N!Connections(nets)[i] = p
<1> DEFINE T == {"Management", "External"} \cup nets
           C == N!Connections(nets)
<1>r. /\ N!Rank["Management"] = 1 /\ N!Rank["External"] = 2
      /\ N!Rank["Service"] = 3 /\ N!Rank["Application"] = 4
  BY DEF N!Rank
<1>1. CASE "Service" \in nets /\ "Application" \in nets
  <2>1. C = <<"Management", "External", "Service", "Application">>
    <3>1. C = Append(Append(<<"Management", "External">>, "Service"), "Application")
      BY <1>1 DEF N!Connections
    <3>2. Append(<<"Management", "External">>, "Service")
            = <<"Management", "External", "Service">>
      BY AppendThird
    <3>3. Append(<<"Management", "External", "Service">>, "Application")
            = <<"Management", "External", "Service", "Application">>
      BY AppendFourth
    <3> QED BY <3>1, <3>2, <3>3, Zenon
  <2> HIDE DEF C
  <2>2. C \in Seq(T) /\ Ordered(C)
    BY <1>1, <1>r, <2>1 DEF Ordered
  <2>3. /\ 1 \in 1..Len(C) /\ 3 \in 1..Len(C) /\ 4 \in 1..Len(C)
        /\ C[1] = "Management" /\ C[3] = "Service" /\ C[4] = "Application"
    BY <2>1
  <2> QED BY <2>2, <2>3 DEF C
<1>2. CASE "Service" \in nets /\ "Application" \notin nets
  <2>1. C = <<"Management", "External", "Service">>
    BY <1>2, AppendThird DEF N!Connections
  <2> HIDE DEF C
  <2>2. C \in Seq(T) /\ Ordered(C)
    BY <1>2, <1>r, <2>1 DEF Ordered
  <2>3. /\ 1 \in 1..Len(C) /\ 3 \in 1..Len(C)
        /\ C[1] = "Management" /\ C[3] = "Service"
    BY <2>1
  <2> QED BY <1>2, <2>2, <2>3 DEF C
<1>3. CASE "Service" \notin nets /\ "Application" \in nets
  <2>1. C = <<"Management", "External", "Application">>
    BY <1>3, AppendThird DEF N!Connections
  <2> HIDE DEF C
  <2>2. C \in Seq(T) /\ Ordered(C)
    BY <1>3, <1>r, <2>1 DEF Ordered
  <2>3. /\ 1 \in 1..Len(C) /\ 3 \in 1..Len(C)
        /\ C[1] = "Management" /\ C[3] = "Application"
    BY <2>1
  <2> QED BY <1>3, <2>2, <2>3 DEF C
<1>4. CASE "Service" \notin nets /\ "Application" \notin nets
  <2>1. C = <<"Management", "External">>
    BY <1>4 DEF N!Connections
  <2> HIDE DEF C
  <2>2. C \in Seq(T) /\ Ordered(C)
    BY <1>4, <1>r, <2>1 DEF Ordered
  <2>3. 1 \in 1..Len(C) /\ C[1] = "Management"
    BY <2>1
  <2> QED BY <1>4, <2>2, <2>3 DEF C
<1> QED BY <1>1, <1>2, <1>3, <1>4

LEMMA NetInit == N!NInit => NetInv
BY NetworkAssumption DEF N!NInit, NetInv, NetType, NetMask, NetList, NetProgress

\* What is left of the list once its first connection is configured or skipped.
LEMMA FirstOrRest ==
    ASSUME NEW T, NEW q \in Seq(T), q # <<>>
    PROVE  /\ Head(q) \in T /\ Tail(q) \in Seq(T)
           /\ 1 \in 1..Len(q) /\ q[1] = Head(q)
           /\ \A i \in 1..Len(q) :
                  q[i] = Head(q) \/ \E j \in 1..Len(Tail(q)) : Tail(q)[j] = q[i]
           /\ \A j \in 1..Len(Tail(q)) :
                  j + 1 \in 1..Len(q) /\ 1 < j + 1 /\ Tail(q)[j] = q[j + 1]
<1>1. Head(q) \in T /\ Tail(q) \in Seq(T) /\ 1 \in 1..Len(q) /\ q[1] = Head(q)
  OBVIOUS
<1>2. ASSUME NEW i \in 1..Len(q), q[i] # Head(q)
      PROVE  \E j \in 1..Len(Tail(q)) : Tail(q)[j] = q[i]
  <2>1. i - 1 \in 1..Len(Tail(q)) /\ Tail(q)[i - 1] = q[i]
    BY <1>2
  <2> QED BY <2>1
<1>3. \A j \in 1..Len(Tail(q)) : j + 1 \in 1..Len(q) /\ 1 < j + 1 /\ Tail(q)[j] = q[j + 1]
  OBVIOUS
<1> QED BY <1>1, <1>2, <1>3

\* Taking the first connection off the list keeps the order.
LEMMA RestOrdered ==
    ASSUME NetList, netPhase = "profile", connections # <<>>,
           UNCHANGED netReq, connections' = Tail(connections)
    PROVE  NetList'
<1> DEFINE Listed == {"Management", "External"} \cup netReq.nets
<1>1. connections \in Seq(Listed) /\ Ordered(connections)
  BY DEF NetList
<1>2. /\ connections' \in Seq(Listed)
      /\ 1 \in 1..Len(connections) /\ connections[1] = Head(connections)
      /\ \A i \in 1..Len(connections) :
            connections[i] = Head(connections)
              \/ \E j \in 1..Len(connections') : connections'[j] = connections[i]
      /\ \A j \in 1..Len(connections') :
            /\ j + 1 \in 1..Len(connections) /\ 1 < j + 1
            /\ connections'[j] = connections[j + 1]
  BY <1>1, FirstOrRest
<1>3. Ordered(connections')
  <2> SUFFICES ASSUME NEW i \in 1..Len(connections'), NEW j \in 1..Len(connections'), i < j
               PROVE  N!Rank[connections'[i]] < N!Rank[connections'[j]]
    BY DEF Ordered
  <2>1. i + 1 < j + 1 /\ i + 1 \in 1..Len(connections) /\ j + 1 \in 1..Len(connections)
    BY <1>2
  <2>2. N!Rank[connections[i + 1]] < N!Rank[connections[j + 1]]
    BY <1>1, <2>1 DEF Ordered
  <2> QED BY <1>2, <2>2
<1>4. ASSUME NEW p \in Present, NEW j \in 1..Len(connections')
      PROVE  StillToDo(p)' \/ N!Rank[p] < N!Rank[connections'[j]]
  <2>1. j + 1 \in 1..Len(connections) /\ 1 < j + 1 /\ connections'[j] = connections[j + 1]
    BY <1>2
  <2>2. CASE StillToDo(p)
    <3>1. p = Head(connections) \/ StillToDo(p)'
      BY <1>2, <2>2 DEF StillToDo
    <3>2. N!Rank[connections[1]] < N!Rank[connections[j + 1]]
      BY <1>1, <1>2, <2>1 DEF Ordered
    <3> QED BY <1>2, <2>1, <3>1, <3>2
  <2>3. CASE ~StillToDo(p)
    BY <2>1, <2>3 DEF NetList
  <2> QED BY <2>2, <2>3
<1>5. Present' = Present
  BY DEF Present
<1> QED BY <1>2, <1>3, <1>4, <1>5 DEF NetList, Ordered

\* Deleting the profiles of a name keeps those of the others, and what is active
\* still has a profile.
LEMMA DeleteFacts ==
    ASSUME NetType, UNCHANGED netReq, NEW n, N!Delete(n)
    PROVE  /\ NetType' /\ profiles' \subseteq profiles
           /\ \A q \in profiles' : q.name # n
           /\ \A p : p # n => {q \in profiles' : q.name = p} = {q \in profiles : q.name = p}
           /\ \A i \in N!Devices : active[i] # n => active'[i] = active[i]
<1>1. /\ profiles' = {p \in profiles : p.name # n}
      /\ active' = [i \in N!Devices |-> IF active[i] = n THEN "none" ELSE active[i]]
  BY DEF N!Delete
<1>2. \A i \in N!Devices : active'[i] # "none" =>
          active'[i] = active[i] /\ active[i] # n /\ active[i] # "none"
  BY <1>1
<1>3. \A i \in N!Devices : active'[i] # "none" =>
          \E q \in profiles' : q.on = i /\ q.name = active'[i]
  BY <1>1, <1>2 DEF NetType
<1> QED BY <1>1, <1>3 DEF NetType

LEMMA NetNext == NetInv /\ N!NNext => NetInv'
<1> SUFFICES ASSUME NetInv, N!NNext
             PROVE  NetInv'
  OBVIOUS
<1> USE DEF N!host
<1> DEFINE Listed == {"Management", "External"} \cup netReq.nets
<1>0. /\ netReq \in NetworkRequests /\ netReq.nets \subseteq {"Service", "Application"}
      /\ Present \subseteq Networks /\ "External" \notin Present
      /\ netReq.on \in N!Cablings
      /\ \A p \in Networks : netReq.on[p] \in N!Devices
  <2>1. netReq \in NetworkRequests
    BY DEF NetInv, NetType
  <2>2. netReq.nets \subseteq {"Service", "Application"} /\ netReq.on \in N!Cablings
    BY <2>1, NetworkAssumption
  <2>3. Present \subseteq Networks /\ "External" \notin Present
    BY <2>2 DEF Present, Networks
  <2>4. \A p \in Networks : netReq.on[p] \in N!Devices
    BY <2>2 DEF N!Cablings, Networks
  <2> QED BY <2>1, <2>2, <2>3, <2>4
<1>t. NetType /\ NetMask /\ NetList /\ NetProgress
  BY DEF NetInv
<1>b. ASSUME UNCHANGED <<netReq, loaded>>, NEW p
      PROVE  N!Wanted(p)' = N!Wanted(p) /\ (N!Displaced(p)' <=> N!Displaced(p))
  BY <1>b DEF N!Wanted, N!Displaced
<1>c. ASSUME UNCHANGED <<netReq, loaded, profiles>>, NEW p
      PROVE  Written(p)' <=> Written(p)
  BY <1>b, <1>c DEF Written
<1>d. ASSUME UNCHANGED <<netReq, loaded, profiles, active>>, NEW p
      PROVE  IsUp(p)' <=> IsUp(p)
  BY <1>c, <1>d DEF IsUp
<1>e. ASSUME UNCHANGED connections
      PROVE  N!First' = N!First /\ \A p : StillToDo(p)' <=> StillToDo(p)
  BY <1>e DEF N!First, StillToDo
<1>f. \A p : N!Wanted(p).name = p /\ N!Wanted(p).on = netReq.on[p]
  BY DEF N!Wanted
<1>g. ASSUME UNCHANGED netReq
      PROVE  Present' = Present
  BY <1>g DEF Present
<1>l. ASSUME UNCHANGED <<netReq, netPhase, connections>>
      PROVE  NetList'
  BY <1>e, <1>g, <1>l, <1>t DEF NetList, Ordered
<1>m. ASSUME UNCHANGED <<netReq, netPhase, loaded>>, profiles' \subseteq profiles
      PROVE  NetMask'
  BY <1>m, <1>t DEF NetMask, N!OwnWire
<1>1. ASSUME NEW r \in NetworkRequests, N!LoadCluster(r)
      PROVE  NetInv'
  <2>1. /\ netReq' = r /\ r.on = netReq.on /\ UNCHANGED <<profiles, active>>
        /\ netPhase' \in {"stopped", "loaded"}
    BY <1>1 DEF N!LoadCluster
  <2>2. NetType'
    BY <1>t, <2>1 DEF NetType
  <2>3. ASSUME N!OwnWire(netReq)
        PROVE  \A m \in N!FetchSubnetMask(r.on["Service"]) : m = WireMask["Service"]
    BY <1>t, <2>1, <2>3 DEF N!FetchSubnetMask, N!ActiveOn, NetMask
  <2>4. ASSUME N!OwnWire(netReq), netPhase' = "loaded"
        PROVE  /\ loaded' # "" => loaded' = WireMask["Service"]
               /\ "Service" \in r.nets => loaded' = WireMask["Service"]
    BY <1>1, <2>3, <2>4, NetworkAssumption DEF N!LoadCluster
  <2>5. N!OwnWire(netReq)' => N!OwnWire(netReq)
    BY <2>1 DEF N!OwnWire
  <2>6. NetMask'
    BY <1>t, <2>1, <2>4, <2>5 DEF NetMask
  <2> QED BY <2>1, <2>2, <2>6 DEF NetInv, NetList, NetProgress
<1>2. CASE N!DisableDns
  <2>2. connections' = N!Connections(netReq.nets) /\ UNCHANGED <<netReq, profiles, active, loaded>>
    BY <1>2 DEF N!DisableDns
  <2>3. connections' \in Seq(Listed) /\ Ordered(connections')
    BY <1>0, <2>2, AllConnections
  <2>4. \A p \in Present : StillToDo(p)'
    BY <1>0, <2>2, AllConnections DEF StillToDo, Present
  <2>5. NetType' /\ NetMask'
    BY <1>2, <1>t, <2>2 DEF N!DisableDns, NetType, NetMask, N!OwnWire
  <2>6. NetList'
    BY <1>g, <2>2, <2>3, <2>4 DEF NetList, Ordered
  <2>7. NetProgress'
    BY <1>2, <1>g, <2>4 DEF N!DisableDns, NetProgress
  <2> QED BY <2>5, <2>6, <2>7 DEF NetInv
<1>3. CASE N!SkipConnection
  <2>1. /\ connections \in Seq(Listed) /\ connections # <<>> /\ connections' = Tail(connections)
        /\ ~netReq.dry => Head(connections) = "External"
        /\ netPhase = "profile" /\ command = 1 /\ netPhase' = netPhase /\ command' = command
        /\ UNCHANGED <<netReq, profiles, active, loaded, stuck>>
    BY <1>3, <1>t DEF N!SkipConnection, N!LeftAlone, N!First, NetList
  <2>2. NetList'
    BY <1>t, <2>1, RestOrdered
  <2>3. ASSUME ~netReq.dry, NEW p \in Present, StillToDo(p)
        PROVE  StillToDo(p)'
    BY <1>0, <2>1, <2>3, FirstOrRest DEF StillToDo
  <2>4. NetType' /\ NetMask'
    BY <1>m, <1>t, <2>1 DEF NetType
  <2>5. NetProgress'
    BY <1>b, <1>d, <1>g, <1>t, <2>1, <2>3 DEF NetProgress
  <2> QED BY <2>2, <2>4, <2>5 DEF NetInv
<1>a. ASSUME NEW s, N!Configuring(s)
      PROVE  /\ netPhase = "profile" /\ command = s /\ ~netReq.dry
             /\ connections # <<>> /\ connections \in Seq(Listed)
             /\ N!First \in Present /\ StillToDo(N!First)
             /\ netReq.on[N!First] \in N!Devices
             /\ \A p \in Present : StillToDo(p) \/ N!Rank[p] < N!Rank[N!First]
  <2>1. /\ netPhase = "profile" /\ connections # <<>> /\ command = s /\ ~netReq.dry
        /\ N!First # "External"
    BY <1>a DEF N!Configuring, N!LeftAlone
  <2>2. connections \in Seq(Listed)
    BY <1>t, <2>1 DEF NetList
  <2>3. N!First \in Present /\ 1 \in 1..Len(connections) /\ connections[1] = N!First
    BY <2>1, <2>2, FirstOrRest DEF N!First, Present
  <2>4. \A p \in Present : StillToDo(p) \/ N!Rank[p] < N!Rank[N!First]
    BY <1>t, <2>1, <2>3 DEF NetList
  <2> QED BY <1>0, <2>1, <2>2, <2>3, <2>4 DEF StillToDo
\* A network that is done and has the interface of the first has been displaced.
<1>h. ASSUME NEW s, N!Configuring(s), NEW p \in Present, ~StillToDo(p), ~N!Displaced(p)
      PROVE  p # N!First /\ netReq.on[p] # netReq.on[N!First]
  <2>1. N!Rank[p] < N!Rank[N!First] /\ N!First \in Present
    BY <1>a, <1>h
  <2>2. N!Rank[p] \in Nat /\ N!Rank["Management"] = 1 /\ N!Rank[p] >= 1
    BY <1>0, <1>h DEF N!Rank, Networks
  <2>3. N!First \in netReq.nets
    BY <2>1, <2>2 DEF Present
  <2> QED BY <1>a, <1>h, <2>1, <2>3 DEF N!Displaced
<1>4. CASE N!DeleteActive
  <2> DEFINE n == active[netReq.on[N!First]]
  <2>1. /\ N!Configuring(1) /\ N!Delete(n) /\ command' = 2
        /\ UNCHANGED <<netReq, netPhase, loaded, connections, stuck>>
    BY <1>4 DEF N!DeleteActive
  <2> HIDE DEF n
  <2>2. /\ NetType' /\ profiles' \subseteq profiles
        /\ \A p : p # n => {q \in profiles' : q.name = p} = {q \in profiles : q.name = p}
        /\ \A i \in N!Devices : active[i] # n => active'[i] = active[i]
    BY <1>t, <2>1, DeleteFacts
  <2>3. ASSUME NEW p \in Present, ~StillToDo(p), ~N!Displaced(p), IsUp(p)
        PROVE  IsUp(p)'
    <3>1. {q \in profiles : q.name = p} = {N!Wanted(p)} /\ active[netReq.on[p]] = p
      BY <2>3 DEF IsUp, Written
    <3>2. netReq.on[p] # netReq.on[N!First] /\ p # "none"
      BY <1>0, <1>h, <2>1, <2>3 DEF Networks
    <3>3. p # n
      <4> SUFFICES ASSUME p = n PROVE FALSE
        OBVIOUS
      <4>1. PICK q \in profiles : q.on = netReq.on[N!First] /\ q.name = p
        BY <1>a, <1>t, <2>1, <3>2 DEF NetType, n
      <4>2. q = N!Wanted(p)
        BY <3>1, <4>1
      <4> QED BY <1>f, <3>2, <4>1, <4>2
    <3>4. active'[netReq.on[p]] = p
      BY <1>0, <2>2, <3>1, <3>3
    <3>5. {q \in profiles' : q.name = p} = {N!Wanted(p)}
      BY <2>2, <3>1, <3>3
    <3> QED BY <1>b, <2>1, <3>4, <3>5 DEF IsUp, Written
  <2>4. NetMask' /\ NetList'
    BY <1>l, <1>m, <2>1, <2>2
  <2>5. NetProgress'
    BY <1>a, <1>b, <1>e, <1>g, <1>t, <2>1, <2>3 DEF NetProgress
  <2> QED BY <2>2, <2>4, <2>5 DEF NetInv
<1>5. CASE N!DeleteOwn
  <2>1. /\ N!Configuring(2) /\ command' = 3
        /\ UNCHANGED <<netReq, netPhase, loaded, connections>>
    BY <1>5 DEF N!DeleteOwn
  <2>2. CASE N!Delete(N!First) /\ UNCHANGED stuck
    <3>1. /\ NetType' /\ profiles' \subseteq profiles
          /\ \A q \in profiles' : q.name # N!First
          /\ \A p : p # N!First =>
                {q \in profiles' : q.name = p} = {q \in profiles : q.name = p}
          /\ \A i \in N!Devices : active[i] # N!First => active'[i] = active[i]
      BY <1>t, <2>1, <2>2, DeleteFacts
    <3>2. ASSUME NEW p \in Present, ~StillToDo(p), IsUp(p)
          PROVE  IsUp(p)'
      <4>1. p # N!First
        BY <1>a, <2>1, <3>2
      <4>2. active'[netReq.on[p]] = p
        BY <1>0, <3>1, <3>2, <4>1 DEF IsUp
      <4>3. {q \in profiles' : q.name = p} = {N!Wanted(p)}
        BY <3>1, <3>2, <4>1 DEF IsUp, Written
      <4> QED BY <1>b, <2>1, <4>2, <4>3 DEF IsUp, Written
    <3>3. NetMask' /\ NetList'
      BY <1>l, <1>m, <2>1, <3>1
    <3>4. NetProgress'
      BY <1>a, <1>b, <1>e, <1>g, <1>t, <2>1, <2>2, <3>1, <3>2 DEF NetProgress
    <3> QED BY <3>1, <3>3, <3>4 DEF NetInv
  <2>3. CASE stuck' = TRUE /\ UNCHANGED <<profiles, active>>
    <3>1. NetType' /\ NetMask' /\ NetList'
      BY <1>l, <1>m, <1>t, <2>1, <2>3 DEF NetType
    <3> QED BY <2>1, <2>3, <3>1 DEF NetInv, NetProgress
  <2> QED BY <1>5, <2>2, <2>3 DEF N!DeleteOwn
<1>6. CASE N!AddProfile
  <2>1. /\ N!Configuring(3) /\ command' = 4
        /\ profiles' = profiles \cup {N!Wanted(N!First)}
        /\ UNCHANGED <<netReq, netPhase, loaded, connections, active, stuck>>
    BY <1>6 DEF N!AddProfile
  <2>2. ASSUME NEW p \in Present, p # N!First, IsUp(p)
        PROVE  IsUp(p)'
    <3>1. {q \in profiles' : q.name = p} = {q \in profiles : q.name = p}
      BY <1>f, <2>1, <2>2
    <3> QED BY <1>b, <2>1, <2>2, <3>1 DEF IsUp, Written
  <2>3. ASSUME ~stuck PROVE Written(N!First)'
    <3>1. \A q \in profiles : q.name # N!First
      BY <1>a, <1>t, <2>1, <2>3 DEF NetProgress
    <3>2. {q \in profiles' : q.name = N!First} = {N!Wanted(N!First)}
      BY <1>f, <2>1, <3>1
    <3> QED BY <1>b, <1>e, <2>1, <3>2 DEF Written
  <2>4. NetMask'
    <3>1. ASSUME N!OwnWire(netReq), N!Wanted(N!First).on = netReq.on["Service"]
          PROVE  N!Wanted(N!First).mask = WireMask["Service"]
      <4>1. N!First = "Service"
        BY <1>0, <1>a, <1>f, <2>1, <3>1 DEF N!OwnWire, Networks
      <4>2. "Service" \in netReq.nets
        BY <1>a, <2>1, <4>1 DEF Present
      <4>3. loaded = WireMask["Service"]
        BY <1>a, <1>t, <2>1, <3>1, <4>2 DEF NetMask
      <4> QED BY <4>1, <4>3 DEF N!Wanted
    <3> QED BY <1>t, <2>1, <3>1 DEF NetMask, N!OwnWire
  <2>5. NetType' /\ NetList'
    BY <1>l, <1>t, <2>1 DEF NetType
  <2>7. NetProgress'
    BY <1>a, <1>b, <1>e, <1>g, <1>t, <2>1, <2>2, <2>3 DEF NetProgress
  <2> QED BY <2>4, <2>5, <2>7 DEF NetInv
<1>7. CASE N!BringUp
  <2>1. /\ N!Configuring(4) /\ command' = 1 /\ connections' = Tail(connections)
        /\ UNCHANGED <<netReq, netPhase, loaded, profiles, stuck>>
    BY <1>7 DEF N!BringUp
  <2>2. PICK q \in profiles : q.name = N!First /\ active' = [active EXCEPT ![q.on] = N!First]
    BY <1>7 DEF N!BringUp
  <2>3. \A p : Written(p)' <=> Written(p)
    BY <1>c, <2>1
  <2>4. ~stuck => q.on = netReq.on[N!First] /\ Written(N!First)
    BY <1>a, <1>f, <1>t, <2>1, <2>2 DEF NetProgress, Written
  <2>5. ASSUME ~stuck, NEW p \in Present, ~StillToDo(p)', ~N!Displaced(p)
        PROVE  IsUp(p)'
    <3>1. p = N!First \/ ~StillToDo(p)
      BY <1>a, <2>1, <2>5, FirstOrRest DEF N!First, StillToDo
    <3>2. CASE p = N!First
      <4>1. active'[netReq.on[p]] = p
        BY <1>a, <1>t, <2>1, <2>2, <2>4, <2>5, <3>2 DEF NetType
      <4> QED BY <2>1, <2>3, <2>4, <2>5, <3>2, <4>1 DEF IsUp
    <3>3. CASE ~StillToDo(p)
      <4>1. p # N!First /\ netReq.on[p] # netReq.on[N!First]
        BY <1>h, <2>1, <2>5, <3>3
      <4>2. IsUp(p)
        BY <1>a, <1>t, <2>1, <2>5, <3>3 DEF NetProgress
      <4>3. active'[netReq.on[p]] = p
        BY <1>0, <1>t, <2>2, <2>4, <2>5, <4>1, <4>2 DEF NetType, IsUp
      <4> QED BY <2>1, <2>3, <4>2, <4>3 DEF IsUp
    <3> QED BY <3>1, <3>2, <3>3
  <2>6. NetList'
    BY <1>a, <1>t, <2>1, RestOrdered
  <2>7. NetType'
    <3>1. active' = [i \in N!Devices |-> active'[i]]
      BY <1>t, <2>2 DEF NetType
    <3>2. \A i \in N!Devices : active'[i] # "none" =>
              \E x \in profiles' : x.on = i /\ x.name = active'[i]
      BY <1>t, <2>1, <2>2 DEF NetType
    <3> QED BY <1>0, <2>1, <3>1, <3>2 DEF NetType
  <2>8. NetMask'
    BY <1>m, <2>1
  <2>9. NetProgress'
    BY <1>a, <1>b, <1>g, <2>1, <2>5 DEF NetProgress
  <2> QED BY <2>6, <2>7, <2>8, <2>9 DEF NetInv
<1>8. CASE N!CommandFails \/ N!Crash
  BY <1>8 DEF N!CommandFails, N!Crash, NetInv, NetType, NetMask, N!OwnWire, NetList, NetProgress
<1>9. CASE N!SetHostname
  <2>1. \A p : ~StillToDo(p)
    BY <1>9 DEF N!SetHostname, StillToDo
  <2>2. NetType' /\ NetMask' /\ NetList'
    BY <1>9, <1>t DEF N!SetHostname, NetType, NetMask, N!OwnWire, NetList
  <2>3. NetProgress'
    BY <1>b, <1>d, <1>g, <1>9, <1>t, <2>1 DEF N!SetHostname, NetProgress
  <2> QED BY <2>2, <2>3 DEF NetInv
<1>10. CASE N!WriteHosts
  <2>1. NetType' /\ NetMask' /\ NetList'
    BY <1>10, <1>t DEF N!WriteHosts, NetType, NetMask, N!OwnWire, NetList
  <2>2. NetProgress'
    BY <1>b, <1>d, <1>g, <1>10, <1>t DEF N!WriteHosts, NetProgress
  <2> QED BY <2>1, <2>2 DEF NetInv
<1> QED
  BY <1>1, <1>2, <1>3, <1>4, <1>5, <1>6, <1>7, <1>8, <1>9, <1>10 DEF N!NNext

LEMMA NetStutter == NetInv /\ UNCHANGED networkVars => NetInv'
<1> SUFFICES ASSUME NetInv, UNCHANGED networkVars
             PROVE  NetInv'
  OBVIOUS
<1>1. UNCHANGED <<loaded, profiles, active, netPhase, connections, command, netReq, stuck>>
  BY DEF networkVars
<1>2. /\ N!First' = N!First /\ Present' = Present
      /\ \A p : N!Wanted(p)' = N!Wanted(p) /\ (N!Displaced(p)' <=> N!Displaced(p))
  BY <1>1 DEF N!Wanted, N!First, N!Displaced, Present
<1>3. \A p : Written(p)' <=> Written(p)
  BY <1>1, <1>2 DEF Written
<1>4. \A p : (IsUp(p)' <=> IsUp(p)) /\ (StillToDo(p)' <=> StillToDo(p))
  BY <1>1, <1>3 DEF IsUp, StillToDo
<1>5. NetType' /\ NetMask' /\ NetList'
  BY <1>1, <1>2, <1>4 DEF NetInv, NetType, NetMask, N!OwnWire, NetList, Ordered
<1>6. NetProgress'
  BY <1>1, <1>2, <1>3, <1>4 DEF NetInv, NetProgress
<1> QED BY <1>5, <1>6 DEF NetInv

LEMMA NetInvariance == Spec => [](which = "network" => NetInv)
<1>1. Init => (which = "network" => NetInv)
  BY NetInit DEF Init
<1>2. (which = "network" => NetInv) /\ [Next]_vars => (which = "network" => NetInv)'
  BY OnePart, NetNext, NetStutter
<1> QED BY <1>1, <1>2, PTL DEF Spec

\* Whatever profiles an earlier run left or lost, a finished network role has
\* every network up with the profile of this run, but for those whose interface a
\* later network of the cluster has, and if no deletion failed unnoticed.
THEOREM EveryNetworkUp == Spec => []NetworksUp
<1>1. (which = "network" => NetInv) => NetworksUp
  BY DEF NetInv, NetProgress, Present, NetworksUp, N!NetworksUp, IsUp, Written
<1> QED BY <1>1, NetInvariance, PTL

\* The mask of a service network with an interface of its own is that of the wire,
\* read or given.
THEOREM MaskIsTheWires == Spec => []MaskStable
<1>1. (which = "network" => NetInv) => MaskStable
  BY DEF NetInv, NetMask, MaskStable, N!MaskStable
<1> QED BY <1>1, NetInvariance, PTL

\* The operator is connected through the external interface: no command of the role
\* (network.cpp), in whatever state an interrupted run left the profiles, deletes or
\* takes down its active profile, as long as no other network is given that
\* interface, the profile has a name that neither a network nor the profile of
\* another interface has (nmcli deletes by name), and no deletion failed unnoticed.
External == netReq.on["External"]
ExternalApart ==
    /\ \A p \in Networks : netReq.on[p] # External
    /\ active[External] \notin Networks
    /\ \A i \in N!Devices \ {External} : active[i] # active[External]
    /\ active[External] # "none" /\ ~stuck
ExternalStaysUp ==
    [][ which = "network" /\ ExternalApart =>
          /\ active'[External] = active[External]
          /\ \A q \in profiles : q.name = active[External] => q \in profiles' ]_vars

\* The network role never touches the external connection (network.cpp skips it)
\* where that has an interface and a profile name of its own.
THEOREM ExternalUntouched == Spec => ExternalStaysUp
<1> DEFINE Stays == /\ active'[External] = active[External]
                    /\ \A q \in profiles : q.name = active[External] => q \in profiles'
<1>1. ASSUME NetInv, N!NNext, ExternalApart
      PROVE  Stays
  <2>0. /\ NetType /\ netReq.on \in N!Cablings /\ External \in N!Devices
        /\ netReq.nets \subseteq {"Service", "Application"}
    BY <1>1, NetworkAssumption DEF NetInv, NetType, N!Cablings, External
  <2>1. ASSUME netPhase = "profile", connections # <<>>, ~N!LeftAlone(N!First)
        PROVE  /\ N!First \in Networks /\ ~netReq.dry
               /\ netReq.on[N!First] \in N!Devices \ {External}
    <3>1. connections \in Seq({"Management", "External"} \cup netReq.nets)
      BY <1>1, <2>1 DEF NetInv, NetList
    <3>2. N!First \in {"Management", "External"} \cup netReq.nets
      BY <2>1, <3>1, FirstOrRest DEF N!First
    <3>3. N!First \in Networks /\ ~netReq.dry
      BY <2>0, <2>1, <3>2 DEF Networks, N!LeftAlone
    <3> QED BY <1>1, <2>0, <3>3 DEF Networks, N!Cablings, ExternalApart
  <2>2. CASE UNCHANGED <<profiles, active>>
    BY <2>2
  <2>3. ASSUME NEW n, n # active[External], N!Delete(n)
        PROVE  Stays
    BY <2>0, <2>3 DEF N!Delete
  <2>4. CASE N!DeleteActive
    <3>1. netReq.on[N!First] \in N!Devices \ {External} /\ N!Delete(active[netReq.on[N!First]])
      BY <2>1, <2>4 DEF N!DeleteActive, N!Configuring
    <3>2. active[netReq.on[N!First]] # active[External]
      BY <1>1, <3>1 DEF ExternalApart
    <3> QED BY <2>3, <3>1, <3>2
  <2>5. CASE N!DeleteOwn
    <3>1. N!First # active[External]
      BY <1>1, <2>1, <2>5 DEF N!DeleteOwn, N!Configuring, ExternalApart
    <3> QED BY <2>2, <2>3, <2>5, <3>1 DEF N!DeleteOwn
  <2>6. CASE N!AddProfile
    BY <2>6 DEF N!AddProfile
  <2>7. CASE N!BringUp
    <3>1. /\ netPhase = "profile" /\ connections # <<>> /\ command = 4
          /\ N!First \in Networks /\ ~netReq.dry
          /\ netReq.on[N!First] \in N!Devices \ {External}
      BY <2>1, <2>7 DEF N!BringUp, N!Configuring
    <3>2. PICK q \in profiles : q.name = N!First /\ active' = [active EXCEPT ![q.on] = N!First]
      BY <2>7 DEF N!BringUp
    <3>3. Written(N!First)
      BY <1>1, <3>1 DEF NetInv, NetProgress, ExternalApart
    <3>4. q.on = netReq.on[N!First]
      BY <3>2, <3>3 DEF Written, N!Wanted
    <3>5. active'[External] = active[External] /\ profiles' = profiles
      BY <2>0, <2>7, <3>1, <3>2, <3>4 DEF N!BringUp, NetType
    <3> QED BY <3>5
  <2> QED BY <1>1, <2>2, <2>4, <2>5, <2>6, <2>7
          DEF N!NNext, N!LoadCluster, N!DisableDns, N!SkipConnection, N!CommandFails,
              N!SetHostname, N!WriteHosts, N!Crash, N!host
<1>2. ASSUME UNCHANGED networkVars PROVE Stays
  BY <1>2 DEF networkVars
<1>3. (which = "network" => NetInv) /\ [Next]_vars =>
          (which = "network" /\ ExternalApart => Stays)
  BY <1>1, <1>2, OnePart
<1> QED BY <1>3, NetInvariance, PTL DEF Spec, ExternalStaysUp

\* With --dry the network role changes no profile, no interface, neither the hosts
\* file nor the host name, and the repos role neither moves nor writes a file,
\* whatever runs came before.
DryRunOnlyLooks ==
    [][ /\ which = "network" /\ netReq'.dry => UNCHANGED <<profiles, active, hosts, named>>
        /\ which = "repos" /\ repoReq'.dry => UNCHANGED <<dir, made, backup>> ]_vars
DryIsOver == which = "repos" /\ repoReq.dry => repoPhase \in {"idle", "done", "stopped", "crashed"}

LEMMA DryRepositories ==
    ASSUME DryIsOver, which = "repos", which' = which, R!RNext
    PROVE  DryIsOver' /\ (repoReq'.dry => UNCHANGED <<dir, made, backup>>)
<1>1. ASSUME NEW r, NEW found, R!Initialize(r, found)
      PROVE  DryIsOver' /\ (repoReq'.dry => UNCHANGED <<dir, made, backup>>)
  BY <1>1 DEF R!Initialize, DryIsOver
<1>2. CASE R!WriteAptSource
  BY <1>2 DEF R!WriteAptSource, DryIsOver
<1>3. CASE R!DiscardBackup \/ R!BeginBackup \/ R!CopyFile \/ R!CopiedAll \/ R!RemoveFile
  BY <1>3 DEF R!DiscardBackup, R!BeginBackup, R!CopyFile, R!CopiedAll, R!RemoveFile, DryIsOver
<1>4. CASE R!Assemble \/ R!SaveFile \/ R!LoadBaseDir
  BY <1>4 DEF R!Assemble, R!SaveFile, R!LoadBaseDir, DryIsOver
<1>5. CASE R!DisableFile \/ R!EnableFile \/ R!ImageRepos \/ R!Kill
  BY <1>5 DEF R!DisableFile, R!EnableFile, R!ImageRepos, R!Kill, DryIsOver
<1> QED BY <1>1, <1>2, <1>3, <1>4, <1>5 DEF R!RNext

LEMMA DryNetwork ==
    ASSUME named \in BOOLEAN, N!NNext
    PROVE  named' \in BOOLEAN /\ (netReq'.dry => UNCHANGED <<profiles, active, hosts, named>>)
<1> USE DEF N!host
<1>1. CASE N!SetHostname
  <2>1. named' \in BOOLEAN /\ UNCHANGED <<profiles, active, hosts, netReq>>
    BY <1>1 DEF N!SetHostname
  <2>2. netReq.dry => (named' <=> named)
    BY <1>1 DEF N!SetHostname
  <2>3. netReq.dry => named' = named
    BY <2>1, <2>2, Zenon
  <2> QED BY <2>1, <2>3
<1>2. CASE ~N!SetHostname
  <2>1. named' = named
    BY <1>2 DEF N!NNext, N!LoadCluster, N!DisableDns, N!SkipConnection, N!CommandFails,
                N!WriteHosts, N!Crash, N!DeleteActive, N!DeleteOwn, N!AddProfile, N!BringUp
  <2>2. netReq'.dry => UNCHANGED <<profiles, active, hosts>>
    BY <1>2 DEF N!NNext, N!LoadCluster, N!DisableDns, N!SkipConnection, N!CommandFails,
                N!WriteHosts, N!Crash, N!DeleteActive, N!DeleteOwn, N!Delete, N!AddProfile,
                N!BringUp, N!Configuring, N!LeftAlone
  <2> QED BY <2>1, <2>2
<1> QED BY <1>1, <1>2

\* A dry run of the network and repos roles leaves the head node as it is.
THEOREM DryRuns == Spec => DryRunOnlyLooks
<1> DEFINE Looks == which = "network" /\ netReq'.dry => UNCHANGED <<profiles, active, hosts, named>>
           Keeps == which = "repos" /\ repoReq'.dry => UNCHANGED <<dir, made, backup>>
           Typed == which = "network" => named \in BOOLEAN
<1>1. Init => DryIsOver /\ Typed
  BY DEF Init, R!RInit, N!NInit, DryIsOver
<1>2. Typed /\ [Next]_vars => Typed' /\ Looks
  <2>1. UNCHANGED networkVars => UNCHANGED <<profiles, active, hosts, named>>
    BY DEF networkVars
  <2> QED BY <2>1, DryNetwork, OnePart
<1>3. UNCHANGED repoVars /\ which' = which /\ DryIsOver => DryIsOver' /\ UNCHANGED <<dir, made, backup>>
  BY DEF repoVars, DryIsOver
<1>4. DryIsOver /\ [Next]_vars => DryIsOver' /\ Keeps
  <2> SUFFICES ASSUME DryIsOver, [Next]_vars PROVE DryIsOver' /\ Keeps
    OBVIOUS
  <2>1. CASE which = "repos"
    BY <1>3, <2>1, OnePart, DryRepositories
  <2>2. CASE which # "repos"
    BY <2>2, OnePart DEF DryIsOver
  <2> QED BY <2>1, <2>2
<1> QED BY <1>1, <1>2, <1>4, PTL DEF Spec, DryRunOnlyLooks

-----------------------------------------------------------------------------
\* The repos role.

Final == {"idle", "done", "stopped", "crashed"}
Moving == {"copy", "remove"}
Writing == {"query", "save", "disable", "enable", "image"}

\* What depends on the answerfile and on the configuration file in use.
HeadFamily == R!Families[repoReq.head]
ManagedIds == R!Managed(repoReq)
EnabledIds == R!Enabled(repoReq)
ConfEntries == R!Loaded(distroConf, repoReq.release)

\* Everything before the network is asked.
RepoType ==
    /\ repoReq \in RepositoryRequests
    /\ repoPhase \in Final \cup Moving \cup Writing \cup {"apt", "backup"}
    /\ made \in BOOLEAN /\ dropped \in BOOLEAN
    /\ torn \in {"no", "copy", "remove", "taken"}
    /\ ~made \/ repoPhase \in Moving => torn = "no"
    /\ repoPhase \in Writing => torn # "copy"
    /\ repoPhase \in Moving \cup Writing => made
    /\ repoPhase = "apt" => HeadFamily = "DEB" /\ R!Families[R!BootstrapOS(repoReq)] = "DEB"
    /\ made \/ repoPhase = "backup" => HeadFamily = "RPM"

\* Where the files of the operating system are: in their place until all are
\* copied, a kill included, and then in the backup.
Copied == {o \in R!Originals : o.file \notin R!Miscased}
Copying == ~made \/ repoPhase = "copy" \/ torn = "copy"
KeptInv ==
    torn # "taken" /\ ~dropped =>
        /\ Copying => R!Originals \subseteq dir
        /\ repoPhase = "copy" => \A o \in Copied : o \in backup \/ o.file \in repoFiles
        /\ ~Copying => Copied \subseteq backup

\* An entry of a .repo file that the role wrote.
Generated(e) ==
    /\ e = [file |-> e.file, id |-> e.id, url |-> e.url, meta |-> e.meta, key |-> e.key,
            check |-> e.check, on |-> e.on]
    /\ e.on \in BOOLEAN
    /\ e.meta = FALSE
    /\ \E c \in Catalogue : e.file = c.file /\ e.id = c.id

\* Once the files of the operating system are out of the way, the directory has
\* what the role wrote, every id once.
RemovedInv == repoPhase = "remove" => \A e \in dir : e.file \in repoFiles
DirInv ==
    torn = "no" /\ made /\ repoPhase \notin Moving =>
        /\ \A e \in dir : Generated(e)
        /\ \A d, e \in dir : d.id = e.id => d = e

\* What is on was switched on by a run.
SelectedInv ==
    /\ repoPhase \in {"enable", "image"} \/ R!Ready => EnabledIds \subseteq selected
    /\ torn = "no" /\ made /\ repoPhase \notin Moving => \A e \in dir : e.on => e.id \in selected

\* A repository of the configuration is in the directory with the location that
\* this run chose.
ThisRuns(url) == url = "mirror" => repoReq.mirrors
Saved(c) ==
    /\ \E e \in dir : e.id = c.id
    /\ \A e \in dir : e.id = c.id => ThisRuns(e.url)

Answered == repoPhase \in {"disable", "enable", "image"} \/ R!Ready
SavedInv ==
    /\ Answered => made
    /\ repoPhase = "save" \/ Answered => (R!Uniform => distroConf = repoReq.compute)
    /\ repoPhase = "save" => \A c \in ConfEntries : ThisRuns(plan[c.id].url)
    /\ torn = "no" /\ repoPhase = "save" => \A c \in ConfEntries : c.file \in repoFiles \/ Saved(c)
    /\ torn = "no" /\ Answered => \A c \in ConfEntries : Saved(c)

\* The switches.
IndexInv ==
    torn = "no" /\ repoPhase \in {"disable", "enable"} =>
        /\ \A e \in dir : idIndex[e.id] = e.file
        /\ \A i \in ManagedIds : \E e \in dir : e.id = i
SwitchInv ==
    /\ torn = "no" /\ repoPhase = "disable" =>
            \A e \in dir : e.id \in ManagedIds => e.file \in repoFiles \/ ~e.on
    /\ torn = "no" /\ repoPhase = "enable" =>
            \A e \in dir : e.id \in ManagedIds =>
                IF e.id \in EnabledIds THEN e.on \/ e.file \in repoFiles ELSE ~e.on
    /\ torn = "no" /\ (repoPhase = "image" \/ R!Ready) =>
            \A e \in dir : e.id \in ManagedIds => e.on = (e.id \in EnabledIds)

ReposInv ==
    /\ RepoType /\ KeptInv /\ RemovedInv /\ DirInv /\ SelectedInv
    /\ SavedInv /\ IndexInv /\ SwitchInv
    /\ R!ImageIsComplete
-----------------------------------------------------------------------------
\* A run keeps its answerfile, and with it what the cluster manages.
LEMMA SameRequest ==
    ASSUME repoReq' = repoReq
    PROVE  /\ HeadFamily' = HeadFamily /\ R!Originals' = R!Originals
           /\ R!Families[R!BootstrapOS(repoReq)]' = R!Families[R!BootstrapOS(repoReq)]
           /\ ManagedIds' = ManagedIds /\ EnabledIds' = EnabledIds
           /\ R!Uniform' = R!Uniform /\ Copied' = Copied
<1>1. HeadFamily' = HeadFamily /\ R!Uniform' = R!Uniform
  BY DEF HeadFamily, R!Families, R!Uniform
<1>2. R!Originals' = R!Originals
  BY DEF R!Originals, R!Families, R!Original, R!RPMRepository
<1>3. R!Families[R!BootstrapOS(repoReq)]' = R!Families[R!BootstrapOS(repoReq)]
  BY DEF R!Families, R!BootstrapOS
<1>4. ManagedIds' = ManagedIds
  BY DEF ManagedIds, R!Managed, R!Loaded, R!Parsed, R!BootstrapOS, R!Families
<1>5. EnabledIds' = EnabledIds
  BY DEF EnabledIds, R!Enabled, R!Managed, R!Loaded, R!Parsed, R!BootstrapOS, R!Families,
         R!Mandatory, R!Expand
<1>6. Copied' = Copied
  BY <1>2 DEF Copied, R!Miscased
<1> QED BY <1>1, <1>2, <1>3, <1>4, <1>5, <1>6

LEMMA ReposInitially == R!RInit => ReposInv
<1> SUFFICES ASSUME R!RInit
             PROVE  ReposInv
  OBVIOUS
<1> USE DEF R!RInit
<1>1. RepoType
  BY DEF RepoType, Final, Moving, Writing
<1>2. KeptInv
  BY DEF KeptInv, Copying
<1>3. RemovedInv /\ DirInv /\ IndexInv /\ SelectedInv
  BY DEF RemovedInv, DirInv, IndexInv, SelectedInv, R!Ready
<1>4. SavedInv /\ SwitchInv /\ R!ImageIsComplete
  BY DEF SavedInv, SwitchInv, Answered, R!Ready, R!ImageIsComplete
<1> QED BY <1>1, <1>2, <1>3, <1>4 DEF ReposInv

LEMMA TypeNext == RepoType /\ R!RNext => RepoType'
<1> SUFFICES ASSUME RepoType, R!RNext
             PROVE  RepoType'
  OBVIOUS
<1> USE DEF RepoType, Final, Moving, Writing
<1>1. ASSUME NEW r \in RepositoryRequests, NEW found, R!Initialize(r, found)
      PROVE  RepoType'
  BY <1>1, RequestAssumption DEF R!Initialize, R!BootstrapOS, HeadFamily, R!Families
<1>2. CASE R!WriteAptSource
  BY <1>2, SameRequest DEF R!WriteAptSource
<1>3. CASE R!DiscardBackup \/ R!BeginBackup
  BY <1>3, SameRequest DEF R!DiscardBackup, R!BeginBackup
<1>4. CASE R!CopyFile \/ R!CopiedAll \/ R!RemoveFile
  BY <1>4, SameRequest DEF R!CopyFile, R!CopiedAll, R!RemoveFile
<1>5. CASE R!Assemble \/ R!SaveFile \/ R!LoadBaseDir
  <2>1. repoReq' = repoReq /\ UNCHANGED <<made, torn, dropped>>
    BY <1>5 DEF R!Assemble, R!SaveFile, R!LoadBaseDir
  <2>2. repoPhase \in Writing /\ repoPhase' \in Writing \cup {"stopped"}
    BY <1>5 DEF R!Assemble, R!SaveFile, R!LoadBaseDir
  <2> QED BY <2>1, <2>2, SameRequest
<1>6. CASE R!DisableFile \/ R!EnableFile \/ R!ImageRepos
  <2>1. repoReq' = repoReq /\ UNCHANGED <<made, torn, dropped>>
    BY <1>6 DEF R!DisableFile, R!EnableFile, R!ImageRepos
  <2>2. repoPhase \in Writing /\ repoPhase' \in Writing \cup {"done"}
    BY <1>6 DEF R!DisableFile, R!EnableFile, R!ImageRepos
  <2> QED BY <2>1, <2>2, SameRequest
<1>7. CASE R!Kill
  BY <1>7, SameRequest DEF R!Kill
<1> QED
  BY <1>1, <1>2, <1>3, <1>4, <1>5, <1>6, <1>7 DEF R!RNext

LEMMA KeptNext == RepoType /\ KeptInv /\ R!RNext => KeptInv'
<1> SUFFICES ASSUME RepoType, KeptInv, R!RNext
             PROVE  KeptInv'
  OBVIOUS
<1> USE DEF KeptInv, Copying
<1>1. ASSUME NEW r \in RepositoryRequests, NEW found, R!Initialize(r, found)
      PROVE  KeptInv'
  <2>1. R!Originals' = R!Originals /\ Copied' = Copied
    BY <1>1 DEF R!Initialize, R!Originals, R!Families, R!Original, R!RPMRepository, Copied,
                R!Miscased
  <2> QED BY <1>1, <2>1 DEF R!Initialize, Final
<1>2. CASE R!WriteAptSource
  <2>1. R!Originals = {} /\ Copied = {} /\ ~made
    BY <1>2 DEF R!WriteAptSource, RepoType, HeadFamily, R!Originals, Copied
  <2> QED BY <1>2, <2>1, SameRequest DEF R!WriteAptSource
<1>3. CASE R!DiscardBackup
  BY <1>3, SameRequest DEF R!DiscardBackup, RepoType, Moving
<1>4. CASE R!BeginBackup
  <2>1. UNCHANGED <<dir, backup, dropped>> /\ repoPhase = "backup" /\ made'
        /\ R!Originals' = R!Originals /\ Copied' = Copied
    BY <1>4, SameRequest DEF R!BeginBackup
  <2>2. CASE made
    BY <1>4, <2>1, <2>2 DEF R!BeginBackup
  <2>3. CASE ~made
    <3>1. torn = "no" /\ torn' = "no" /\ repoPhase' = "copy" /\ repoFiles' = R!RepoFiles
      BY <1>4, <2>3 DEF R!BeginBackup, RepoType
    <3>2. R!Originals \subseteq dir => \A o \in Copied : o.file \in R!RepoFiles
      BY DEF Copied, R!RepoFiles, R!Files
    <3> QED BY <2>1, <2>3, <3>1, <3>2
  <2> QED BY <2>2, <2>3
<1>5. CASE R!CopyFile
  <2>1. /\ UNCHANGED <<dir, dropped, made, torn>> /\ repoPhase = "copy" /\ repoPhase' = "copy"
        /\ R!Originals' = R!Originals /\ Copied' = Copied /\ torn = "no"
    BY <1>5, SameRequest DEF R!CopyFile, RepoType, Moving
  <2>2. PICK f \in repoFiles :
          backup' = backup \cup {e \in dir : e.file = f} /\ repoFiles' = repoFiles \ {f}
    BY <1>5 DEF R!CopyFile
  <2> QED BY <2>1, <2>2 DEF Copied
<1>6. CASE R!CopiedAll \/ R!RemoveFile
  <2>1. torn = "no" /\ torn' = "no" /\ made /\ made' /\ repoPhase' # "copy"
        /\ UNCHANGED <<backup, dropped>> /\ Copied' = Copied
    BY <1>6, SameRequest DEF R!CopiedAll, R!RemoveFile, RepoType, Moving
  <2>2. ~dropped => Copied \subseteq backup
    BY <1>6, <2>1 DEF R!CopiedAll, R!RemoveFile
  <2> QED BY <2>1, <2>2
<1>7. CASE R!Assemble \/ R!SaveFile \/ R!LoadBaseDir
  <2>1. repoReq' = repoReq /\ UNCHANGED <<made, torn, dropped, backup>>
    BY <1>7 DEF R!Assemble, R!SaveFile, R!LoadBaseDir
  <2>2. repoPhase \in Writing /\ repoPhase' # "copy"
    BY <1>7 DEF R!Assemble, R!SaveFile, R!LoadBaseDir, Writing
  <2> QED BY <2>1, <2>2, SameRequest DEF RepoType, Writing
<1>8. CASE R!DisableFile \/ R!EnableFile \/ R!ImageRepos
  <2>1. repoReq' = repoReq /\ UNCHANGED <<made, torn, dropped, backup>>
    BY <1>8 DEF R!DisableFile, R!EnableFile, R!ImageRepos
  <2>2. repoPhase \in Writing /\ repoPhase' # "copy"
    BY <1>8 DEF R!DisableFile, R!EnableFile, R!ImageRepos, Writing
  <2> QED BY <2>1, <2>2, SameRequest DEF RepoType, Writing
<1>9. CASE R!Kill
  <2>1. /\ UNCHANGED <<dir, made, backup, dropped>> /\ repoPhase' = "crashed"
        /\ R!Originals' = R!Originals /\ Copied' = Copied
        /\ torn' = IF repoPhase \in {"copy", "remove"} THEN repoPhase ELSE torn
    BY <1>9, SameRequest DEF R!Kill
  <2>2. repoPhase \in Moving => made /\ torn = "no"
    BY DEF RepoType
  <2> QED BY <2>1, <2>2 DEF Moving
<1> QED
  BY <1>1, <1>2, <1>3, <1>4, <1>5, <1>6, <1>7, <1>8, <1>9 DEF R!RNext

\* Reading the repository files and switching repositories on and off leave the
\* entries as they are, but for the switch.
LEMMA SwitchKeeps ==
    ASSUME NEW f, NEW ids, NEW value \in BOOLEAN, R!Switch(f, ids, value),
           \A e \in dir : Generated(e)
    PROVE  /\ \A n \in dir' : /\ Generated(n)
                              /\ \E e \in dir :
                                    /\ n.id = e.id /\ n.file = e.file /\ n.url = e.url
                                    /\ n = IF e.file = f /\ e.id \in ids /\ idIndex[e.id] = f
                                           THEN [e EXCEPT !.on = value] ELSE e
           /\ \A e \in dir : \E n \in dir' : n.id = e.id
<1>1. ASSUME NEW e \in dir
      PROVE  LET n == [e EXCEPT !.on = value] IN
             Generated(n) /\ n.id = e.id /\ n.file = e.file /\ n.url = e.url
  BY Zenon, SMT DEF Generated
<1> QED BY <1>1 DEF R!Switch

\* What is on after a switch was on, or has been switched on.
LEMMA SwitchOnly ==
    ASSUME NEW f, NEW ids, NEW value \in BOOLEAN, R!Switch(f, ids, value),
           \A e \in dir : Generated(e), NEW n \in dir', n.on
    PROVE  \E e \in dir : n.id = e.id /\ (e.on \/ (value /\ e.id \in ids))
<1>1. PICK e \in dir :
        /\ n.id = e.id
        /\ n = IF e.file = f /\ e.id \in ids /\ idIndex[e.id] = f THEN [e EXCEPT !.on = value] ELSE e
  BY SwitchKeeps
<1>2. [e EXCEPT !.on = value].on = value
  BY DEF Generated
<1> QED BY <1>1, <1>2

LEMMA RemovedNext == RepoType /\ RemovedInv /\ R!RNext => RemovedInv'
<1> SUFFICES ASSUME RepoType, RemovedInv, R!RNext, repoPhase' = "remove"
             PROVE  \A e \in dir' : e.file \in repoFiles'
  BY DEF RemovedInv
<1>1. R!CopiedAll \/ R!RemoveFile
  BY DEF R!RNext, R!Initialize, R!WriteAptSource, R!DiscardBackup, R!BeginBackup, R!CopyFile,
         R!Assemble, R!SaveFile, R!LoadBaseDir, R!DisableFile, R!EnableFile, R!ImageRepos, R!Kill
<1>2. CASE R!CopiedAll
  BY <1>2 DEF R!CopiedAll, R!Files
<1>3. CASE R!RemoveFile
  BY <1>3 DEF R!RemoveFile, RemovedInv
<1> QED BY <1>1, <1>2, <1>3
\* A section that is written has the id of the configuration, the location that
\* this run chose, and no metalink where the old section had none.
LEMMA MergeFacts ==
    ASSUME NEW c \in Catalogue, \A e \in dir : Generated(e)
    PROVE  LET m == R!Merge(c.file, c.id) IN
           Generated(m) /\ m.file = c.file /\ m.id = c.id /\ m.url = plan[c.id].url
<1> DEFINE m == R!Merge(c.file, c.id)
<1>1. ~\E e \in R!Old(c.file, c.id) : e.meta
  BY DEF R!Old, Generated
<1>2. m.meta = FALSE
  BY <1>1 DEF R!Merge, R!RPMRepository
<1>3. m.file = c.file /\ m.id = c.id /\ m.url = plan[c.id].url /\ m.on = FALSE
  BY DEF R!Merge, R!RPMRepository
<1>4. m = [file |-> m.file, id |-> m.id, url |-> m.url, meta |-> m.meta, key |-> m.key,
           check |-> m.check, on |-> m.on]
  BY Zenon DEF R!Merge, R!RPMRepository
<1> HIDE DEF m
<1>5. Generated(m)
  BY <1>2, <1>3, <1>4 DEF Generated
<1> QED BY <1>3, <1>5 DEF m

\* What SaveFile does to the directory.
LEMMA SaveFacts ==
    ASSUME R!SaveFile, \A e \in dir : Generated(e)
    PROVE  \E f \in repoFiles :
             /\ repoFiles' = repoFiles \ {f}
             /\ \A n \in dir' :
                  \/ n \in dir /\ \A c \in ConfEntries : c.file = f => ~(n.file = f /\ n.id = c.id)
                  \/ \E c \in ConfEntries : c.file = f /\ n = R!Merge(f, c.id)
             /\ \A e \in dir : e \in dir' \/ \E c \in ConfEntries : c.file = f /\ e.id = c.id
             /\ \A c \in ConfEntries : c.file = f => R!Merge(f, c.id) \in dir'
<1> DEFINE f == R!NextFile
           ids == {e.id : e \in {c \in R!Loaded(distroConf, repoReq.release) : c.file = f}}
<1>1. f \in repoFiles
  BY DEF R!SaveFile, R!NextFile
<1>2. /\ dir' = {e \in dir : ~(e.file = f /\ e.id \in ids)} \cup {R!Merge(f, i) : i \in ids}
      /\ repoFiles' = repoFiles \ {f}
  BY DEF R!SaveFile
<1> HIDE DEF f
<1> QED BY <1>1, <1>2 DEF ConfEntries

LEMMA ConfInCatalogue == ConfEntries \subseteq Catalogue
BY DEF ConfEntries, R!Loaded, R!Parsed

\* An entry with the id of a repository is in the file of that repository.
LEMMA OneFile ==
    ASSUME NEW e, Generated(e), NEW c \in Catalogue, e.id = c.id
    PROVE  e.file = c.file
<1>1. \A b, d \in Catalogue : b.id = d.id => b.file = d.file
  BY CatalogueAssumption
<1>2. PICK d \in Catalogue : e.file = d.file /\ e.id = d.id
  BY DEF Generated
<1> QED BY <1>1, <1>2

LEMMA DirNext == RepoType /\ RemovedInv /\ DirInv /\ R!RNext => DirInv'
<1> SUFFICES ASSUME RepoType, RemovedInv, DirInv, R!RNext, torn' = "no", made', repoPhase' \notin Moving
             PROVE  /\ \A e \in dir' : Generated(e)
                    /\ \A d, e \in dir' : d.id = e.id => d = e
  BY DEF DirInv
<1> DEFINE Good == torn = "no" /\ made /\ repoPhase \notin Moving
<1>0. Good => (\A e \in dir : Generated(e)) /\ \A d, e \in dir : d.id = e.id => d = e
  BY DEF DirInv
<1>1. CASE UNCHANGED dir /\ Good
  BY <1>0, <1>1
<1>2. ASSUME NEW r \in RepositoryRequests, NEW found, R!Initialize(r, found)
      PROVE  UNCHANGED dir /\ Good
  BY <1>2 DEF R!Initialize, Moving
<1>3. CASE R!WriteAptSource
  BY <1>3 DEF R!WriteAptSource, RepoType
<1>4. CASE R!DiscardBackup \/ R!CopyFile \/ R!CopiedAll
  BY <1>4 DEF R!DiscardBackup, R!CopyFile, R!CopiedAll, Moving
<1>5. CASE R!BeginBackup \/ R!Kill
  BY <1>1, <1>5 DEF R!BeginBackup, R!Kill, Moving
<1>6. CASE R!RemoveFile
  BY <1>6 DEF R!RemoveFile, RemovedInv, Moving
<1>7. CASE R!Assemble \/ R!LoadBaseDir \/ R!ImageRepos
  BY <1>1, <1>7 DEF R!Assemble, R!LoadBaseDir, R!ImageRepos, Moving, RepoType, Writing
<1>8. CASE R!SaveFile
  <2>0. Good
    BY <1>8 DEF R!SaveFile, Moving
  <2>1. PICK f \in repoFiles :
          \A n \in dir' :
                  \/ n \in dir /\ \A c \in ConfEntries : c.file = f => ~(n.file = f /\ n.id = c.id)
                  \/ \E c \in ConfEntries : c.file = f /\ n = R!Merge(f, c.id)
    BY <1>0, <1>8, <2>0, SaveFacts
  <2>2. \A c \in ConfEntries : c \in Catalogue /\ Generated(R!Merge(c.file, c.id))
                               /\ R!Merge(c.file, c.id).id = c.id
    BY <1>0, <2>0, MergeFacts, ConfInCatalogue
  <2>3. \A e \in dir' : Generated(e)
    BY <1>0, <2>0, <2>1, <2>2
  <2>4. ASSUME NEW d \in dir', NEW e \in dir', d.id = e.id
        PROVE  d = e
    <3>1. CASE d \in dir /\ e \in dir
      BY <1>0, <2>0, <2>4, <3>1
    <3>2. ASSUME NEW c \in ConfEntries, NEW b \in ConfEntries, c.file = f, b.file = f,
                 d = R!Merge(f, c.id), e = R!Merge(f, b.id)
          PROVE  d = e
      BY <2>2, <2>4, <3>2
    <3>3. ASSUME NEW x \in dir, NEW c \in ConfEntries, c.file = f, R!Merge(f, c.id).id = x.id
          PROVE  x.file = f /\ x.id = c.id
      BY <1>0, <2>0, <2>2, <3>3, OneFile
    <3> QED BY <2>1, <2>4, <3>1, <3>2, <3>3
  <2> QED BY <2>3, <2>4
<1>9. CASE R!DisableFile \/ R!EnableFile
  <2>0. Good
    <3>1. repoPhase \in {"disable", "enable"} /\ UNCHANGED <<made, torn>>
      BY <1>9 DEF R!DisableFile, R!EnableFile
    <3> QED BY <3>1 DEF Moving
  <2>1. UNCHANGED dir \/ \E f, ids : \E value \in BOOLEAN : R!Switch(f, ids, value)
    BY <1>9 DEF R!DisableFile, R!EnableFile
  <2>2. ASSUME NEW f, NEW ids, NEW value \in BOOLEAN, R!Switch(f, ids, value)
        PROVE  /\ \A e \in dir' : Generated(e)
               /\ \A d, e \in dir' : d.id = e.id => d = e
    BY <1>0, <2>0, <2>2, SwitchKeeps
  <2> QED BY <1>1, <2>0, <2>1, <2>2
<1> QED
  BY <1>1, <1>2, <1>3, <1>4, <1>5, <1>6, <1>7, <1>8, <1>9 DEF R!RNext
LEMMA SelectedNext ==
    RepoType /\ RemovedInv /\ DirInv /\ SelectedInv /\ R!RNext => SelectedInv'
<1> SUFFICES ASSUME RepoType, RemovedInv, DirInv, SelectedInv, R!RNext
             PROVE  SelectedInv'
  OBVIOUS
<1> DEFINE Good == torn = "no" /\ made /\ repoPhase \notin Moving
           On == repoPhase \in {"enable", "image"} \/ R!Ready
<1>0. Good => (\A e \in dir : Generated(e)) /\ \A e \in dir : e.on => e.id \in selected
  BY DEF DirInv, SelectedInv
<1>1. CASE ~On' /\ (Good' => UNCHANGED dir /\ Good) /\ selected' = selected
  BY <1>0, <1>1 DEF SelectedInv
<1>2. ASSUME NEW r \in RepositoryRequests, NEW found, R!Initialize(r, found)
      PROVE  ~On' /\ (Good' => UNCHANGED dir /\ Good) /\ selected' = selected
  BY <1>2 DEF R!Initialize, Moving, R!Ready
<1>3. CASE R!WriteAptSource
  <2>1. ~made' /\ selected' = selected /\ ~On'
    BY <1>3, SameRequest DEF R!WriteAptSource, RepoType, R!Ready
  <2> QED BY <2>1 DEF SelectedInv
<1>4. CASE R!DiscardBackup \/ R!CopyFile \/ R!CopiedAll \/ R!BeginBackup \/ R!Kill
  BY <1>1, <1>4 DEF R!DiscardBackup, R!CopyFile, R!CopiedAll, R!BeginBackup, R!Kill, Moving, R!Ready
<1>5. CASE R!RemoveFile
  <2>1. ~On' /\ selected' = selected /\ (Good' => dir' = {})
    BY <1>5 DEF R!RemoveFile, RemovedInv, Moving, R!Ready
  <2> QED BY <2>1 DEF SelectedInv
<1>6. CASE R!Assemble \/ R!LoadBaseDir
  BY <1>1, <1>6 DEF R!Assemble, R!LoadBaseDir, Moving, R!Ready
<1>7. CASE R!SaveFile
  <2>1. ~On' /\ selected' = selected /\ (Good' => Good)
    BY <1>7 DEF R!SaveFile, Moving, R!Ready
  <2>2. ASSUME Good PROVE \A n \in dir' : n.on => n.id \in selected
    <3>1. PICK f \in repoFiles :
            \A n \in dir' : n \in dir \/ \E c \in ConfEntries : c.file = f /\ n = R!Merge(f, c.id)
      BY <1>0, <1>7, <2>2, SaveFacts
    <3>2. \A c : ~R!Merge(f, c).on
      BY DEF R!Merge, R!RPMRepository
    <3> QED BY <1>0, <2>2, <3>1, <3>2
  <2> QED BY <2>1, <2>2 DEF SelectedInv
<1>8. CASE R!DisableFile
  <2>1. Good' => Good
    BY <1>8 DEF R!DisableFile, Moving
  <2>2. CASE repoFiles = {}
    <3>1. selected' = selected \cup EnabledIds /\ UNCHANGED <<dir, repoReq>>
      BY <1>8, <2>2 DEF R!DisableFile, EnabledIds
    <3> QED BY <1>0, <2>1, <3>1, SameRequest DEF SelectedInv
  <2>3. CASE repoFiles # {}
    <3>1. ~On' /\ selected' = selected
      BY <1>8, <2>3 DEF R!DisableFile, R!Ready
    <3>2. PICK v \in BOOLEAN : v = FALSE /\ R!Switch(R!NextFile, ManagedIds, v)
      BY <1>8, <2>3 DEF R!DisableFile, ManagedIds
    <3>3. ASSUME Good PROVE \A n \in dir' : n.on => n.id \in selected
      BY <1>0, <3>2, <3>3, SwitchOnly
    <3> QED BY <2>1, <3>1, <3>3 DEF SelectedInv
  <2> QED BY <2>2, <2>3
<1>9. CASE R!EnableFile
  <2>1. selected' = selected /\ (Good' => Good) /\ EnabledIds' = EnabledIds
    BY <1>9, SameRequest DEF R!EnableFile, Moving
  <2>2. EnabledIds \subseteq selected
    BY <1>9 DEF R!EnableFile, SelectedInv
  <2>3. CASE repoFiles = {}
    BY <1>0, <1>9, <2>1, <2>2, <2>3 DEF R!EnableFile, SelectedInv
  <2>4. CASE repoFiles # {}
    <3>2. PICK v \in BOOLEAN : v = TRUE /\ R!Switch(R!NextFile, EnabledIds, v)
      BY <1>9, <2>4 DEF R!EnableFile, EnabledIds
    <3>3. ASSUME Good PROVE \A n \in dir' : n.on => n.id \in selected
      BY <1>0, <2>2, <3>2, <3>3, SwitchOnly
    <3> QED BY <2>1, <2>2, <3>3 DEF SelectedInv
  <2> QED BY <2>3, <2>4
<1>10. CASE R!ImageRepos
  <2>1. /\ repoPhase = "image" /\ UNCHANGED <<selected, dir, made, torn>>
        /\ EnabledIds' = EnabledIds
    BY <1>10, SameRequest DEF R!ImageRepos
  <2> QED BY <1>0, <2>1 DEF SelectedInv, Moving
<1> QED
  BY <1>1, <1>2, <1>3, <1>4, <1>5, <1>6, <1>7, <1>8, <1>9, <1>10 DEF R!RNext

\* The steps that lead to the writing of the files and to what comes after it.
LEMMA SaveBy == R!RNext /\ repoPhase' = "save" => R!Assemble \/ R!SaveFile
BY DEF R!RNext, R!Initialize, R!WriteAptSource, R!DiscardBackup, R!BeginBackup, R!CopyFile,
       R!CopiedAll, R!RemoveFile, R!LoadBaseDir, R!DisableFile, R!EnableFile, R!ImageRepos, R!Kill

LEMMA AnsweredBy ==
    RepoType /\ R!RNext /\ Answered' =>
        \/ R!LoadBaseDir /\ repoPhase' = "disable"
        \/ R!DisableFile \/ R!EnableFile \/ R!ImageRepos
<1> SUFFICES ASSUME RepoType, R!RNext, Answered'
             PROVE  \/ R!LoadBaseDir /\ repoPhase' = "disable"
                    \/ R!DisableFile \/ R!EnableFile \/ R!ImageRepos
  OBVIOUS
<1> USE DEF Answered, R!Ready
<1>1. ASSUME NEW r \in RepositoryRequests, NEW found, R!Initialize(r, found)
      PROVE  FALSE
  BY <1>1 DEF R!Initialize
<1>2. ~R!WriteAptSource
  BY SameRequest DEF R!WriteAptSource, RepoType
<1>3. ~(R!DiscardBackup \/ R!BeginBackup \/ R!CopyFile \/ R!CopiedAll \/ R!RemoveFile)
  BY DEF R!DiscardBackup, R!BeginBackup, R!CopyFile, R!CopiedAll, R!RemoveFile
<1>4. ~(R!Assemble \/ R!SaveFile \/ R!Kill)
  BY DEF R!Assemble, R!SaveFile, R!Kill
<1>5. R!LoadBaseDir => repoPhase' = "disable"
  BY DEF R!LoadBaseDir
<1> QED BY <1>1, <1>2, <1>3, <1>4, <1>5 DEF R!RNext

\* A mirror is chosen only where the run uses mirrors.
LEMMA ChosenUrl ==
    ASSUME NEW c, NEW mirrors, NEW a, NEW b
    PROVE  ThisRuns(R!Answer(c, mirrors, a, b).url)
BY DEF ThisRuns, R!Answer, R!ChoosesMirror, R!MirrorRepo, R!UpstreamRepo

LEMMA AssembleFacts ==
    ASSUME RepoType, R!Assemble
    PROVE  /\ R!Uniform' => distroConf' = repoReq'.compute
           /\ \A c \in ConfEntries' : ThisRuns(plan'[c.id].url)
           /\ \A c \in ConfEntries' : c.file \in repoFiles'
<1>1. PICK c \in R!Branches :
        /\ distroConf' = c
        /\ \E mirrors \in SUBSET R!Ids({x \in R!Loaded(c, repoReq.release) : repoReq.mirrors /\ x.mirror}),
              first1, second \in SUBSET R!Ids({x \in R!Loaded(c, repoReq.release) : x.key}) :
            plan' = [i \in R!Ids(R!Loaded(c, repoReq.release)) |->
                      R!Answer(CHOOSE e \in R!Loaded(c, repoReq.release) : e.id = i,
                               mirrors, first1, second)]
        /\ repoFiles' = {e.file : e \in R!Loaded(c, repoReq.release)}
  BY DEF R!Assemble
<1>2. repoReq' = repoReq /\ HeadFamily = "RPM"
  BY DEF R!Assemble, RepoType, Writing
<1>3. R!Uniform' => distroConf' = repoReq'.compute
  BY <1>1, <1>2, RequestAssumption DEF R!Uniform, R!Branches, HeadFamily, R!Families, RepoType
<1>4. ConfEntries' = R!Loaded(c, repoReq.release)
  BY <1>1, <1>2 DEF ConfEntries, R!Loaded, R!Parsed
<1>5. \A x \in R!Loaded(c, repoReq.release) : ThisRuns(plan'[x.id].url)
  BY <1>1, ChosenUrl DEF R!Ids
<1> QED BY <1>1, <1>3, <1>4, <1>5

LEMMA SaveFileSaves ==
    ASSUME RepoType, DirInv, DirInv', SavedInv, R!SaveFile, torn = "no", NEW c \in ConfEntries
    PROVE  c.file \in repoFiles' \/ Saved(c)'
<1>1. (\A e \in dir : Generated(e)) /\ \A d, e \in dir' : d.id = e.id => d = e
  BY DEF DirInv, R!SaveFile, RepoType, Moving, Writing
<1>2. PICK f \in repoFiles :
             /\ repoFiles' = repoFiles \ {f}
             /\ \A n \in dir' :
                  \/ n \in dir /\ \A b \in ConfEntries : b.file = f => ~(n.file = f /\ n.id = b.id)
                  \/ \E b \in ConfEntries : b.file = f /\ n = R!Merge(f, b.id)
             /\ \A e \in dir : e \in dir' \/ \E b \in ConfEntries : b.file = f /\ e.id = b.id
             /\ \A b \in ConfEntries : b.file = f => R!Merge(f, b.id) \in dir'
  BY <1>1, SaveFacts
<1>3. \A b \in ConfEntries :
        LET m == R!Merge(b.file, b.id) IN m.id = b.id /\ ThisRuns(m.url)
  <2>1. \A b \in ConfEntries : ThisRuns(plan[b.id].url)
    BY DEF SavedInv, R!SaveFile
  <2> QED BY <1>1, <2>1, MergeFacts, ConfInCatalogue
<1>4. \A url : ThisRuns(url)' <=> ThisRuns(url)
  BY DEF ThisRuns, R!SaveFile
<1>5. CASE c.file = f
  BY <1>1, <1>2, <1>3, <1>4, <1>5 DEF Saved
<1>6. CASE c.file # f
  <2>1. \A b \in ConfEntries : b.id = c.id => b.file # f
    BY <1>6, ConfInCatalogue, CatalogueAssumption
  <2>2. CASE c.file \in repoFiles
    BY <1>2, <1>6, <2>2
  <2>3. CASE Saved(c)
    <3>1. \E e \in dir' : e.id = c.id
      BY <1>2, <2>1, <2>3 DEF Saved
    <3>2. \A e \in dir' : e.id = c.id => ThisRuns(e.url)
      BY <1>2, <1>3, <2>3 DEF Saved
    <3> QED BY <1>4, <3>1, <3>2 DEF Saved
  <2> QED BY <2>2, <2>3 DEF SavedInv, R!SaveFile
<1> QED BY <1>5, <1>6
\* Switching keeps what was saved.
LEMMA SwitchSaved ==
    ASSUME NEW f, NEW ids, NEW value \in BOOLEAN, R!Switch(f, ids, value), UNCHANGED repoReq,
           \A e \in dir : Generated(e), NEW c, Saved(c)
    PROVE  Saved(c)'
BY SwitchKeeps DEF Saved, ThisRuns

LEMMA SavedNext == RepoType /\ DirInv /\ DirInv' /\ SavedInv /\ R!RNext => SavedInv'
<1> SUFFICES ASSUME RepoType, DirInv, DirInv', SavedInv, R!RNext
             PROVE  SavedInv'
  OBVIOUS
<1>0. \A url : repoReq' = repoReq => (ThisRuns(url)' <=> ThisRuns(url))
  BY DEF ThisRuns
<1>1. CASE R!Assemble
  <2>1. repoPhase' = "save" /\ ~Answered' /\ repoReq' = repoReq
    BY <1>1 DEF R!Assemble, Answered, R!Ready
  <2> QED BY <1>0, <1>1, <2>1, AssembleFacts DEF SavedInv
<1>2. CASE R!SaveFile
  <2>1. /\ repoPhase = "save" /\ repoPhase' = "save" /\ ~Answered'
        /\ UNCHANGED <<repoReq, distroConf, plan, torn>>
    BY <1>2 DEF R!SaveFile, Answered, R!Ready
  <2>2. ConfEntries' = ConfEntries
    BY <2>1 DEF ConfEntries, R!Loaded, R!Parsed
  <2>3. torn' = "no" => \A c \in ConfEntries' : c.file \in repoFiles' \/ Saved(c)'
    BY <1>2, <2>1, <2>2, SaveFileSaves
  <2>4. R!Uniform' => distroConf' = repoReq'.compute
    BY <2>1, SameRequest DEF SavedInv
  <2>5. (\A c \in ConfEntries : ThisRuns(plan[c.id].url))'
    BY <2>1, <2>2 DEF SavedInv, ThisRuns
  <2> QED BY <2>1, <2>3, <2>4, <2>5 DEF SavedInv
<1>3. CASE Answered' /\ UNCHANGED <<repoReq, distroConf, torn>> /\ repoPhase' # "save"
           /\ (R!Uniform => distroConf = repoReq.compute)
           /\ (torn = "no" => \A c \in ConfEntries : Saved(c))
  <2>1. ConfEntries' = ConfEntries
    BY <1>3 DEF ConfEntries, R!Loaded, R!Parsed
  <2>2. R!Uniform' => distroConf' = repoReq'.compute
    BY <1>3, SameRequest
  <2>3. torn = "no" => \A c \in ConfEntries : Saved(c)
    BY <1>3
  <2>4. UNCHANGED dir \/ \E f, ids : \E value \in BOOLEAN : R!Switch(f, ids, value)
    <3>1. R!LoadBaseDir \/ R!DisableFile \/ R!EnableFile \/ R!ImageRepos
      BY <1>3, AnsweredBy
    <3> QED BY <3>1 DEF R!LoadBaseDir, R!DisableFile, R!EnableFile, R!ImageRepos
  <2>5. torn = "no" /\ repoPhase \in Writing => \A e \in dir : Generated(e)
    BY DEF DirInv, RepoType, Moving, Writing
  <2>6. repoPhase \in Writing
    <3>1. R!LoadBaseDir \/ R!DisableFile \/ R!EnableFile \/ R!ImageRepos
      BY <1>3, AnsweredBy
    <3> QED BY <3>1 DEF R!LoadBaseDir, R!DisableFile, R!EnableFile, R!ImageRepos, Writing
  <2>7. torn = "no" => \A c \in ConfEntries : Saved(c)'
    <3>1. CASE UNCHANGED dir
      BY <1>0, <1>3, <2>3, <3>1 DEF Saved
    <3> QED BY <1>3, <2>3, <2>4, <2>5, <2>6, <3>1, SwitchSaved
  <2>8. made'
    <3>1. UNCHANGED made
      <4>1. R!LoadBaseDir \/ R!DisableFile \/ R!EnableFile \/ R!ImageRepos
        BY <1>3, AnsweredBy
      <4> QED BY <4>1 DEF R!LoadBaseDir, R!DisableFile, R!EnableFile, R!ImageRepos
    <3> QED BY <2>6, <3>1 DEF RepoType
  <2> QED BY <1>3, <2>1, <2>2, <2>7, <2>8 DEF SavedInv
<1>4. CASE ~Answered' /\ repoPhase' # "save"
  BY <1>4 DEF SavedInv
<1>5. ASSUME R!LoadBaseDir \/ R!DisableFile \/ R!EnableFile \/ R!ImageRepos
      PROVE  /\ UNCHANGED <<repoReq, distroConf, torn>>
             /\ R!Uniform => distroConf = repoReq.compute
             /\ torn = "no" => \A c \in ConfEntries : Saved(c)
  <2>1. CASE R!LoadBaseDir
    BY <2>1 DEF R!LoadBaseDir, SavedInv
  <2>2. CASE R!DisableFile \/ R!EnableFile \/ R!ImageRepos
    <3>1. UNCHANGED <<repoReq, distroConf, torn>> /\ repoPhase \in {"disable", "enable", "image"}
      BY <2>2 DEF R!DisableFile, R!EnableFile, R!ImageRepos
    <3> QED BY <3>1 DEF SavedInv, Answered
  <2> QED BY <1>5, <2>1, <2>2
<1>6. CASE repoPhase' = "save"
  BY <1>1, <1>2, <1>6, SaveBy
<1>7. CASE Answered' /\ repoPhase' # "save"
  BY <1>3, <1>5, <1>7, AnsweredBy
<1> QED BY <1>4, <1>6, <1>7
\* loadBaseDir finds every repository in its file.
LEMMA LoadFacts ==
    ASSUME R!LoadBaseDir, repoPhase' = "disable", \A d, e \in dir : d.id = e.id => d = e,
           \A e \in dir : Generated(e)
    PROVE  /\ \A e \in dir : idIndex'[e.id] = e.file
           /\ \A i \in ManagedIds : \E e \in dir : e.id = i
           /\ repoFiles' = {idIndex'[i] : i \in ManagedIds}
<1>0. (\A e \in dir : e.file \in R!RepoFiles) /\ R!Read = dir
  BY CatalogueAssumption DEF Generated, R!RepoFiles, R!Files, R!Miscased, R!Read
<1>1. PICK f \in R!RepoFiles :
        idIndex' = [i \in R!Ids(dir) |-> IF R!Old(f, i) # {} THEN f
                                         ELSE CHOOSE g \in R!RepoFiles : R!Old(g, i) # {}]
  BY <1>0 DEF R!LoadBaseDir
<1>2. ASSUME NEW e \in dir
      PROVE  idIndex'[e.id] = e.file
  <2>1. e.file \in R!RepoFiles /\ R!Old(e.file, e.id) # {} /\ e.id \in R!Ids(dir)
    BY <1>0 DEF R!Old, R!Ids
  <2>2. R!Old(idIndex'[e.id], e.id) # {}
    BY <1>1, <2>1
  <2> QED BY <2>2 DEF R!Old
<1>3. ManagedIds \subseteq R!Ids(dir) /\ repoFiles' = {idIndex'[i] : i \in ManagedIds}
  BY <1>0 DEF R!LoadBaseDir, ManagedIds
<1> QED BY <1>2, <1>3 DEF R!Ids

LEMMA IndexNext == RepoType /\ DirInv /\ IndexInv /\ R!RNext => IndexInv'
<1> SUFFICES ASSUME RepoType, DirInv, IndexInv, R!RNext, torn' = "no", repoPhase' \in {"disable", "enable"}
             PROVE  /\ \A e \in dir' : idIndex'[e.id] = e.file
                    /\ \A i \in ManagedIds' : \E e \in dir' : e.id = i
  BY DEF IndexInv
<1>1. (R!LoadBaseDir /\ repoPhase' = "disable") \/ R!DisableFile \/ R!EnableFile
  BY AnsweredBy DEF Answered, R!ImageRepos
<1>2. repoReq' = repoReq /\ UNCHANGED torn /\ repoPhase \in Writing
  BY <1>1 DEF R!LoadBaseDir, R!DisableFile, R!EnableFile, Writing
<1>3. /\ \A e \in dir : Generated(e)
      /\ \A d, e \in dir : d.id = e.id => d = e
  BY <1>2 DEF DirInv, RepoType, Moving, Writing
<1>4. ManagedIds' = ManagedIds
  BY <1>2, SameRequest
<1>5. CASE R!LoadBaseDir /\ repoPhase' = "disable"
  <2>1. dir' = dir
    BY <1>5 DEF R!LoadBaseDir
  <2> QED BY <1>3, <1>4, <1>5, <2>1, LoadFacts
<1>6. CASE R!DisableFile \/ R!EnableFile
  <2>1. UNCHANGED dir \/ \E f, ids : \E value \in BOOLEAN : R!Switch(f, ids, value)
    BY <1>6 DEF R!DisableFile, R!EnableFile
  <2>2. /\ idIndex' = idIndex
        /\ \A e \in dir : idIndex[e.id] = e.file
        /\ \A i \in ManagedIds : \E e \in dir : e.id = i
    BY <1>2, <1>6 DEF R!DisableFile, R!EnableFile, IndexInv
  <2>3. ASSUME NEW f, NEW ids, NEW value \in BOOLEAN, R!Switch(f, ids, value)
        PROVE  /\ \A e \in dir' : idIndex[e.id] = e.file
               /\ \A i \in ManagedIds : \E e \in dir' : e.id = i
    BY <1>3, <2>2, <2>3, SwitchKeeps
  <2> QED BY <1>4, <2>1, <2>2, <2>3
<1> QED BY <1>1, <1>5, <1>6

\* A file that is saved has the switch of its repositories as asked, and the
\* others as they were.
LEMMA SwitchFacts ==
    ASSUME NEW f, NEW ids, NEW value \in BOOLEAN, R!Switch(f, ids, value),
           \A e \in dir : Generated(e), \A e \in dir : idIndex[e.id] = e.file,
           NEW n \in dir'
    PROVE  \E e \in dir :
             /\ n.id = e.id /\ n.file = e.file
             /\ e.file = f /\ e.id \in ids => n.on = value
             /\ ~(e.file = f /\ e.id \in ids) => n.on = e.on
<1>1. PICK e \in dir :
        /\ n.id = e.id /\ n.file = e.file
        /\ n = IF e.file = f /\ e.id \in ids /\ idIndex[e.id] = f THEN [e EXCEPT !.on = value] ELSE e
  BY SwitchKeeps
<1>2. [e EXCEPT !.on = value].on = value
  BY DEF Generated
<1> QED BY <1>1, <1>2

LEMMA EnabledManaged == EnabledIds \subseteq ManagedIds
BY DEF EnabledIds, ManagedIds, R!Enabled
LEMMA SwitchNext == RepoType /\ DirInv /\ IndexInv /\ SwitchInv /\ R!RNext => SwitchInv'
<1> SUFFICES ASSUME RepoType, DirInv, IndexInv, SwitchInv, R!RNext, torn' = "no", Answered'
             PROVE  SwitchInv'
  BY DEF SwitchInv, Answered
<1>1. \/ R!LoadBaseDir /\ repoPhase' = "disable"
      \/ R!DisableFile \/ R!EnableFile \/ R!ImageRepos
  BY AnsweredBy
<1>2. repoReq' = repoReq /\ UNCHANGED torn /\ repoPhase \in Writing
  BY <1>1 DEF R!LoadBaseDir, R!DisableFile, R!EnableFile, R!ImageRepos, Writing
<1>3. /\ \A e \in dir : Generated(e)
      /\ \A d, e \in dir : d.id = e.id => d = e
  BY <1>2 DEF DirInv, RepoType, Moving, Writing
<1>4. ManagedIds' = ManagedIds /\ EnabledIds' = EnabledIds
  BY <1>2, SameRequest
<1>5. CASE R!LoadBaseDir /\ repoPhase' = "disable"
  <2>1. dir' = dir
    BY <1>5 DEF R!LoadBaseDir
  <2>2. \A e \in dir : e.id \in ManagedIds => e.file \in repoFiles'
    BY <1>3, <1>5, LoadFacts
  <2> QED BY <1>4, <1>5, <2>1, <2>2 DEF SwitchInv, R!Ready
<1>6. CASE R!DisableFile
  <2>1. \A e \in dir : e.id \in ManagedIds => e.file \in repoFiles \/ ~e.on
    BY <1>2, <1>6 DEF R!DisableFile, SwitchInv
  <2>2. \A e \in dir : idIndex[e.id] = e.file
    BY <1>2, <1>6 DEF R!DisableFile, IndexInv
  <2>3. CASE repoFiles = {}
    <3>1. /\ repoPhase' = "enable" /\ dir' = dir
          /\ repoFiles' = {idIndex[i] : i \in EnabledIds}
      BY <1>6, <2>3 DEF R!DisableFile, EnabledIds
    <3>2. \A e \in dir : e.id \in EnabledIds => e.file \in repoFiles'
      BY <2>2, <3>1
    <3> QED BY <1>4, <2>1, <2>3, <3>1, <3>2 DEF SwitchInv, R!Ready
  <2>4. CASE repoFiles # {}
    <3>0. PICK v \in BOOLEAN : v = FALSE /\ R!Switch(R!NextFile, ManagedIds, v)
      BY <1>6, <2>4 DEF R!DisableFile, ManagedIds
    <3>1. repoFiles' = repoFiles \ {R!NextFile} /\ repoPhase' = "disable"
      BY <1>6, <2>4 DEF R!DisableFile, ManagedIds
    <3>2. \A n \in dir' : n.id \in ManagedIds => n.file \in repoFiles' \/ ~n.on
      <4> SUFFICES ASSUME NEW n \in dir', n.id \in ManagedIds
                   PROVE  n.file \in repoFiles' \/ ~n.on
        OBVIOUS
      <4>0. R!Switch(R!NextFile, ManagedIds, v)
        BY <3>0
      <4>1. PICK e \in dir :
              /\ n.id = e.id /\ n.file = e.file
              /\ e.file = R!NextFile /\ e.id \in ManagedIds => n.on = v
              /\ ~(e.file = R!NextFile /\ e.id \in ManagedIds) => n.on = e.on
        BY <1>3, <2>2, <4>0, SwitchFacts
      <4> QED BY <2>1, <3>0, <3>1, <4>1
    <3> QED BY <1>4, <3>1, <3>2 DEF SwitchInv, R!Ready
  <2> QED BY <2>3, <2>4
<1>7. CASE R!EnableFile
  <2>1. \A e \in dir : e.id \in ManagedIds =>
            IF e.id \in EnabledIds THEN e.on \/ e.file \in repoFiles ELSE ~e.on
    BY <1>2, <1>7 DEF R!EnableFile, SwitchInv
  <2>2. \A e \in dir : idIndex[e.id] = e.file
    BY <1>2, <1>7 DEF R!EnableFile, IndexInv
  <2>3. CASE repoFiles = {}
    <3>1. repoPhase' = "image" /\ dir' = dir
      BY <1>7, <2>3 DEF R!EnableFile
    <3>2. \A e \in dir : e.id \in ManagedIds => e.on = (e.id \in EnabledIds)
      BY <1>3, <2>1, <2>3 DEF Generated
    <3> QED BY <1>4, <3>1, <3>2 DEF SwitchInv, R!Ready
  <2>4. CASE repoFiles # {}
    <3>0. PICK v \in BOOLEAN : v = TRUE /\ R!Switch(R!NextFile, EnabledIds, v)
      BY <1>7, <2>4 DEF R!EnableFile, EnabledIds
    <3>1. repoFiles' = repoFiles \ {R!NextFile} /\ repoPhase' = "enable"
      BY <1>7, <2>4 DEF R!EnableFile, EnabledIds
    <3>2. \A n \in dir' : n.id \in ManagedIds =>
            IF n.id \in EnabledIds THEN n.on \/ n.file \in repoFiles' ELSE ~n.on
      <4> SUFFICES ASSUME NEW n \in dir', n.id \in ManagedIds
                   PROVE  IF n.id \in EnabledIds THEN n.on \/ n.file \in repoFiles' ELSE ~n.on
        OBVIOUS
      <4>0. R!Switch(R!NextFile, EnabledIds, v)
        BY <3>0
      <4>1. PICK e \in dir :
              /\ n.id = e.id /\ n.file = e.file
              /\ e.file = R!NextFile /\ e.id \in EnabledIds => n.on = v
              /\ ~(e.file = R!NextFile /\ e.id \in EnabledIds) => n.on = e.on
        BY <1>3, <2>2, <4>0, SwitchFacts
      <4> QED BY <2>1, <3>0, <3>1, <4>1
    <3> QED BY <1>4, <3>1, <3>2 DEF SwitchInv, R!Ready
  <2> QED BY <2>3, <2>4
<1>8. CASE R!ImageRepos
  <2>1. repoPhase = "image" /\ repoPhase' = "done" /\ dir' = dir
    BY <1>8 DEF R!ImageRepos
  <2> QED BY <1>2, <1>4, <2>1 DEF SwitchInv
<1> QED BY <1>1, <1>5, <1>6, <1>7, <1>8
\* Where the repositories of a cluster of one family come from.
LEMMA OneFamily ==
    ASSUME repoReq \in RepositoryRequests, R!Uniform, HeadFamily = "RPM"
    PROVE  /\ repoReq.compute \in {"rocky", "rhel"}
           /\ R!BootstrapOS(repoReq) = repoReq.compute
           /\ R!Families[repoReq.compute] = "RPM"
BY RequestAssumption DEF R!Uniform, HeadFamily, R!Families, R!BootstrapOS

LEMMA ImageNext ==
    RepoType /\ DirInv /\ SelectedInv /\ SavedInv /\ SwitchInv /\ R!RNext => R!ImageIsComplete'
<1> SUFFICES ASSUME RepoType, DirInv, SelectedInv, SavedInv, SwitchInv, R!RNext,
                    R!Ready', R!Uniform', torn' = "no", vault' # "yes"
             PROVE  /\ R!Mandatory(repoReq)' \subseteq R!Ids(image)'
                    /\ \A x \in image' :
                          \/ x.id \in EnabledIds' /\ (x.url = "mirror" => repoReq'.mirrors)
                          \/ x.id \in selected' /\ x.id \in R!OtherReleases(repoReq)'
  BY DEF EnabledIds, R!ImageIsComplete
<1>1. R!ImageRepos
  BY AnsweredBy DEF Answered, R!Ready, R!DisableFile, R!EnableFile
<1>2. repoPhase = "image" /\ UNCHANGED <<repoReq, dir, distroConf, vault, torn, made, selected>>
  BY <1>1 DEF R!ImageRepos
<1>3. R!Uniform /\ HeadFamily = "RPM" /\ made
  BY <1>2, SameRequest DEF RepoType, Writing
<1> DEFINE os == repoReq.compute
<1>4. os \in {"rocky", "rhel"} /\ R!BootstrapOS(repoReq) = os /\ R!Families[os] = "RPM"
  BY <1>3, OneFamily DEF RepoType
<1>5. \A e \in dir : Generated(e)
  BY <1>2, <1>3 DEF DirInv, Moving
<1>6. ConfEntries = R!Loaded(os, repoReq.release) /\ \A c \in ConfEntries : Saved(c)
  BY <1>2, <1>3 DEF SavedInv, Answered, ConfEntries
<1>7. \A e \in dir : e.id \in ManagedIds => e.on = (e.id \in EnabledIds)
  BY <1>2 DEF SwitchInv
<1> DEFINE three == {R!DistroFile, "epel.repo", "OpenHPC.repo"}
           on == {e \in UNION {R!RepoFile(f) : f \in three} : e.on}
<1>8. PICK answering : image' = {[id |-> e.id, url |-> R!ResolveUrl(e, answering)] : e \in on}
  BY <1>1, <1>4 DEF R!ImageRepos
<1>9. \A e : e \in on <=> e \in dir /\ e.file \in three /\ e.on
  BY DEF R!RepoFile
<1> HIDE DEF on
<1>10. R!DistroFile = IF os = "rhel" THEN "rhel.repo" ELSE "rocky.repo"
  BY <1>2 DEF R!DistroFile
<1>11. ASSUME NEW c \in R!Loaded(os, repoReq.release), c.base
       PROVE  c.id \in R!Ids(image')
  <2>1. c \in Catalogue /\ c.conf \in {"common", os}
    BY DEF R!Loaded, R!Parsed
  <2>2. c.file \in three
    BY <1>4, <1>10, <1>11, <2>1, CatalogueAssumption
  <2>3. c.id \in ManagedIds /\ c.id \in EnabledIds
    BY <1>4, <1>11 DEF ManagedIds, EnabledIds, R!Managed, R!Enabled, R!Mandatory
  <2>4. PICK e \in dir : e.id = c.id
    BY <1>6 DEF Saved
  <2>5. e.file = c.file
    BY <1>5, <2>1, <2>4, OneFile
  <2>6. e.on
    BY <1>7, <2>3, <2>4
  <2>7. e \in on
    BY <1>9, <2>2, <2>4, <2>5, <2>6
  <2> DEFINE x == [id |-> e.id, url |-> R!ResolveUrl(e, answering)]
  <2>8. x \in image'
    BY <1>8, <2>7
  <2>9. x.id = c.id
    BY <2>4
  <2> QED BY <2>8, <2>9 DEF R!Ids
<1>12. ASSUME NEW x \in image'
       PROVE  \/ x.id \in EnabledIds /\ (x.url = "mirror" => repoReq.mirrors)
              \/ x.id \in selected /\ x.id \in R!OtherReleases(repoReq)
  <2>1. PICK e \in on : x = [id |-> e.id, url |-> R!ResolveUrl(e, answering)]
    BY <1>8
  <2>2. e \in dir /\ e.file \in three /\ e.on /\ x.id = e.id /\ (x.url = "mirror" => e.url = "mirror")
    BY <1>9, <2>1 DEF R!ResolveUrl
  <2>3. PICK c \in Catalogue : e.file = c.file /\ e.id = c.id
    BY <1>5, <2>2 DEF Generated
  <2>4. c.conf \in {"common", os}
    BY <1>4, <1>10, <2>2, <2>3, CatalogueAssumption
  <2>5. CASE e.id \in ManagedIds
    <3>1. PICK b \in ConfEntries : b.id = e.id
      BY <1>4, <1>6, <2>5 DEF ManagedIds, R!Managed
    <3>2. e.id \in EnabledIds /\ ThisRuns(e.url)
      BY <1>6, <1>7, <2>2, <2>5, <3>1 DEF Saved
    <3> QED BY <2>2, <3>2 DEF ThisRuns
  <2>6. CASE e.id \notin ManagedIds
    <3>1. repoReq.release \notin c.releases
      BY <1>4, <2>3, <2>4, <2>6 DEF ManagedIds, R!Managed, R!Loaded, R!Parsed
    <3>2. e.id \in R!OtherReleases(repoReq)
      BY <2>3, <2>4, <2>6, <3>1 DEF R!OtherReleases, R!Ids, ManagedIds
    <3>3. e.id \in selected
      BY <1>2, <1>3, <2>2 DEF SelectedInv, Moving
    <3> QED BY <2>2, <3>2, <3>3
  <2> QED BY <2>5, <2>6
<1>13. /\ R!Mandatory(repoReq)' = R!Mandatory(repoReq)
       /\ R!OtherReleases(repoReq)' = R!OtherReleases(repoReq) /\ EnabledIds' = EnabledIds
  BY <1>2, SameRequest DEF R!Mandatory, R!Loaded, R!Parsed, R!BootstrapOS, R!Families,
         R!OtherReleases, R!Ids, R!Managed
<1>14. R!Mandatory(repoReq) \subseteq R!Ids(image')
  BY <1>4, <1>11 DEF R!Mandatory
<1>15. R!Ids(image)' = R!Ids(image')
  BY DEF R!Ids
<1> QED BY <1>2, <1>12, <1>13, <1>14, <1>15

LEMMA ReposNext == ReposInv /\ R!RNext => ReposInv'
BY TypeNext, KeptNext, RemovedNext, DirNext, SelectedNext, SavedNext, IndexNext, SwitchNext,
   ImageNext
   DEF ReposInv
LEMMA ReposStutter == ReposInv /\ UNCHANGED repoVars => ReposInv'
<1> SUFFICES ASSUME ReposInv, UNCHANGED repoVars
             PROVE  ReposInv'
  OBVIOUS
<1> USE DEF repoVars, ReposInv
<1>1. repoReq' = repoReq
  OBVIOUS
<1>2. ConfEntries' = ConfEntries
  BY DEF ConfEntries, R!Loaded, R!Parsed
<1>3. R!Ready' = R!Ready
  BY <1>1, SameRequest DEF R!Ready
<1>4. Answered' = Answered
  BY <1>3 DEF Answered
<1>5. RepoType' /\ KeptInv'
  BY <1>1, SameRequest DEF RepoType, KeptInv, Copying
<1>6. RemovedInv' /\ DirInv' /\ IndexInv' /\ SelectedInv'
  BY <1>1, <1>3, SameRequest DEF RemovedInv, DirInv, IndexInv, SelectedInv
<1>7. SavedInv'
  BY <1>1, <1>2, <1>4, SameRequest DEF SavedInv, Saved, ThisRuns
<1>8. SwitchInv'
  BY <1>1, <1>3, SameRequest DEF SwitchInv
<1>9. R!ImageIsComplete'
  <2>1. /\ R!Mandatory(repoReq)' = R!Mandatory(repoReq)
        /\ R!OtherReleases(repoReq)' = R!OtherReleases(repoReq)
        /\ R!Enabled(repoReq)' = R!Enabled(repoReq)
    BY SameRequest DEF R!Mandatory, R!Loaded, R!Parsed, R!BootstrapOS, R!Families,
       R!OtherReleases, R!Ids, R!Managed, EnabledIds
  <2>2. R!Ids(image)' = R!Ids(image)
    BY DEF R!Ids
  <2> QED BY <1>1, <1>3, <2>1, <2>2, SameRequest DEF R!ImageIsComplete
<1> QED BY <1>5, <1>6, <1>7, <1>8, <1>9

LEMMA ReposInvariance == Spec => [](which = "repos" => ReposInv)
<1>1. Init => (which = "repos" => ReposInv)
  BY ReposInitially DEF Init
<1>2. (which = "repos" => ReposInv) /\ [Next]_vars => (which = "repos" => ReposInv)'
  BY OnePart, ReposNext, ReposStutter
<1> QED BY <1>1, <1>2, PTL DEF Spec

-----------------------------------------------------------------------------
\* Every .repo file of the operating system is in its place or in the backup,
\* however often the role ran and wherever it was killed, also while it copied or
\* removed the files, because moveFilesWithExtension copies all before it removes
\* one.  The loss comes later: from a run that takes a half-copied backup for a
\* finished one, or with a finished backup that the operator discards.
THEOREM NoFileIsLost == Spec => []OriginalsKept
<1>1. ReposInv => R!OriginalsKept
  BY DEF ReposInv, KeptInv, Copying, Copied, R!OriginalsKept
<1>2. (which = "repos" => ReposInv) => OriginalsKept
  BY <1>1 DEF OriginalsKept
<1> QED BY <1>2, ReposInvariance, PTL

\* Of the repositories of this configuration the role leaves on exactly those of
\* the answerfile; of other distributions and releases none that no earlier run
\* switched on; each in one file and none with a metalink.
THEOREM SelectionIsEnabled == Spec => []EnabledAsSelected
<1>1. ASSUME ReposInv, R!Ready, R!Uniform, torn = "no"
      PROVE  LET on == {e \in dir : e.on} IN
             /\ R!Enabled(repoReq) \subseteq R!Ids(on)
             /\ R!Ids(on) \subseteq R!Enabled(repoReq) \cup (selected \ R!Managed(repoReq))
             /\ \A d, e \in on : d.id = e.id => d = e
             /\ \A e \in on : ~e.meta
  <2> DEFINE on == {e \in dir : e.on}
  <2>1. made /\ repoPhase = "done" /\ HeadFamily = "RPM"
    BY <1>1 DEF ReposInv, SavedInv, RepoType, Answered, R!Ready
  <2>2. (\A e \in dir : Generated(e)) /\ \A d, e \in dir : d.id = e.id => d = e
    BY <1>1, <2>1 DEF ReposInv, DirInv, Moving
  <2>3. \A e \in dir : e.id \in ManagedIds => e.on = (e.id \in EnabledIds)
    BY <1>1 DEF ReposInv, SwitchInv
  <2>4. ManagedIds = {c.id : c \in ConfEntries} /\ \A c \in ConfEntries : Saved(c)
    <3>1. R!BootstrapOS(repoReq) = repoReq.compute
      BY <1>1, <2>1, OneFamily DEF ReposInv, RepoType
    <3>2. distroConf = repoReq.compute /\ \A c \in ConfEntries : Saved(c)
      BY <1>1 DEF ReposInv, SavedInv, Answered
    <3> QED BY <3>1, <3>2 DEF ManagedIds, R!Managed, ConfEntries
  <2>5. \A i \in ManagedIds : \E e \in dir : e.id = i
    BY <2>4 DEF Saved
  <2>6. EnabledIds \subseteq R!Ids(on)
    BY <2>3, <2>5, EnabledManaged DEF R!Ids
  <2>8. \A e \in dir : e.on => e.id \in selected
    BY <1>1, <2>1 DEF ReposInv, SelectedInv, Moving
  <2>9. R!Ids(on) \subseteq EnabledIds \cup (selected \ ManagedIds)
    BY <2>3, <2>8 DEF R!Ids
  <2>7. \A e \in on : ~e.meta
    BY <2>2 DEF Generated
  <2> QED BY <2>2, <2>6, <2>7, <2>9 DEF ManagedIds, EnabledIds
<1>2. ReposInv => R!EnabledAsSelected
  BY <1>1 DEF R!EnabledAsSelected
<1>3. (which = "repos" => ReposInv) => EnabledAsSelected
  BY <1>2 DEF EnabledAsSelected
<1> QED BY <1>3, ReposInvariance, PTL

\* getxCATOSImageRepos finds every mandatory repository of the distribution,
\* EPEL and OpenHPC in the files of the head node.  The image has a mirror only
\* when this run uses mirrors, and no other repository, but for what an earlier
\* run switched on for another release of the distribution.
THEOREM ImageHasItsRepositories == Spec => []ImageIsComplete
<1>1. (which = "repos" => ReposInv) => ImageIsComplete
  BY DEF ReposInv, ImageIsComplete
<1> QED BY <1>1, ReposInvariance, PTL
=============================================================================
