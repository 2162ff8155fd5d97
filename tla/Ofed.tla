--------------------------------- MODULE Ofed ---------------------------------
(***************************************************************************)
(* OFED::install on an Enterprise Linux head node and, for the image of    *)
(* the nodes, the local repository of the DOCA drivers that xCAT serves.   *)
(* DOCA drivers are built for one kernel.  The tool leaves a               *)
(* doca-kernel-repo package under /tmp/DOCA*, which stays there; the       *)
(* newest one is installed.  A run may fail or be killed anywhere and is   *)
(* started again, with the same answerfile or another one.                 *)
(***************************************************************************)
EXTENDS Naturals, Sequences

CONSTANTS
    Orders,     \* [kind, stream, kernel ("": none), rocky and nodes (the
                \* head node and the nodes run Rocky), skip, force]
    Running,    \* the running kernel
    MaxRuns     \* bound: how often the installer is started

VARIABLES
    order, runs,
    stage,      \* next step, "idle", "done", "stopped", "crashed"
    enabled,    \* repositories switched on for this
    headers,    \* kernels whose development packages are installed
    built,      \* generated kernel packages under /tmp, oldest first
    compiled,   \* this run has compiled one
    drivers,    \* kernel of the installed doca-kernel-repo ("none")
    installed,  \* doca-ofed is installed
    inbox,      \* the inbox stack is installed
    conf,       \* kernels whose local repository has a configuration file
    serving,    \* kernels whose file the running httpd has read
    content,    \* kernels whose local repository has their modules
    pinned,     \* kernels whose packages are in /install/kernels
    halfway     \* kernels for which createHTTPRepo did not get to the restart

ovars == <<order, runs, stage, enabled, headers, built, compiled, drivers,
           installed, inbox, conf, serving, content, pinned, halfway>>

Final == {"idle", "done", "stopped", "crashed"}

OInit ==
    /\ order \in Orders
    /\ runs = 0 /\ stage = "idle"
    /\ enabled = {} /\ headers = {}
    /\ built = <<>> /\ compiled = FALSE
    /\ drivers = "none" /\ installed = FALSE /\ inbox = FALSE
    /\ conf = {} /\ serving = {} /\ content = {} /\ pinned = {} /\ halfway = {}

\* Streams: "latest", "lts-old" (an LTS before 3.2), "lts-new", "lts-odd" (an
\* LTS whose version cannot be parsed).
UsesDocaLegacyKernelSupport(stream) == stream \in {"lts-old", "lts-odd"}

\* selectDocaInstallMode
Legacy ==
    \/ order.kernel # "" /\ order.kernel # Running
    \/ UsesDocaLegacyKernelSupport(order.stream)

\* requestedKernel.value_or(runningKernel)
Kernel == IF order.kernel # "" THEN order.kernel ELSE Running

\* buildXcatInfinibandPlan, selectXcatImageKernelVersion: the kernel of the node
\* image, "" for the one its packages bring.
NodeKernel(o) ==
    IF o.kernel # "" THEN o.kernel ELSE IF o.kind = "doca" THEN Running ELSE ""
AfterInbox(o) == IF NodeKernel(o) = "" THEN "done" ELSE "kernel"

\* buildInboxOFEDInstalledCommand: "dnf group info" also answers for a group that
\* is known and not installed.
InboxAnswers == IF inbox THEN {TRUE} ELSE BOOLEAN

\* OFED::installed; an Oracle stack is not implemented and throws.
Begin(o) ==
    /\ stage \in Final
    /\ runs < MaxRuns
    /\ runs' = runs + 1
    /\ order' = o
    /\ compiled' = FALSE
    /\ stage' \in CASE o.kind = "oracle" -> {"stopped"}
                    [] o.kind = "inbox" -> {IF there /\ ~o.force THEN AfterInbox(o) ELSE "group" :
                                             there \in InboxAnswers}
                    [] OTHER -> {IF installed /\ ~o.force THEN "serve" ELSE "repos"}
    /\ UNCHANGED <<enabled, headers, built, drivers, installed, inbox, conf,
                   serving, content, pinned, halfway>>

GroupInstall ==
    /\ stage = "group"
    /\ inbox' = TRUE
    /\ stage' = AfterInbox(order)
    /\ UNCHANGED <<order, runs, enabled, headers, built, compiled, drivers,
                   installed, conf, serving, content, pinned, halfway>>

\* The DKMS path takes its tools from EPEL.
EnableRepos ==
    /\ stage = "repos"
    /\ enabled' = enabled \cup (IF Legacy THEN {"doca"} ELSE {"doca", "epel"})
    /\ stage' = "prereqs"
    /\ UNCHANGED <<order, runs, headers, built, compiled, drivers, installed,
                   inbox, conf, serving, content, pinned, halfway>>

\* buildDocaLegacyPrereqCommand, buildDocaDkmsPrereqCommand: the DKMS path is for
\* the running kernel.
PrereqKernel == IF Legacy THEN Kernel ELSE Running

\* buildRockyLegacyPrereqFallbackCommand, buildRockyDkmsPrereqFallbackCommand:
\* Rocky has URLs of single packages, to try when the repositories have none.
RockyPackages(found) == order.rocky /\ found

\* installDocaPrereqsWithFallback
Prereqs(primary, fallback) ==
    /\ stage = "prereqs"
    /\ IF primary \/ RockyPackages(fallback)
       THEN headers' = headers \cup {PrereqKernel} /\ stage' = "compile"
       ELSE stage' = "stopped" /\ UNCHANGED headers
    /\ UNCHANGED <<order, runs, enabled, built, compiled, drivers, installed,
                   inbox, conf, serving, content, pinned, halfway>>

\* doca-kernel-support -k <kernel>, without -k for the running kernel: its package
\* is newer than those that earlier calls left.
KernelSupport ==
    /\ stage = "compile" /\ ~order.skip
    /\ PrereqKernel \in headers
    /\ built' = Append(built, PrereqKernel)
    /\ compiled' = TRUE
    /\ stage' = "drivers"
    /\ UNCHANGED <<order, runs, enabled, headers, drivers, installed, inbox,
                   conf, serving, content, pinned, halfway>>

\* --skip compile-doca-driver: the legacy path still installs the newest
\* package it finds, the DKMS path installs none.
SkipCompile ==
    /\ stage = "compile" /\ order.skip
    /\ stage' = IF Legacy THEN "drivers" ELSE "host"
    /\ UNCHANGED <<order, runs, enabled, headers, built, compiled, drivers,
                   installed, inbox, conf, serving, content, pinned, halfway>>

\* Mutant of NewestPackage: sorted the wrong way.
OldestPackage == built[1]

\* findLatestGeneratedDocaKernelRepoRpm, over all kernels
NewestPackage == built[Len(built)]

InstallDrivers ==
    /\ stage = "drivers"
    /\ IF built = <<>> THEN stage' = "stopped" /\ UNCHANGED drivers
       ELSE drivers' = NewestPackage /\ stage' = "host"
    /\ UNCHANGED <<order, runs, enabled, headers, built, compiled, installed,
                   inbox, conf, serving, content, pinned, halfway>>

\* doca-ofed, and primeDocaDkmsForInstalledKernel, which only warns.
InstallHost ==
    /\ stage = "host"
    /\ installed' = TRUE
    /\ stage' = "serve"
    /\ UNCHANGED <<order, runs, enabled, headers, built, compiled, drivers,
                   inbox, conf, serving, content, pinned, halfway>>

\* createHTTPRepo("doca-kernel-<kernel>"): nothing is done where the
\* configuration file exists.
WriteHttpConf ==
    /\ stage = "serve"
    /\ conf' = conf \cup {Kernel}
    /\ stage' = IF Kernel \in conf THEN "fill" ELSE "restart"
    /\ UNCHANGED <<order, runs, enabled, headers, built, compiled, drivers,
                   installed, inbox, serving, content, pinned, halfway>>

\* Mutant of RestartHttpd: only the configuration is tested.
ConfigTestOnly ==
    /\ stage = "restart"
    /\ stage' = "fill"
    /\ UNCHANGED <<order, runs, enabled, headers, built, compiled, drivers,
                   installed, inbox, conf, serving, content, pinned, halfway>>

\* apachectl configtest and systemctl restart httpd
RestartHttpd ==
    /\ stage = "restart"
    /\ serving' = conf
    /\ stage' = "fill"
    /\ UNCHANGED <<order, runs, enabled, headers, built, compiled, drivers,
                   installed, inbox, conf, content, pinned, halfway>>

\* The modules of the kernel of the nodes are copied, if the installed package
\* has them, and createrepo is run.
FillRepo ==
    /\ stage = "fill"
    /\ IF drivers = Kernel THEN content' = content \cup {Kernel} /\ stage' = "kernel"
       ELSE stage' = "stopped" /\ UNCHANGED content
    /\ UNCHANGED <<order, runs, enabled, headers, built, compiled, drivers,
                   installed, inbox, conf, serving, pinned, halfway>>

\* buildRockyXcatKernelDownloadFallbackCommand: for Rocky nodes the packages that
\* are there are removed and fetched one by one when dnf cannot download them.
Downloaded(primary, fallback) ==
    IF primary \/ (order.nodes /\ fallback) THEN pinned \cup {NodeKernel(order)}
    ELSE IF order.nodes THEN pinned \ {NodeKernel(order)} ELSE pinned

\* XCAT::genimage, before the image is built
PinKernel(primary, fallback) ==
    /\ stage = "kernel"
    /\ pinned' = Downloaded(primary, fallback)
    /\ stage' = IF primary \/ (order.nodes /\ fallback) THEN "done" ELSE "stopped"
    /\ UNCHANGED <<order, runs, enabled, headers, built, compiled, drivers,
                   installed, inbox, conf, serving, content, halfway>>

\* A checked command fails, or the installer is killed; a killed build may
\* leave a package of an earlier one as the newest.
Interrupt ==
    /\ stage \notin Final
    /\ stage' \in {"stopped", "crashed"}
    /\ halfway' = IF stage = "restart" THEN halfway \cup {Kernel} ELSE halfway
    /\ pinned' \in {pinned} \cup (IF stage = "kernel" THEN {Downloaded(FALSE, FALSE)} ELSE {})
    /\ UNCHANGED <<order, runs, enabled, headers, built, compiled, drivers,
                   installed, inbox, conf, serving, content>>

ONext ==
    \/ \E o \in Orders : Begin(o)
    \/ \E primary, fallback \in BOOLEAN : Prereqs(primary, fallback) \/ PinKernel(primary, fallback)
    \/ GroupInstall \/ EnableRepos \/ KernelSupport \/ SkipCompile \/ InstallDrivers
    \/ InstallHost \/ WriteHttpConf \/ RestartHttpd \/ FillRepo \/ Interrupt

------------------------------------------------------------------------------

\* The drivers that a run compiles are the ones it installs, for the kernel the
\* answerfile names or the running one, though packages of other kernels from
\* earlier runs lie under /tmp/DOCA*, where the newest is taken.
DriversForKernel ==
    compiled /\ stage \in {"host", "serve", "restart", "fill", "kernel", "done"} => drivers = Kernel

\* When the image is built, its kernel is the one of the drivers: the local
\* repository has their modules and httpd serves it, and the packages of that
\* kernel, which the postinstall script takes, are on the head node.  Not served
\* is a repository whose configuration was written by a call that was stopped
\* before the restart: where the file exists, the rest is skipped.
ServedModules ==
    stage = "done" /\ order.kind = "doca" =>
        Kernel \in content \cap pinned /\ Kernel \in serving \cup halfway
==============================================================================
