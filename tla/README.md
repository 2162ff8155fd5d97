# OpenCATTUS: a TLA+ verification project

OpenCATTUS installs an HPC cluster from its head node.  A terminal
questionnaire or an answerfile describes the cluster; an engine then configures
the head node role by role and a provisioner (xCAT or Confluent) builds the image
that the compute nodes boot.  The program is single-threaded.  What makes it hard
is time: it is started again and again on the same machine, it is stopped, fails
and is killed half way, and what it finds on disk then was written by an earlier
run with other settings.  That is what the modules here are about.

All paths below are relative to the repository; sources are under `src/` and
headers under `include/opencattus/`.

## 1. Inventory

| Component | State it keeps | Operations | Hard part | Correct when |
|---|---|---|---|---|
| Application sessions (`src/main.cpp`) | options, the model, completed steps | launch, resume, save, abort, validate, write the output, confirm, install | crashes between the writes of a save, saves that fail, many command lines | no answer is skipped by a resume; nothing is installed that was not completed, accepted and written |
| Questionnaire loop (`src/presenter/PresenterInstall.cpp`) | step index, history | next, Back, Quit, ISO download | two copies of the history; a step left half way | both histories are the steps before the cursor |
| Draft answerfile (`src/services/tui_session.cpp`) | the draft file and the output file | `writeDraft`, `loadDraftState`, `applyDraftToModel` | two writes per save; every `apply` is best effort | a draft resumes where the operator stopped |
| Presenters (`src/presenter/`) | none of their own | assign to or append to the model | visited more than once | the latest answer is the one installed |
| Cluster model (`src/models/cluster.cpp`) | networks, nodes, image, OFED, bundles, queue, mail | setters, `dumpData`, `fillData` | conversions that are not inverse to each other; values read from live interfaces | a dumped cluster is read back as the same cluster |
| Answerfile (`src/models/answerfile.cpp`) | parsed sections | load, validate, dump | interdependent checks; node sections inherit from a generic one | an accepted inventory has no duplicate |
| Engine (`src/services/shell.cpp`, `src/services/ansible/roles.cpp`) | where it is | the roles in order, `--roles`, `--skip`, `--stop-after` | a role fails or is killed, the installer is run again | what a role needs is there; a finished run did what it claims; a rerun repairs |
| Roles (`src/services/ansible/roles/`) | the machine's configuration | commands and scripts | checked and unchecked commands mixed | as above |
| Network role, live interfaces (`roles/network.cpp`, `src/network.cpp`) | NetworkManager profiles, hosts file | delete, add, bring up | reads back what it rewrites | the networks are up with this run's addresses |
| SLURM role (`roles/slurm.cpp`) | MariaDB accounts, two configuration files, two daemons | three scripts | passwords of an earlier answerfile; daemons with an old configuration | database, files and daemons agree |
| Repositories (`src/services/repos.cpp`) | repository files, backup | back up, choose mirror or upstream, write, switch on and off | existing backups and files are taken as done; every request may fail | the enabled set is the requested one; no original is lost |
| OFED (`src/ofed.cpp`) | drivers, generated packages, local repository | inbox, DKMS and legacy DOCA paths | drivers fit one kernel; old packages stay | compiled, installed and served drivers are for the kernel of the nodes |
| xCAT set-up (`src/services/xcat.cpp`) | packages, patched files, credentials, daemon, site table | `patchInstall`, `setup` | unchecked commands, a daemon that may not come up | the site table is this run's; the wait ends |
| xCAT images (same file) | osimage definition, root image, queue marker, shared package list, postinstall script and synclist, packed image | `createImage` | a cache whose key is a marker file; failures anywhere | what nodes boot is what a rebuild would give |
| xCAT nodes (same file) | node table, hosts, DHCP, PBS, boot settings | `addNodes`, `setNodesImage`, `setNodesBoot`, `resetNodes` | an order that depends on the DHCP server; unchecked commands | a node is not reset before it can come back; PBS agrees with the hosts file |
| Confluent (`src/services/confluent.cpp`) | node database, hosts files, scratch and published image, PBS | `install` | a tool that drops the head node from the hosts file; leftovers in the scratch directory | the image is the run's own; every node is registered |
| Commands and scripts (`src/services/runner.cpp`, `src/functions.cpp`) | scripts in `/tmp`, installed files, backups | `run`, `installFile`, `backupFilesByExtension`, `createHTTPRepo` | "exists" is taken as "finished" | a rerun repairs an interrupted run |

The components interact by calls.  `runApplication` constructs `PresenterInstall`
with a callback that saves the draft after every step; the model it fills in is
dumped, read back through `AnswerFile` and handed to the engine as a process-wide
singleton; the provisioner role calls `XCAT::install` or `Confluent::install`.
Between runs they interact through files.  `PROJECT.json` lists every component,
with the ones that are not modelled and why, and the hazards at their lines.

## 2. Modules

| Module | Models |
|---|---|
| `TuiSession` | The sessions: `runApplication`, the questionnaire loop, `writeDraft` and the two files.  Generic in the steps, the answers and the conversions. |
| `DraftProgress` | What the sessions promise about the operator's place, with no files or phases. |
| `ClusterModel` | The model as the questionnaire uses it: what each presenter does to it, `dumpData`, `applyDraftToModel`, the `AnswerFile` constructor and `fillData`, as operators. |
| `Questionnaire` | Composes the two: the instance TLC checks, with the program's steps and answers. |
| `AnswerFile` | An answerfile section by section: read, turned into a cluster, dumped and read again. |
| `RoleRecipes` | The straight-line roles, as the lists of their commands. |
| `InstallEngine` | The engine that runs the roles, with failures, crashes and restarts; extends `RoleRecipes`. |
| `HeadNetwork` | The network role and what `fillData` reads from interfaces. |
| `Repositories` | The repos role and the repositories of the node image. |
| `Ofed` | The OFED role, the local driver repository and the kernel packages of the image. |
| `SlurmController` | The SLURM role with its database and daemons. |
| `XcatSetup` | The first half of `XCAT::install`. |
| `HeadNode` | Composes the six before: each part of the program that prepares the head node. |
| `XcatImage` | `XCAT::createImage` over any number of runs. |
| `FreshImages` | What image creation promises when there is no cache. |
| `XcatNodes` | The second half of `XCAT::install`. |
| `Confluent` | `Confluent::install`. |
| `NodeRegistry` | What a provisioner promises the PBS server about the nodes. |
| `MCXcatImage`, `MCXcatNodes`, `MCConfluent`, `MCInstallEngine`, `MCHeadNode` | Small instances for TLC. |
| `TuiSession_proofs`, `XcatImage_proofs`, `XcatNodes_proofs`, `Confluent_proofs`, `InstallEngine_proofs`, `Questionnaire_proofs` | Theorems about the module of that name, and their proofs. |
| `HeadNode_proofs`, `HeadAnswerfile_proofs` | Theorems about the parts of `HeadNode`: network, SLURM, OFED, xCAT set-up and repositories; the answerfile. |

### TuiSession

`phase` is the place in `runApplication`: `off` (no process), `ask` (the question
whether to continue a draft), `steps` (inside `PresenterInstall`), `saving` (inside
`writeDraft`), `generate` (after the download), `confirm`, `dump`, `install`.
`stepIndex` and `history` are the loop's, `completed` is the copy that the callback
keeps in `runApplication`.  `save` is the `writeDraft` call in progress: its path,
the list of steps, and why it was made, which decides what happens when it returns
(`AfterStepSave`, `AfterAbortSave`, `AfterCompleteSave`, `AfterOutputSave`).

A save is two actions because the code writes twice: `SaveDump` rewrites the whole
file without the `[tui]` group, and `SaveTag` loads it back and saves it with the
group.  Each can fail (`SaveCannotOpen`, `SaveCutShort`, `SaveTagFails`), and
`Crash` can come between them or tear the first write.  The second write is GLib's
`g_key_file_save_to_file`, which replaces the file atomically.

A file is `absent`, `torn`, a `body`, or `tagged`; its body is the model that was
dumped.  `told` is a ghost: the operator's own record of the latest answers.  It
is read by properties only.

### ClusterModel

An answer is reduced to what the code distinguishes.  Networks and connections are
lists that the code only appends to; of a profile's list the code reads the first
entry (`getNetwork`, `getConnection`), and `dumpData` combines the first connection
with the last network, so the first and the last are kept.  The last connection also
counts: the network role configures all of them in order, so an interface ends with
its address (`Addresses`).  Nodes are counted per name as zero, one, or more.  A
presenter that returns yields `CompleteAnswer`, one that is left by Back or Quit
`PartialAnswer`: for the nodes, queue, mail, InfiniBand and time screens that is not
nothing.

### XcatImage

`pc` walks through `createImage`; every step that writes has a `StopIn...` action
for a failure or a crash inside it, which leaves what it was writing old, new or
torn.  Osimage definitions, root images, markers and packed images are per
image; the package list, the postinstall script (`staged`) and the synclist are
shared files, as in the code.  `named` has which of the three the definition of an
image names: `configureOSImageDefinition` adds them with three `chdef` commands that
nobody checks, and `NameFiles` loses any of them (`Losses` says which may be lost).
`genimage` and `packimage` only use a file that the definition names.  xCAT's own
commands appear through what the code relies on.

### AnswerFile

`stage` is the next part of `loadOptions`; every part is read or refuses the file,
which ends the program.  A key that the file leaves out is `None`, and what the
code puts in its place is modelled: `Resolved` inherits from the generic node, the
name of a node is made of the prefix and the number of its section, `Filled` takes
addresses, masks and domains from the interface where `fillData` does.  Addresses,
masks and gateways are reduced to the classes the checks tell apart.  `Dump` writes
the file that `--dump-answerfile` writes (sections numbered anew, MAC addresses in
lower case, root passwords of single nodes left out), and `round = 2` reads it.

### RoleRecipes and InstallEngine

A command has what it `needs` on the head node, what it `gives`, what a crash
`leaves` of it, and whether the code looks at its result: `Must` is a command of
`shell::cmd` or `checkCommand`, `Try` one of `executeCommand` or `IOSService`, `Line`
one of a script that `Runner::run` hands to bash.  `InstallOrder` is the order of
`Shell::install`.  `InstallEngine` walks through the roles of a plan: `LoadRole`
writes a script file unless one exists, `Succeed` and `Fail` are the outcomes of a
command, `EndRole` looks at the exit status of a script, `Kill` comes anywhere,
also between the creation of a script file and its first byte.

### HeadNetwork, Repositories, Ofed, SlurmController, XcatSetup

Each follows one part of the program command by command, because each leaves
something behind that the next run reads: NetworkManager profiles under the names
the role uses, `.repo` files and a backup directory, generated kernel packages and
an httpd configuration, passwords in MariaDB, edited xCAT files, network definitions
in xCAT's tables.  A killed run
stops between any two of their actions.  External programs (NetworkManager,
MariaDB, httpd, HTTP servers, xcatd) appear through what the code relies on, and
requests and commands that may fail do so nondeterministically.

In `HeadNetwork` the answerfile also says which interface each network is on (`on`);
two networks may share one.  Deleting by name takes every profile of that name
(`Delete`), and a deletion of the role's own profile that fails is passed over
(`|| :`), which `stuck` remembers.  In `XcatSetup` the networks table is a set of
definitions named after network address and mask; `chdef` replaces the one of its
name and leaves the others.

In `Repositories` a file entry is `[file, id, url, meta, key, check, on]`;
`Assemble` makes all requests before the first file is written, `Merge` is
`RPMRepositoryParser::unparse`, which keeps keys of the old file that the new
repository does not set, `LoadBaseDir` reads the directory back, and `ImageRepos` is
`getxCATOSImageRepos`.  An id belongs to certain releases, since the ids of
`rhel.conf` and `oracle.conf` have `{releasever}` in them.  `torn` says how a backup was
cut short (`copy`, `remove`) and that a later run took a half-copied one as finished
(`taken`); `selected` is a history variable, the ids that a run has switched on.  In
`Ofed` the stages of `OFED::install` are followed by the
driver repository of `configureInfiniband` (`WriteHttpConf`, `RestartHttpd`,
`FillRepo`) and by the kernel packages that `genimage` downloads (`PinKernel`).

`HeadNode` composes the parts.  They run one after the other and write disjoint parts
of the head node's state, so a behaviour follows one of them (`which`) and the other
variables stay idle: the interleavings that do not exist in the program are not
generated.

### XcatNodes, Confluent and NodeRegistry

`XcatNodes` has one action per command of `addNodes` in the order that ISC dhcpd or
Kea asks for, with the unchecked commands failing unnoticed (`Lossy`) and BMCs that
do not answer (`answering`).  xCAT's IPMI command may fail having reached any of the
nodes (`XcatCommand`); the direct script then goes over the BMCs one by one
(`DirectCommand`), each line ending in `|| rc=$?`.  `lost` has the nodes whose `mkdef`
failed in this run.  `Confluent` follows its image script in the scratch
directory, which the script builds over when it could not be removed (`stuck`), and
the node definitions, hosts file and registration after it.
`NodeRegistry` is the promise to PBS: a run that completes has every node of its
cluster registered under the address of that run, and no node is taken away.
`Confluent` implements it (`ImplementsRegistry`); `XcatNodes` does not in general,
since an unchecked `mkdef` or `makehosts` may fail, and has `PbsFollowsHosts`.

## 3. Runs

| Run | Instance | Shows |
|---|---|---|
| `questionnaire` | four steps, two starts, every command line | the invariants of the sessions, what counts as done is in the model up to the installation (`CompletedAnswersHold`), `StopKeepsProgress`, refinement of `DraftProgress` |
| `ends` | one start, networks that may fail | `QuestionnaireEnds`, under fairness: once the ISO is there, or none is needed, the process reaches the engine or ends |
| `image_cache` | an EL and an Ubuntu image, queue systems, head nodes, passwords, switches, lost `chdef` commands | marker, rebuild and transparency, no leak through the shared files |
| `confluent` | two nodes, two addresses, two head nodes, two kernels, a scratch directory that may stay | `ImageIsThisRuns`, `DocaKernelMatches`, `RegistrationResolves`, refinement of `NodeRegistry` |
| `xcat_nodes` | two nodes, two addresses, both DHCP servers | `BootsIntoImage`, `KeyBeforeKea`, `AnsweringNodesBoot`, `PbsFollowsHosts` |
| `install` | all roles or a part, two starts | `NeedsInPlace`, `DoneMeansChecked`, `LastLineSucceeded`, `RerunRepairs` |
| `head_node` | each part of `HeadNode`, two starts | see below |

`head_node` checks, for the network, that the profiles and the masks survive reruns
(`NetworksUp`, `MaskStable`); for SLURM, that database, files and daemons agree and
that no interruption locks the next run out (`AccountingAgrees`,
`ControllerHasNodes`, `NotLockedOut`); for the repositories, that the selected ones
are on and of the others only what an earlier run switched on and this run's
configuration does not have, that no original file is lost to a kill and that the
image is installed from all it needs and, of what this run writes, from no mirror
that it does not use (`EnabledAsSelected`, `OriginalsKept`, `ImageIsComplete`); for
OFED, that drivers, modules and kernel fit (`DriversForKernel`, `ServedModules`);
for the answerfile, that no duplicate gets in and a dump returns
(`InventoryIsUnique`, `DumpedClusterReturns`); for xCAT's set-up, that it talks to a
daemon that is there, leaves a site table of one run with one definition of its
network, and ends (`SetupOfRunningDaemon`, `SiteIsThisRuns`, `SetupEnds`).

Five runs show a statement of the program about itself that its code does not keep:

- `revisit`: after Back and a changed network address the interface has the new
  address (the network role goes over all connections), the hosts file, xCAT and
  SLURM have that of the first visit (`getConnection` returns the first).
- `resume_nodes`: leaving or revisiting the nodes step leaves duplicate nodes, and
  the finished questionnaire is rejected at the end with an uncaught exception.
- `unattended_draft`: a draft interrupted between the two writes of a save is
  accepted by an unattended installation.
- `slurm_fingerprint`: a reused SLURM image keeps an old management address (slurmd
  and chrony) and an old head node name (automount maps).
- `script_errors`: a failing line of a role's script does not end the script,
  since the options in its first line are not set, and the installation finishes
  as successful.

### Exceptions that the properties state

Some properties hold only outside a case that the code leaves open; the case is
part of the formula, so that the rest stays checked:

- `RerunRepairs`: a script file that was created and not written is taken as
  finished by `installFile` and bash then runs an empty file; an interrupted clone of
  spack has its `.git` and is not cloned again.
- `MarkerSound`, `PackedClean`, `CacheIsTransparent`: an image whose `chdef` was lost
  lacks the packages, the script or the synced files; the marker does not tell, and
  the image is reused as it is.
- `BootsIntoImage`: a node whose own `mkdef` was lost is reset by the direct IPMI
  script although it has no image.
- `ImageIsThisRuns`, `DocaKernelMatches`: what a scratch directory that could not be
  removed held is packed with the rest, other drivers too (`stuck`).
- `NetworksUp`: where two networks share an interface the script of the later one
  deletes the profile of the earlier (`Displaced`), so that the management network of
  a head node whose service network is on the same interface is not up; an old
  profile whose deletion failed unnoticed is still there (`stuck`).  `MaskStable` is
  about a service network with an interface of its own (`OwnWire`).
- `SiteIsThisRuns`: definitions of other subnets, and of the same network address with
  another mask, stay in xCAT's networks table, each with the range of its own subnet.
- `InventoryIsUnique`: a MAC address spelt with colons and the same one with hyphens or
  dots are accepted as two (`validateMAC` takes all three, the duplicate check compares
  text in lower case).
- `OriginalsKept`: a backup directory that a kill left half-copied is taken for a
  finished one by the next run, which then writes over files that were not copied
  (`torn = "taken"`); `--force` discards a finished backup on request (`dropped`); a
  file `X.REPO` is removed without having been copied, since copying looks at the
  extension as it stands and removal ignores case (`Miscased`).
- `EnabledAsSelected`, `ImageIsComplete`: after a kill while the files were moved, those
  still in place stay, with their switches (`torn`).  Repositories of another
  distribution or of another release in the same file, which an earlier run switched
  on, are not switched off, and those of another release of the nodes' distribution
  reach the image with the location that run found, be it a mirror.
- `EnabledAsSelected`, `ImageIsComplete`: a head node and nodes of different package
  families reach an unreachable branch of `RepoConfigParser::load`.
- `ImageIsComplete`: `getxCATOSImageRepos` looks for `rocky-vault.repo`, a file that no
  configuration writes.
- `ServedModules`: `createHTTPRepo` stopped before the restart of httpd is not
  taken up again (`halfway`).
- `DumpedClusterReturns`: what `Unreadable` lists (below).

### Bounds

- `MaxRuns = 2` bounds the starts of the questionnaire, of the engine and of each
  part of `HeadNode`.  Nothing but the state on disk survives a process, and two
  starts give every pair of something left behind and a run that finds it.
  `XcatImage`, `XcatNodes` and `Confluent` have no such bound: their state is finite
  over any number of runs.
- The step lists of the questionnaire are shortened.  The loop, the saves and the
  resume treat all steps alike (the proofs cover any list), so a run keeps the steps
  whose answers its question is about: `nodes` and `networking` append, `os` plans a
  download, `queue` and `hostname` assign and can be left half way.  `MaxNodes` is two
  where duplicates of a part of the nodes matter, else one.
- `MaxAttempts = 3` stands for the 30 looks at the site table and `Tries = 2` for the
  20 looks at a daemon: first, last and, for the former, one between.  `HostBits`
  has a subnet that is too small, one smaller than the pool and one larger; there are
  two network addresses, one of them with two masks.
- `image_cache` has five requests: both queue systems, a skipped `copycds` under another
  password, a forced rebuild under another head node name, and the other image.  Of
  one image all three `chdef` commands may be lost together (`SomeLost`); the proofs
  cover any sets of them.  `confluent` has four requests, one of which is refused.
- Two names, addresses, kernels, passwords and head nodes each: an old and a new one.
- `Catalogue` has one repository of each kind the code tells apart (with and without
  mirror, mirror key, key; basic and optional; one that brings another along) and two
  ids of one distribution that belong to one release each.  `Shipped` has a file of a
  generated name, one of another name and one whose extension is in capitals.
- The answerfiles are a complete one and those that differ from it in one network
  section, in two node sections, or in one service; sections are read independently
  of each other, and node sections are compared pairwise.
- `install` has crashes with every configuration and no other fault, or faults
  without crashes for one configuration per operating system.
- Deadlock is not checked where starts are bounded: after the last one the system
  stops.

### Fairness

`QuestionnaireEnds` assumes weak fairness of `WriteDraft` and `GoesOn`: writing a
file and the code between the download and the installation are straight-line code
of the process and wait for no one.  The download is not among them:  `wget` runs
without a timeout and its failure is a dialog that waits for the operator, so a
session that awaits it (`AwaitsDownload`) promises nothing.  `SetupEnds` assumes
weak fairness of the set-up's own steps, each of which returns or throws.  No
fairness is assumed of the operator, of launches or crashes, and none of xcatd: that
the wait ends although the daemon never comes up is what `SetupEnds` is about.

## 4. Proofs

A theorem holds for every value of the constants: any number of nodes, files, runs,
command lines or settings, with the named assumptions only.  Each proof has the same
shape.  An inductive invariant says what is in place before each step of the program
counter; TLC checks it on the instance of the run before it is proved; one lemma per
action (or group of actions that leave the same things alone) shows that it is kept;
the property follows from it.

| Assumption | Says |
|---|---|
| `StepsAssumption`, `LaunchesAssumption`, `InteractiveAssumption`, `MaxRunsAssumption` | The steps are a non-empty list of different names; a command line without `--answerfile` runs the questionnaire; the bound is a number. |
| `MaxNodesAssumption`, `CreatedAssumption` | The operator enters some number of nodes; networks have the profiles of `network.h`. |
| `UbuntuAssumption`, `RequestsAssumption` (three modules) | The Ubuntu images are images; the requests are settings (a BMC belongs to a node of the cluster) and there is one. |
| `LossesAssumption` | For each image, the sets of `chdef` commands that may be lost are sets of the three. |
| `NodesAssumption`, `LossyAssumption` | `Unset` is no address and no kernel; the commands that may fail unnoticed are among the three that the code does not check. |
| `EngineAssumption`, `CaseAssumption` | A plan is a list of roles of `Shell::install`; the OFED stack is one of the three. |
| `SlurmAssumption` | No node has the name that stands for the head of `slurm.conf`. |
| `NetworkAssumption` | Networks are on interfaces, in any cabling.  The operator gives the mask of the service network's wire or none, and a profile found on that interface has it where no other network is on it. |
| `CatalogueAssumption`, `RequestAssumption` | `repos/*.conf`: an id has one file name; `rocky.repo`, `rhel.repo` and the files of EPEL and OpenHPC belong to one of the configurations each and hold its basic repositories; no generated name differs from that of a shipped file in the case of its extension. |
| `PoolAssumption` | The DHCP pool is not empty. |
| `AnswerfileAssumption`, `TextAssumption` | A file has the sections of `Documents`; the words that the code writes are words.  The second is about TLC's strings: the provers do not know that a literal is one. |

**Sessions.** `IInv` is `TypeOK`, `HistoryIsPrefix`, `FilesListPrefix`, `InstallGate`
and `SessionInv`.  The last one is the strengthening: the gate alone is not
inductive, because a step to `install` comes out of a save and it takes what the
save is about (its list is the history, a complete save is of an accepted model,
the file between the two writes holds the model) to know what is on disk then.
`SaveReturnsIInv` covers the four ways a save ends, `ExitIInv` every exit.  From
`IInv` follow `TypeCorrect`, `HistoriesAgree`, `DraftsListPrefixes` and `InstallGated`;
`StopKeeps` and the refinement `SessionsKeepProgress` follow step by step; for the
refinement `StartIndex` of a prefix is shown to be its length.

**Answers.** The theorems of `Questionnaire_proofs` are about the program's own
presenters and conversions.  `TuiSession` has these as constant operators and the
configurations bind them to those of `ClusterModel`; a proof cannot see a
configuration, so the binding is the hypothesis `Bound`, which lists it line by line
and says that the steps are steps of the program.  Each configuration of
`Questionnaire` satisfies it.  `CompletedAnswersHold` is not inductive: a resumed
process takes its answers from a file.  `AnswersInv` adds `AnswersType`, that every file
with the `[tui]` group holds the answers to the steps it lists (`FileHolds`), and that
between the two writes of a save the file on disk has the answers of the process.
`CompleteHolds` shows that a presenter puts its own answer in the model and leaves the
others there, `PartialHolds` the same for one that is left half way, `DraftHolds` that
what `applyDraftToModel` skips or reads differently is none of it.  For what is only
ever added to, `HoldsAnswer` says that the answer is there, not that it is the one
used: `revisit` and `resume_nodes` are about the difference.  From `AnswersInv` follow
`AnswersHold`, `AnswersInstalled` (the installation has an answer to every step),
`FilesHold`, `GroupTellsFinished` and `AnswersTyped`.  `GroupTellsFinished` is the
counterpart of the run `unattended_draft`: a loaded answerfile that has the group
has every answer, so the file without the group is the only way around the check.

**Image cache.** `IInv` joins `TypeOK`, `MadeFor`, `PackedClean` and `RebuiltOnce`
with `RunInv`, which says what a run may rely on at each step (no marker from its
removal to its writing, a root image for the selected queue system from `genimage`
on), and `RootClean`, because `packimage` leaves the files it copies in the root
image.  `MadeFor` is what makes a marker sound: the root image is complete, the
marker is that of the settings it was made from, and the definition names what it
named then.  `MarkerSound` follows: what the image holds is what the definition
named of those settings.  `MarkersAreSound`, `PackedImagesAreClean`,
`RootImagesAreClean` and `RebuildsOnce` follow.  `CacheTransparent` shows that every
step of a run is a request, a rebuild from nothing or a stutter of `FreshImages`,
whether or not the image was reused.

**xCAT nodes.** `DhcpInv` follows the DHCP server through the two orders of commands
(ISC dhcpd and Kea), `PbsInv` the loop over the nodes: those that are no longer
`left` are registered.  `DefInv` has xCAT's addresses of the nodes that are not
`lost`, `ReadyInv` what `nodeset` and the reservations have left when nodes are
booted, and `BootInv` that the direct script has reached every answering BMC it is
past, whatever xCAT's own command had reached.  `NodesBootIntoImage`,
`KeaHasItsKey`, `FallbackReachesTheRest` and `PbsAgreesWithHosts` follow, for any
set of commands that fail unnoticed.

**Confluent.** `ScratchInv` says which parts the image script has added at each
step, `CleanInv` that there is nothing else unless the removal failed
(`RemovalLeaves`: what it leaves is nothing, or is remembered), and `PublishedInv`
that what was packed is the scratch directory of this run; `ImagesAreThisRuns` and
`KernelsMatchDrivers` follow.  `HostsInv` and `PbsInv` follow the nodes through the
loop, and `NamesStay` is what makes the registration safe to repeat: no run takes a
node out of Confluent's database.  `RegistrationsResolve` follows, and
`RegistryImplemented`:  `registry`, `wanted` and `phase` of `NodeRegistry` are PBS's
own list, the nodes of the run and the program counter, and each step of the
provisioner is a step of the registry or leaves the three alone.

**Engine.** `DoneInv`: the roles before the current one are over (their checked
commands ran, their scripts ended well), and the same so far for the current one.
`DoneIsChecked` and `ScriptsEndedWell` follow for every plan, also one of `--roles`.
`RepairInv` is about what is on the head node where nothing fails by itself: the
roles that are over left what they give.  It needs `Orderly`, that each role of the
plan comes after the roles it builds on, which `ShellInstallIsOrderly` shows of
`InstallOrder` for every configuration but DOCA on a DEB head node, where the `dnf`
commands of `OFED::install` cannot succeed.  `RecipeSound` shows that
each command of a recipe finds what it needs in what the earlier ones and the
earlier roles give.  `NeedsAreInPlace` and `RunningAgainRepairs` follow, for every
orderly plan.

**Network, SLURM, OFED, xCAT set-up.** `NetInv` has the list of connections as the
role works it off, the mask that was read, and how far the profile of the first one
has come; that the list is in the order of the ranks (`Ordered`) makes `Displaced`
the only way in which a later script touches an earlier network.  `EveryNetworkUp`
and `MaskIsTheWires` follow.  `ExternalUntouched` is about each step of the role,
from any state an interrupted run may have left: it keeps the active profile of the
external interface where that is apart from the other networks (`ExternalApart`).
`SlurmInv` has the passwords in place at each command; for `NeverLockedOut` it
remembers that a login is only denied when there have been two different root
passwords.  `OfedInv` has the newest package that was built last, and that a
configuration of httpd is served unless a run was stopped halfway.  `XcatInv` has
the keys of the site table as they are written, `DefinitionsInv` the network
definitions: one of this run, and others with their own ranges.  `DynamicRangeFits`
is about the pure function: the dynamic range for every number of usable addresses.

**Repositories.** `KeptInv` has where the files of the operating system are: all in
place until the last one is copied, kills included, and then in the backup;
`SelectedInv` that what is on was switched on by some run; `DirInv` that the
directory has only what the role wrote, every id once; `SavedInv` that each
repository of the configuration is there with the location this run chose;
`IndexInv` and `SwitchInv` how far the switches are.  `NoFileIsLost`,
`SelectionIsEnabled` and `ImageHasItsRepositories` follow.  That an id occurs once
is what switching needs, and it is where `CatalogueAssumption` is used.  `DryRuns`
covers this role and the network role: after its first step a dry run is over, or
only looks.

**Answerfile.** `ReadInv` says what each section that was read makes sure of,
`ClusterInv` that a filled cluster is one that `fillData` can make
(`FilledCluster`), with distinct nodes, and that in the second round the file is
what `DumpOptions` made of the first cluster, `ReturnInv` that the second read
follows that cluster: no section refuses it, and the nodes that were read are those
of the cluster with the generic root password.  `NodesAreDistinct` rests on
`UniqueIsDistinct`: what `validateNodeInventoryTopology` remembers tells the nodes
apart, in spite of empty values; `SpeltApart` that what lower case leaves different
is another MAC address or has another separator.  `WrittenClusterReturns` rests on
its converse, `DistinctIsUnique`, and on `ReadsNetwork`, `ReadsSections` and
`ReadsNode`, which show that what is written needs nothing from the interfaces and
reads as it was.  Its exceptions are `Unreadable`.

Only model-checked:

- `QuestionnaireEnds` and `SetupEnds`: liveness under fairness is out of the prover's
  reach.
- The statements of section 3 that do not hold.

## 5. Assumptions and what is left out

- A write that is cut short is not followed by a successful tagging save, and a
  torn file is not usable.  A file cut exactly at the end of a group, which the
  parser would accept, is not modelled.
- There is one draft path and one output path.  `--tui-draft`, a
  `--dump-answerfile` that names a draft, and a draft that is resumed from another
  path are identified with them.
- The name in the automount maps (`hostname -s`) is the configured host name.
- The unchecked stream writes of `addStringToFile` succeed unless the process
  stops; `packimage` replaces the packed image only when it succeeds; `genimage`
  needs the osimage definition.
- The `/etc/passwd`, `/etc/group` and `/etc/shadow` that `customizeImage` copies are
  not followed.  Dry runs of `createImage` change nothing and are left out.
- The places where the repository configuration is looked for are reduced to
  whether one is found; a seeded configuration is written whole or not at all.
- The debug-only `--test` commands, the screens of a presenter one by one, log
  output and messages are left out.

### What the modelling met

Behaviour that a reader of the modules may take for a mistake of the model; it is
what the code does:

- Dumped and read again: a gateway of the service network that was read from the
  wire and lies outside the subnet is refused, and so is an application network
  without a domain, which is written as an empty one; root passwords, CPUs and memory
  of single nodes are not written.  A BMC address spelt differently is not seen as a
  duplicate.
- An empty bundle selection is lost by a resume, and an output answerfile without a
  queue system or OFED is installed with SLURM or the inbox stack.
- A missing domain of the external network is read through an empty optional
  (`cluster.cpp`); `[time] timeserver` is read and never used.
- The hosts file keeps the line of an earlier address; `addStringToFile` creates
  its file under `--dry`; the gateway of the service network is not kept by its
  profile, so a later run that reads it finds none.
- The partition of `slurm.conf` names `prefix[01-N]`, not the nodes, and slurmctld does
  not start where the names differ (`slurm.cpp`).
- Switching the provisioner leaves `opencattus-xcat.list`; the key of an upstream
  repository is asked for twice, with answers that may differ (`repos.cpp`);
  `dnf group info` also answers for a group that is not installed (`ofed.cpp`).
- `patchInstall` looks for a string that its first command removes, so a patch that
  failed after it is not tried again.
- The ood role is not implemented, `Postfix::setup` is called by no role, and no
  answerfile key enables the firewall.

### Not modelled

Value objects whose setters only assign, checksum verification, D-Bus and process
plumbing, the terminal view, option parsing, logging, the build and the tests: they
keep no state that a later step reads, or are I/O.  `PROJECT.json` gives the reason
for each.

## 6. Plan

Done: sessions and questionnaire, the answerfile and the model's conversions, the
engine and all implemented roles, the repositories, both provisioners, the image
cache; every safety property of the passing runs, as the theorems of section 4.
Next: type correctness of the parts of `HeadNode` as theorems of their own; what
`--dump-answerfile` leaves alone as an action property; dry runs of the other roles.
