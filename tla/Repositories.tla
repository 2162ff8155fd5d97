----------------------------- MODULE Repositories -----------------------------
(***************************************************************************)
(* The repository manager on an RPM head node.  The repos role moves the   *)
(* .repo files it finds in /etc/yum.repos.d to a backup directory, asks    *)
(* the network whether to use the mirror or the upstream location of every *)
(* repository of repos/*.conf, writes the .repo files, reads the directory *)
(* back and switches the repositories of the cluster on.  The image of the *)
(* nodes then takes its repositories from these files.  A run may be       *)
(* killed between any two files, and the role runs again.                  *)
(*                                                                         *)
(* HTTP servers are external: every request may succeed or fail.           *)
(***************************************************************************)
EXTENDS Naturals, Sequences, FiniteSets

CONSTANTS
    Catalogue,  \* repos/*.conf: [conf, file, id, releases, base, mirror, mirrorKey, key]
    Shipped,    \* files of a new head node: [file, id, exact]
    Requests,   \* [head, compute, release, lts, xcat, mirrors, force, dry, chosen, bundles]
    MaxRuns     \* bound: how often the installer is started

VARIABLES
    req, runs,
    phase,     \* the next part of the role, "idle", "done", "stopped", "crashed"
    dir,       \* /etc/yum.repos.d: [file, id, url, meta, key, check, on]; on Ubuntu
               \* /etc/apt/sources.list.d
    made,      \* the backup directory exists
    backup,    \* what is in it
    conf,      \* the configuration file of the distribution in use
    vault,     \* RockyLinux::m_shouldUseVault
    plan,      \* id -> [url, key, check], as the network answered
    todo,      \* files of the current part that are still to be handled
    index,     \* id -> file, RPMRepoManager::m_filesIdx
    image,     \* repositories of the node image: [id, url]
    torn,      \* how a run was killed in the backup: "copy", "remove", "no"; "taken"
               \* once a later run took the half-copied backup for a finished one
    dropped,   \* a finished backup was thrown away with --force backups
    selected   \* history: the ids that a run switched on

rvars == <<req, runs, phase, dir, made, backup, conf, vault, plan, todo, index,
           image, torn, dropped, selected>>

Families == [rocky |-> "RPM", rhel |-> "RPM", ubuntu |-> "DEB"]
Distros == {"rocky", "rhel"}
Distro(os) == IF Families[os] = "RPM" THEN os ELSE "none"

Files == {e.file : e \in dir}
Ids(d) == {e.id : e \in d}
\* A file whose extension is .repo in other letters (X.REPO) is removed as one of
\* the .repo files, but neither copied nor read as one.
Miscased == {s.file : s \in {x \in Shipped : ~x.exact}}
RepoFiles == Files \ Miscased
Empty == [x \in {} |-> "none"]

\* RPMRepository; its location, whether it has a metalink, its key, whether that
\* is checked, and whether it is enabled.
RPMRepository(f, i, url, meta, key, check, on) ==
    [file |-> f, id |-> i, url |-> url, meta |-> meta, key |-> key, check |-> check, on |-> on]

\* What the operating system installs: every file has a metalink and a key.
Original(s) == RPMRepository(s.file, s.id, "os", TRUE, "os", TRUE, TRUE)
Originals == IF Families[req.head] = "RPM" THEN {Original(s) : s \in Shipped} ELSE {}

\* selectRepositoryBootstrapOS
BootstrapOS(r) == IF Families[r.head] # Families[r.compute] THEN r.head ELSE r.compute

\* RepoConfigParser::parse, with the variables of the configuration put in for one
\* release: the ids of rhel.conf and oracle.conf carry {releasever}, so they are
\* others in the next release, in the same file.
Parsed(c, release) == {e \in Catalogue : e.conf = c /\ release \in e.releases}

\* RepoConfigParser::load.  The ids of both files of Rocky are the same, so the
\* vault only changes the upstream location.
Loaded(c, release) == Parsed("common", release) \cup Parsed(c, release)

\* expandSelectedRepositoryIds
Expand(chosen) ==
    chosen \cup (IF "beegfs" \in chosen THEN {"grafana", "influxdata"} ELSE {})

\* RepoNames::resolveReposNames: the basic repositories of the distribution,
\* EPEL and OpenHPC.
Mandatory(r) == {e.id : e \in {c \in Loaded(BootstrapOS(r), r.release) : c.base}}

\* RepoManager::defaultRepositoriesFor: every id of the configuration, and the
\* enabled ones.  An unknown id of the answerfile is dropped silently.
Managed(r) == {e.id : e \in Loaded(BootstrapOS(r), r.release)}
Enabled(r) ==
    Managed(r) \cap (Mandatory(r) \cup Expand(r.chosen)
                     \cup (IF "intel-oneapi" \in r.bundles THEN {"oneAPI"} ELSE {}))

RInit ==
    /\ req \in Requests
    /\ runs = 0 /\ phase = "idle"
    /\ dir = Originals
    /\ made = FALSE /\ backup = {}
    /\ conf = "none" /\ vault = "unknown"
    /\ plan = Empty /\ todo = {} /\ index = Empty
    /\ image = {}
    /\ torn = "no" /\ dropped = FALSE /\ selected = {}

\* The files initializeDebianHeadnodeRepositories writes.
AptSources(r) ==
    {"opencattus-openhpc.list"} \cup (IF r.xcat THEN {"opencattus-xcat.list"} ELSE {})

\* defaultDOCARepoTargetFor: EL10 has no repository of a DOCA LTS stream before
\* 3.2 (lts).
HasDocaTarget(r) == ~(r.release = "10" /\ r.lts)

\* buildRepoConfigVars throws where a release has no repository baseline.
HasBaseline(r) == Families[BootstrapOS(r)] = "RPM" => HasDocaTarget(r)

\* repoConfigBasePath: whether one of the candidate directories has a repos.conf,
\* with the file of the distribution beside it or written there from the copy in
\* the program.
RepoConfigBasePath == BOOLEAN

\* RepoManager::initializeDefaultRepositories: a dry run does nothing.  A
\* configuration that is not found ends the role before a file is touched.
Initialize(r, found) ==
    /\ phase \in {"idle", "done", "stopped", "crashed"}
    /\ runs < MaxRuns
    /\ runs' = runs + 1
    /\ r.head = req.head
    /\ req' = r
    /\ vault' = "unknown" /\ plan' = Empty /\ index' = Empty
    /\ image' = {}
    /\ \/ r.dry /\ phase' = "done" /\ todo' = {}
       \/ ~r.dry /\ Families[BootstrapOS(r)] = "DEB" /\ phase' = "apt" /\ todo' = AptSources(r)
       \/ /\ ~r.dry /\ Families[BootstrapOS(r)] = "RPM" /\ todo' = {}
          /\ phase' = IF HasBaseline(r) /\ found THEN "backup" ELSE "stopped"
    /\ UNCHANGED <<dir, made, backup, conf, torn, dropped, selected>>

\* One sources file, of unsigned repositories; "apt update" comes before and after.
WriteAptSource ==
    /\ phase = "apt"
    /\ \/ todo = {} /\ phase' = "done" /\ UNCHANGED <<dir, todo>>
       \/ \E f \in todo :
            /\ f = "opencattus-openhpc.list" \/ todo = {f}
            /\ dir' = {e \in dir : e.file # f} \cup
                      {RPMRepository(f, f, "apt", FALSE, "none", FALSE, TRUE)}
            /\ todo' = todo \ {f} /\ UNCHANGED phase
    /\ UNCHANGED <<req, runs, made, backup, conf, vault, plan, index, image,
                   torn, dropped, selected>>

\* backupFilesByExtension with --force backups.  A backup that was killed while it
\* copied has nothing that is not in the directory still.
DiscardBackup ==
    /\ phase = "backup" /\ req.force /\ made
    /\ made' = FALSE /\ backup' = {}
    /\ dropped' = (dropped \/ torn # "copy") /\ torn' = "no"
    /\ UNCHANGED <<req, runs, phase, dir, conf, vault, plan, todo, index, image, selected>>

\* An existing directory counts as a finished backup.
BeginBackup ==
    /\ phase = "backup" /\ ~(req.force /\ made)
    /\ made' = TRUE
    /\ phase' = IF made THEN "query" ELSE "copy"
    /\ todo' = IF made THEN {} ELSE RepoFiles
    /\ torn' = IF torn = "copy" THEN "taken" ELSE torn
    /\ UNCHANGED <<req, runs, dir, backup, conf, vault, plan, index, image,
                   dropped, selected>>

\* moveFilesWithExtension copies all files and then removes all.
CopyFile ==
    /\ phase = "copy" /\ todo # {}
    /\ \E f \in todo :
        /\ backup' = backup \cup {e \in dir : e.file = f}
        /\ todo' = todo \ {f}
    /\ UNCHANGED <<req, runs, phase, dir, made, conf, vault, plan, index, image,
                   torn, dropped, selected>>

\* Mutant of CopiedAll: files are removed while others are still to be copied.
CopiedAny ==
    /\ phase = "copy" /\ todo # RepoFiles
    /\ phase' = "remove"
    /\ todo' = Files
    /\ UNCHANGED <<req, runs, dir, made, backup, conf, vault, plan, index,
                   image, torn, dropped, selected>>

CopiedAll ==
    /\ phase = "copy" /\ todo = {}
    /\ phase' = "remove"
    /\ todo' = Files
    /\ UNCHANGED <<req, runs, dir, made, backup, conf, vault, plan, index,
                   image, torn, dropped, selected>>

\* removeFilesWithExtension compares in lower case.
RemoveFile ==
    /\ phase = "remove"
    /\ IF todo = {} THEN phase' = "query" /\ UNCHANGED <<dir, todo>>
       ELSE \E f \in todo :
            /\ dir' = {e \in dir : e.file # f}
            /\ todo' = todo \ {f}
            /\ UNCHANGED phase
    /\ UNCHANGED <<req, runs, made, backup, conf, vault, plan, index, image,
                   torn, dropped, selected>>

\* MirrorRepo: a repository without a mirror path has none; its key is not asked for.
MirrorRepo(c) ==
    [url |-> "mirror", key |-> IF c.mirrorKey THEN "mirror" ELSE "none", check |-> c.mirrorKey]

\* UpstreamRepo::gpgkey asks the server, and is called for the gpgkey (first) and
\* again for gpgcheck (second): the sets of repositories whose key is found.
UpstreamRepo(c, first, second) ==
    [url |-> "upstream", key |-> IF c.key /\ c.id \in first THEN "upstream" ELSE "none",
     check |-> c.key /\ c.id \in second]

\* RepoChooser::choose, given the repositories whose mirror answers
ChoosesMirror(c, mirrors) == req.mirrors /\ c.mirror /\ c.id \in mirrors

\* RepoAssembler::assemble
Answer(c, mirrors, first, second) ==
    IF ChoosesMirror(c, mirrors) THEN MirrorRepo(c) ELSE UpstreamRepo(c, first, second)

\* RPMRepositoryGenerator::generate passes the operating system of the compute
\* nodes to RepoConfigParser::load, whose switch is unreachable for Ubuntu: the
\* build may take any of its branches.
Branches == IF Families[req.compute] = "DEB" THEN Distros ELSE {req.compute}

\* RockyLinux::shouldUseVault asks a server, once in a run.
ShouldUseVault == IF vault = "unknown" THEN {"yes", "no"} ELSE {vault}

\* All files are put together, with every request made, before one is written.
Assemble ==
    /\ phase = "query"
    /\ \E c \in Branches :
        /\ conf' = c
        /\ \E mirrors \in SUBSET Ids({x \in Loaded(c, req.release) : req.mirrors /\ x.mirror}),
              first, second \in SUBSET Ids({x \in Loaded(c, req.release) : x.key}) :
            plan' = [i \in Ids(Loaded(c, req.release)) |->
                        Answer(CHOOSE e \in Loaded(c, req.release) : e.id = i,
                               mirrors, first, second)]
        /\ todo' = {e.file : e \in Loaded(c, req.release)}
        /\ vault' \in IF c = "rocky" THEN ShouldUseVault ELSE {vault}
    /\ phase' = "save"
    /\ UNCHANGED <<req, runs, dir, made, backup, index, image, torn, dropped, selected>>

Old(f, i) == {e \in dir : e.file = f /\ e.id = i}

\* RPMRepositoryParser::unparse opens the file as it is and sets the keys that
\* have a value: a metalink or gpgkey of the old file stays where the new
\* repository has none.
Merge(f, i) ==
    RPMRepository(f, i, plan[i].url,
        \E e \in Old(f, i) : e.meta,
        IF plan[i].key # "none" THEN plan[i].key
        ELSE IF Old(f, i) = {} THEN "none" ELSE (CHOOSE e \in Old(f, i) : TRUE).key,
        plan[i].check, FALSE)

\* Maps and hash sets give the files in an order of their own.
NextFile == CHOOSE f \in todo : TRUE

SaveFile ==
    /\ phase = "save" /\ todo # {}
    /\ LET f == NextFile
           ids == {e.id : e \in {c \in Loaded(conf, req.release) : c.file = f}} IN
        /\ dir' = {e \in dir : ~(e.file = f /\ e.id \in ids)} \cup {Merge(f, i) : i \in ids}
        /\ todo' = todo \ {f}
    /\ UNCHANGED <<req, runs, phase, made, backup, conf, vault, plan, index,
                   image, torn, dropped, selected>>

Read == {e \in dir : e.file \in RepoFiles}

\* RPMRepoManager::loadBaseDir: of two files with one id the first one read
\* counts, in the order of the directory.  enable(managed, false) aborts on an
\* id that no file has.
LoadBaseDir ==
    /\ phase = "save" /\ todo = {}
    /\ \E first \in RepoFiles :
        index' = [i \in Ids(Read) |-> IF Old(first, i) # {} THEN first
                                      ELSE CHOOSE f \in RepoFiles : Old(f, i) # {}]
    /\ IF Managed(req) \subseteq Ids(Read)
       THEN phase' = "disable" /\ todo' = {index'[i] : i \in Managed(req)}
       ELSE phase' = "stopped" /\ UNCHANGED todo
    /\ UNCHANGED <<req, runs, dir, made, backup, conf, vault, plan, image, torn, dropped, selected>>

\* One file is saved with the switches of the repositories that it is the file of;
\* a section of another release in it stays as it is.
Switch(f, ids, value) ==
    dir' = {IF e.file = f /\ e.id \in ids /\ index[e.id] = f
            THEN [e EXCEPT !.on = value] ELSE e : e \in dir}

DisableFile ==
    /\ phase = "disable"
    /\ IF todo = {}
       THEN /\ phase' = "enable" /\ todo' = {index[i] : i \in Enabled(req)}
            /\ selected' = selected \cup Enabled(req) /\ UNCHANGED dir
       ELSE /\ Switch(NextFile, Managed(req), FALSE) /\ todo' = todo \ {NextFile}
            /\ UNCHANGED <<phase, selected>>
    /\ UNCHANGED <<req, runs, made, backup, conf, vault, plan, index, image,
                   torn, dropped>>

\* Mutant of EnableFile: what the answerfile adds is not switched on.
EnableMandatory ==
    /\ phase = "enable"
    /\ IF todo = {} THEN phase' = "image" /\ UNCHANGED <<dir, todo>>
       ELSE /\ Switch(NextFile, Mandatory(req), TRUE)
            /\ todo' = todo \ {NextFile} /\ UNCHANGED phase
    /\ UNCHANGED <<req, runs, made, backup, conf, vault, plan, index, image,
                   torn, dropped, selected>>

EnableFile ==
    /\ phase = "enable"
    /\ IF todo = {} THEN phase' = "image" /\ UNCHANGED <<dir, todo>>
       ELSE Switch(NextFile, Enabled(req), TRUE) /\ todo' = todo \ {NextFile} /\ UNCHANGED phase
    /\ UNCHANGED <<req, runs, made, backup, conf, vault, plan, index, image,
                   torn, dropped, selected>>

\* Mutant of DistroFile: the answer of the vault lookup is taken the other way.
VaultFirst ==
    IF req.compute = "rhel" THEN "rhel.repo"
    ELSE IF vault = "yes" THEN "rocky.repo" ELSE "rocky-vault.repo"

DistroFile ==
    IF req.compute = "rhel" THEN "rhel.repo"
    ELSE IF vault = "yes" THEN "rocky-vault.repo" ELSE "rocky.repo"

\* RPMRepoManager::repoFile: a file that is not there has no repositories.
RepoFile(f) == {e \in dir : e.file = f}

\* buildXcatRepoUpstreamUrl; an id of the OpenHPC file or of the basic ones of
\* Rocky has an upstream location that the program knows, and so has EPEL.
KnownUpstream(e) ==
    \/ e.id \in {"epel", "OpenHPC"}
    \/ req.compute = "rocky" /\ e.id \in Ids({p \in Parsed("rocky", req.release) : p.base})

\* resolveXcatOsImageRepoUrl: a mirror that does not answer any more is replaced,
\* where there is something to replace it by.
ResolveUrl(e, answering) ==
    IF req.mirrors /\ e.url = "mirror" /\ e.id \notin answering /\ KnownUpstream(e)
    THEN "upstream" ELSE e.url

\* XCAT::getxCATOSImageRepos: the enabled repositories of three files.  The image
\* of an Ubuntu node has its own.
ImageRepos ==
    /\ phase = "image"
    /\ IF Families[req.compute] = "DEB" THEN image' = {[id |-> "OpenHPC", url |-> "apt"]}
       ELSE LET read == UNION {RepoFile(f) : f \in {DistroFile, "epel.repo", "OpenHPC.repo"}}
                on == {e \in read : e.on}
            IN  \E answering \in SUBSET {e.id : e \in {x \in on : x.url = "mirror"}} :
                    image' = {[id |-> e.id, url |-> ResolveUrl(e, answering)] : e \in on}
    /\ phase' = "done"
    /\ UNCHANGED <<req, runs, dir, made, backup, conf, vault, plan, todo, index,
                   torn, dropped, selected>>

Kill ==
    /\ phase \notin {"idle", "done", "stopped", "crashed"}
    /\ phase' = "crashed"
    /\ torn' = IF phase \in {"copy", "remove"} THEN phase ELSE torn
    /\ UNCHANGED <<req, runs, dir, made, backup, conf, vault, plan, todo, index,
                   image, dropped, selected>>

RNext ==
    \/ \E r \in Requests, found \in RepoConfigBasePath : Initialize(r, found)
    \/ WriteAptSource
    \/ DiscardBackup \/ BeginBackup \/ CopyFile \/ CopiedAll \/ RemoveFile
    \/ Assemble \/ SaveFile \/ LoadBaseDir \/ DisableFile \/ EnableFile
    \/ ImageRepos \/ Kill

------------------------------------------------------------------------------

Ready == phase = "done" /\ ~req.dry /\ Families[BootstrapOS(req)] = "RPM"
\* The two families of the answerfile are one: the defined branch of load.
Uniform == Families[req.head] = Families[req.compute]

\* What the repos role leaves on: the repositories of this answerfile, and of
\* those that this configuration does not have (of another distribution, or of
\* another release in the same file) none but what an earlier run switched on;
\* each in one place, and no file of the operating system in the way, unless the
\* last backup was killed while it moved them.
EnabledAsSelected ==
    Ready /\ Uniform /\ torn = "no" =>
        LET on == {e \in dir : e.on} IN
        /\ Enabled(req) \subseteq Ids(on)
        /\ Ids(on) \subseteq Enabled(req) \cup (selected \ Managed(req))
        /\ \A d, e \in on : d.id = e.id => d = e
        /\ \A e \in on : ~e.meta

\* No .repo file of the operating system is lost to a kill at any step of the
\* backup: it is in its place or in the backup until the operator discards a
\* finished backup, or a run takes a backup that was killed while it copied for
\* a finished one and writes over what was not copied.  A file X.REPO is not
\* among them.
OriginalsKept ==
    torn # "taken" /\ ~dropped =>
        {o \in Originals : o.file \notin Miscased} \subseteq dir \cup backup

\* Ids of the distribution of the nodes that only another release has.
OtherReleases(r) ==
    Ids({e \in Catalogue : e.conf \in {"common", r.compute} /\ r.release \notin e.releases})
        \ Managed(r)

\* The image of the nodes is installed from the distribution, EPEL and OpenHPC
\* as they are enabled on the head node, and from a mirror only when this run
\* uses mirrors, though an earlier run wrote their locations.  Of other
\* repositories it has none but those of another release of the same distribution
\* that an earlier run switched on, where that run found them.  The vault file of
\* Rocky is not one that the generator writes.
ImageIsComplete ==
    Ready /\ Uniform /\ torn = "no" /\ vault # "yes" =>
        /\ Mandatory(req) \subseteq Ids(image)
        /\ \A e \in image :
              \/ e.id \in Enabled(req) /\ (e.url = "mirror" => req.mirrors)
              \/ e.id \in selected \cap OtherReleases(req)
==============================================================================
