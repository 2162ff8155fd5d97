----------------------------- MODULE XcatImage -----------------------------
(***************************************************************************)
(* XCAT::createImage (src/src/services/xcat.cpp): the stateless image that   *)
(* compute nodes boot is generated once and reused by later runs of the      *)
(* installer when a marker file says it was built for the selected queue     *)
(* system.  The installer is started again and again with other settings,    *)
(* and can fail or be killed in every step.                                  *)
(*                                                                          *)
(* Of xCAT itself only what the code relies on is modelled: copycds defines  *)
(* the osimage, genimage builds the root image from the package list and the *)
(* postinstall script, packimage copies the files of the synclist into the   *)
(* root image and packs it.                                                  *)
(***************************************************************************)
EXTENDS FiniteSets

CONSTANTS
    Images,     \* osimage names; each has a root image and a marker
    Ubuntu,     \* the images of Ubuntu nodes
    Hosts,      \* names the head node can have
    Addresses,  \* management addresses it can have
    Passwords,  \* root passwords the nodes can be given
    Requests,   \* the settings the installer is started with
    Losses      \* of each image, the files whose chdef can fail unnoticed in a run

\* The shared files that configureOSImageDefinition has the definition name.
Files == {"otherpkglist", "postinstall", "synclists"}

Queues == {"none", "slurm", "pbs"}
Settings == [image : Images, queue : Queues, host : Hosts, addr : Addresses,
             password : Passwords, skipCopycds : BOOLEAN,
             forceGenimage : BOOLEAN]

ASSUME UbuntuAssumption == Ubuntu \subseteq Images
ASSUME LossesAssumption == Losses \in [Images -> SUBSET SUBSET Files]
ASSUME RequestsAssumption == Requests \subseteq Settings /\ Requests # {}

VARIABLES
    pc,         \* the next step of the run, "off" or "done" when none goes on
    cfg,        \* its settings
    defined,    \* the osimages xCAT has a definition of
    named,      \* the shared files that the definitions name
    root,       \* the root image directories
    marker,     \* the files compute.queue.<osimage>
    staged,     \* compute.otherpkglist and compute.postinstall, shared
    synclist,   \* compute.synclists, shared
    packed      \* the packed images the nodes boot

vars == <<pc, cfg, defined, named, root, marker, staged, synclist, packed>>

Unset == "unset"
NoContents == [queue |-> Unset, host |-> Unset, addr |-> Unset,
               password |-> Unset]
NoRoot == [state |-> "none", made |-> NoContents, names |-> {}, mounts |-> Unset,
           synced |-> {}]
PartialRoot == [NoRoot EXCEPT !.state = "partial"]

\* What the package list and the postinstall script put into an image: the
\* queue system's packages, the PBS server name, the management address for
\* chrony and slurmd, and the root password.
Contents(c) == [queue |-> c.queue, host |-> c.host, addr |-> c.addr,
                password |-> c.password]

\* Mutant of MarkerValue: the server is left out.
MarkerToken(c) == [token |-> c.queue, server |-> Unset]

\* queueMarkerValue: with PBS the server name is part of it.
MarkerValue(c) == [token |-> c.queue,
                   server |-> IF c.queue = "pbs" THEN c.host ELSE Unset]
NoMarker == [token |-> "absent", server |-> Unset]
TornMarker == [token |-> "torn", server |-> Unset]

\* The files generateSynclistsFile lists.
SyncFor(queue) == IF queue = "slurm" THEN "with slurm" ELSE "accounts"

-----------------------------------------------------------------------------
\* Up to imageExists: the templates and the name of the image.
Start(c) ==
    /\ pc \in {"off", "done"}
    /\ pc' = "force" /\ cfg' = c
    /\ UNCHANGED <<defined, named, root, marker, staged, synclist, packed>>

\* imageExists, first half: --force=genimage removes the definition; whether
\* rmdef succeeded is not looked at.
RemoveDefinition ==
    /\ pc = "force" /\ pc' = "decide"
    /\ \/ /\ cfg.forceGenimage
          /\ defined' = defined \ {cfg.image}
          /\ named' = [named EXCEPT ![cfg.image] = {}]
       \/ UNCHANGED <<defined, named>>
    /\ UNCHANGED <<cfg, root, marker, staged, synclist, packed>>

\* shouldReuseExistingImage, imageMatchesSelectedQueue
Reusable(found) ==
    found /\ marker[cfg.image] = MarkerValue(cfg) /\ ~cfg.skipCopycds

\* The rest of imageExists, where lsdef can also fail on an image that is
\* there, and the decision.
Decide ==
    /\ pc = "decide"
    /\ \E found \in {cfg.image \in defined, FALSE} :
          pc' = IF Reusable(found) THEN "synclists" ELSE "unmark"
    /\ UNCHANGED <<cfg, defined, named, root, marker, staged, synclist, packed>>

\* Mutant of DropMarker: it stays.
KeepMarker ==
    /\ pc = "unmark" /\ pc' = "media"
    /\ UNCHANGED <<cfg, defined, named, root, marker, staged, synclist, packed>>

\* The previous marker is dropped up front.
DropMarker ==
    /\ pc = "unmark" /\ pc' = "media"
    /\ marker' = [marker EXCEPT ![cfg.image] = NoMarker]
    /\ UNCHANGED <<cfg, defined, named, root, staged, synclist, packed>>

\* --skip=copycds removes the root image and then empties the shared files,
\* without looking whether it could; otherwise copycds defines the osimage, or
\* leaves a definition that is there with what it names.
RemoveMedia ==
    /\ cfg.skipCopycds
    /\ \/ /\ root' = [root EXCEPT ![cfg.image] = NoRoot]
          /\ staged' \in {staged, NoContents}
       \/ /\ root' \in {root, [root EXCEPT ![cfg.image] = PartialRoot]}
          /\ UNCHANGED staged
    /\ UNCHANGED <<defined, named>>

Copycds ==
    /\ ~cfg.skipCopycds
    /\ defined' = defined \cup {cfg.image}
    /\ UNCHANGED <<named, root, staged>>

PrepareMedia ==
    /\ pc = "media" /\ pc' = "clean"
    /\ RemoveMedia \/ Copycds
    /\ UNCHANGED <<cfg, marker, synclist, packed>>

\* cleanStatelessRootImage
CleanRoot ==
    /\ pc = "clean" /\ pc' = "stage"
    /\ root' = [root EXCEPT ![cfg.image] = NoRoot]
    /\ UNCHANGED <<cfg, defined, named, marker, staged, synclist, packed>>

\* buildUbuntu24OSImageDefinitionCommand: copycds does not define the osimage of
\* Ubuntu nodes for good; it is defined over again, with packages of its own.
UbuntuDefinition == Ubuntu \cap {cfg.image}

\* The definition names more of the shared files: mkdef for an Ubuntu image gives
\* all, chdef for every image one at a time, and neither is checked, so that
\* mkdef, and the chdef of each file in lost, fail unnoticed.
NameFiles(lost) ==
    \E mkdef \in SUBSET UbuntuDefinition :
        /\ defined' = defined \cup mkdef
        /\ named' = [named EXCEPT ![cfg.image] =
                        @ \cup (IF mkdef = {} THEN Files \ lost ELSE Files)]

\* The configure functions, generateOtherPkgListFile, generatePostinstallFile
\* and configureOSImageDefinition.
Stage ==
    /\ pc = "stage" /\ pc' = "customize"
    /\ staged' = Contents(cfg)
    /\ \E lost \in Losses[cfg.image] : NameFiles(lost)
    /\ UNCHANGED <<cfg, root, marker, synclist, packed>>

\* customizeImage: the automount maps name the head node.
CustomizeImage ==
    /\ pc = "customize" /\ pc' = "genimage"
    /\ root' = [root EXCEPT ![cfg.image] = [PartialRoot EXCEPT !.mounts = cfg.host]]
    /\ UNCHANGED <<cfg, defined, named, marker, staged, synclist, packed>>

\* genimage reads what the definition names when it runs.
GenImage ==
    /\ pc = "genimage" /\ pc' = "stamp"
    /\ cfg.image \in defined
    /\ root' = [root EXCEPT ![cfg.image] =
                  [@ EXCEPT !.state = "ready", !.made = staged,
                            !.names = named[cfg.image]]]
    /\ UNCHANGED <<cfg, defined, named, marker, staged, synclist, packed>>

\* Mutant of WriteMarker: it is not written.
NoStamp ==
    /\ pc = "stamp" /\ pc' = "synclists"
    /\ UNCHANGED <<cfg, defined, named, root, marker, staged, synclist, packed>>

\* writeImageQueueMarker
WriteMarker ==
    /\ pc = "stamp" /\ pc' = "synclists"
    /\ marker' = [marker EXCEPT ![cfg.image] = MarkerValue(cfg)]
    /\ UNCHANGED <<cfg, defined, named, root, staged, synclist, packed>>

\* Mutant of WriteSynclists: a list that is there is used as it is.
KeepSynclists ==
    /\ pc = "synclists" /\ pc' = "finalize"
    /\ synclist' = IF synclist = "absent" THEN SyncFor(cfg.queue) ELSE synclist
    /\ UNCHANGED <<cfg, defined, named, root, marker, staged, packed>>

\* generateSynclistsFile, on every run.
WriteSynclists ==
    /\ pc = "synclists" /\ pc' = "finalize"
    /\ synclist' = SyncFor(cfg.queue)
    /\ UNCHANGED <<cfg, defined, named, root, marker, staged, packed>>

\* finalizeStatelessRootImage sets the root password in the root image, which
\* has to hold a system.
FinalizeRoot ==
    /\ pc = "finalize" /\ pc' = "pack"
    /\ root[cfg.image].state = "ready"
    /\ root' = [root EXCEPT ![cfg.image].made.password = cfg.password]
    /\ UNCHANGED <<cfg, defined, named, marker, staged, synclist, packed>>

\* The root image once packimage has copied the files of the synclist that the
\* definition names, if it names one.
Synced(r) == [r EXCEPT !.synced =
                @ \cup (IF "synclists" \in named[cfg.image] THEN {synclist} ELSE {})]

PackImage ==
    /\ pc = "pack" /\ pc' = "done"
    /\ root' = [root EXCEPT ![cfg.image] = Synced(@)]
    /\ packed' = [packed EXCEPT ![cfg.image] = Synced(root[cfg.image])]
    /\ UNCHANGED <<cfg, defined, named, marker, staged, synclist>>

-----------------------------------------------------------------------------
\* A step throws, or the process is killed in it: what the step was writing is
\* left old, new or torn.
StopInMedia ==
    /\ pc = "media"
    /\ RemoveMedia \/ Copycds \/ UNCHANGED <<defined, named, root, staged>>
    /\ UNCHANGED <<marker, synclist>>

StopInStage ==
    /\ pc = "stage"
    /\ \E lost \in Losses[cfg.image] \cup {Files} : NameFiles(lost)
    /\ staged' \in {staged, NoContents}
    /\ UNCHANGED <<root, marker, synclist>>

StopInRoot ==
    /\ pc \in {"clean", "customize", "genimage"}
    /\ root' \in {root, [root EXCEPT ![cfg.image] = PartialRoot]}
    /\ UNCHANGED <<defined, named, marker, staged, synclist>>

StopInMarker ==
    /\ pc \in {"unmark", "stamp"}
    /\ marker' \in {marker, [marker EXCEPT ![cfg.image] = NoMarker],
                    [marker EXCEPT ![cfg.image] = TornMarker]}
    /\ UNCHANGED <<defined, named, root, staged, synclist>>

StopInSynclists ==
    /\ pc = "synclists"
    /\ synclist' \in {synclist, "partial"}
    /\ UNCHANGED <<defined, named, root, marker, staged>>

StopInPacking ==
    /\ pc = "pack"
    /\ root' \in {root, [root EXCEPT ![cfg.image] = Synced(@)]}
    /\ UNCHANGED <<defined, named, marker, staged, synclist>>

StopInFinalize ==
    /\ pc = "finalize"
    /\ root' \in {root, [root EXCEPT ![cfg.image].made.password = cfg.password]}
    /\ UNCHANGED <<defined, named, marker, staged, synclist>>

\* In imageExists, or before it.
StopEarly ==
    /\ pc \in {"force", "decide"}
    /\ UNCHANGED <<defined, named, root, marker, staged, synclist>>

Stop ==
    /\ pc' = "off"
    /\ StopEarly \/ StopInMarker \/ StopInMedia \/ StopInRoot \/ StopInStage
          \/ StopInSynclists \/ StopInFinalize \/ StopInPacking
    /\ UNCHANGED <<cfg, packed>>

Init ==
    /\ pc = "off" /\ cfg \in Requests
    /\ defined = {} /\ named = [i \in Images |-> {}]
    /\ root = [i \in Images |-> NoRoot]
    /\ marker = [i \in Images |-> NoMarker]
    /\ staged = NoContents /\ synclist = "absent"
    /\ packed = [i \in Images |-> NoRoot]

CreateImage ==
    RemoveDefinition \/ Decide \/ DropMarker \/ PrepareMedia \/ CleanRoot
        \/ Stage \/ CustomizeImage \/ GenImage \/ WriteMarker \/ WriteSynclists
        \/ FinalizeRoot \/ PackImage

Next == (\E c \in Requests : Start(c)) \/ CreateImage \/ Stop

Spec == Init /\ [][Next]_vars

-----------------------------------------------------------------------------
Steps == {"off", "force", "decide", "unmark", "media", "clean", "stage",
          "customize", "genimage", "stamp", "synclists", "finalize", "pack",
          "done"}
Names == Hosts \cup {Unset}
ContentsType == [queue : Queues \cup {Unset}, host : Names,
                 addr : Addresses \cup {Unset}, password : Passwords \cup {Unset}]
SyncType == {"absent", "partial", "with slurm", "accounts"}
RootType == [state : {"none", "partial", "ready"}, made : ContentsType,
             names : SUBSET Files, mounts : Names, synced : SUBSET SyncType]
MarkerType == [token : Queues \cup {"absent", "torn"}, server : Names]

TypeOK ==
    /\ pc \in Steps /\ cfg \in Settings
    /\ defined \subseteq Images /\ named \in [Images -> SUBSET Files]
    /\ root \in [Images -> RootType] /\ packed \in [Images -> RootType]
    /\ marker \in [Images -> MarkerType]
    /\ staged \in ContentsType /\ synclist \in SyncType

\* What an image holds of what it was made from: the packages of a queue system
\* and, with PBS, the name of the server.
Packages(r) == IF "otherpkglist" \in r.names THEN r.made.queue ELSE Unset
Server(r) == IF "postinstall" \in r.names /\ r.made.queue = "pbs"
             THEN r.made.host ELSE Unset

\* Wherever a run failed or was killed, a marker that is there tells the truth: the
\* root image next to it is complete, its packages are those of that queue system
\* and, with PBS, its server is that one (the comments of createImage).  The one
\* exception is a chdef that failed unnoticed (xcat.cpp 1818-1831): an image whose
\* definition does not name the package list, or the script, has none of it, and
\* the marker does not tell.
MarkerSound ==
    \A i \in Images : marker[i].token \in Queues =>
        /\ root[i].state = "ready"
        /\ "otherpkglist" \in root[i].names => Packages(root[i]) = marker[i].token
        /\ "postinstall" \in root[i].names => Server(root[i]) = marker[i].server

\* The files of the synclist that an image made for a queue system takes.
OwnFiles(r) == IF "synclists" \in r.names THEN {SyncFor(r.made.queue)} ELSE {}

\* No file of another queue system's synclist ever gets into a packed image,
\* although all images share one synclist file and packimage leaves what it
\* copied in the root image; its own are there if the definition names the list;
\* and what is packed is never a partial root image.
PackedClean ==
    \A i \in Images : packed[i].state # "none" =>
        /\ packed[i].state = "ready"
        /\ packed[i].synced = OwnFiles(packed[i])

\* A run that went well leaves an image the next run with the same settings
\* reuses: a missing or torn marker costs one rebuild, not one per run.
RebuiltOnce ==
    pc = "done" => cfg.image \in defined /\ marker[cfg.image] = MarkerValue(cfg)

\* What makes a marker sound: the root image is complete, the marker is the one of
\* the settings it was made from, and a definition that is there names what it
\* named when the image was made.
MadeFor ==
    \A i \in Images : marker[i].token \in Queues =>
        /\ root[i].state = "ready" /\ marker[i] = MarkerValue(root[i].made)
        /\ i \in defined => named[i] = root[i].names

\* What a run relies on between two steps.
RunInv ==
    /\ pc \in {"media", "clean", "stage", "customize", "genimage", "stamp"} =>
          marker[cfg.image] = NoMarker
    /\ pc \in {"customize", "genimage"} => staged = Contents(cfg)
    /\ pc \in {"stage", "customize"} => root[cfg.image] = NoRoot
    /\ pc = "genimage" => root[cfg.image].synced = {}
    /\ pc \in {"stamp", "synclists", "finalize", "pack"} =>
          /\ root[cfg.image].state = "ready"
          /\ root[cfg.image].made.queue = cfg.queue
          /\ cfg.queue = "pbs" => root[cfg.image].made.host = cfg.host
          /\ cfg.image \in defined
          /\ named[cfg.image] = root[cfg.image].names
    /\ pc \in {"synclists", "finalize", "pack"} =>
          marker[cfg.image] = MarkerValue(cfg)
    /\ pc \in {"finalize", "pack"} => synclist = SyncFor(cfg.queue)
    /\ pc = "pack" => root[cfg.image].made.password = cfg.password

\* A root image has only had its own queue system's files copied into it.
RootClean ==
    \A i \in Images : root[i].state = "ready" =>
        root[i].synced \subseteq OwnFiles(root[i])

\* The inductive invariant; MarkerSound follows from MadeFor.
IInv == TypeOK /\ MadeFor /\ PackedClean /\ RebuiltOnce /\ RunInv /\ RootClean

\* What a node sees of an image it boots, and the images that a rebuild from
\* nothing can give, where any of the three chdef commands may fail.
Seen(r) == [packages |-> Packages(r), server |-> Server(r),
            password |-> r.made.password, synced |-> r.synced]
Rebuilt(c) ==
    {Seen([made |-> Contents(c), names |-> n,
           synced |-> IF "synclists" \in n THEN {SyncFor(c.queue)} ELSE {}]) :
        n \in SUBSET Files}
Bootable == [i \in Images |-> Seen(packed[i])]

Uncached == INSTANCE FreshImages
                WITH Fresh <- Rebuilt, Nothing <- Seen(NoRoot),
                     boot <- Bootable, request <- cfg,
                     finished <- (pc = "done")

\* The cache is transparent: as far as the queue system, its server, the synced
\* files and the root password go, a run that finishes leaves what a rebuild from
\* nothing with its settings can leave, whether createImage reused the root image
\* or not and whatever earlier runs left half done; a run that stops leaves what
\* the nodes could boot before.  What a rebuild leaves out because chdef failed, a
\* reused image still lacks.
CacheIsTransparent == Uncached!FSpec

-----------------------------------------------------------------------------
\* "SLURM gets its slurm.conf re-synced on every repack and needs no
\* fingerprint" (xcat.cpp 1648-1650): a SLURM image points at the head node as
\* it is now, whether it was rebuilt or reused.
SlurmNeedsNoFingerprint ==
    (pc = "done" /\ cfg.queue = "slurm") =>
        /\ packed[cfg.image].made.addr = cfg.addr
        /\ packed[cfg.image].mounts = cfg.host
=============================================================================
