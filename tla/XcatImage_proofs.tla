-------------------------- MODULE XcatImage_proofs --------------------------
(***************************************************************************)
(* Proofs about XcatImage, for any osimages and any settings.               *)
(***************************************************************************)
EXTENDS XcatImage, TLAPS

\* The settings of a run, field by field.
LEMMA SettingsFields ==
    ASSUME NEW c \in Settings
    PROVE  /\ c.image \in Images /\ c.queue \in Queues /\ c.host \in Hosts
           /\ Contents(c) \in ContentsType
           /\ MarkerValue(c) \in MarkerType /\ MarkerValue(c).token = c.queue
           /\ SyncFor(c.queue) \in SyncType
BY DEF Settings, Contents, ContentsType, MarkerValue, MarkerType, SyncFor,
       SyncType, Names, Queues

\* The constant values have the types of the variables that hold them.
LEMMA ConstantTypes ==
    /\ NoContents \in ContentsType
    /\ NoRoot \in RootType /\ NoRoot.state = "none" /\ NoRoot.synced = {}
    /\ PartialRoot \in RootType /\ PartialRoot.state = "partial"
    /\ PartialRoot.synced = {}
    /\ NoMarker \in MarkerType /\ NoMarker.token = "absent"
    /\ TornMarker \in MarkerType /\ TornMarker.token = "torn"
<1>1. NoContents \in ContentsType
  BY DEF NoContents, ContentsType, Names
<1>2. /\ NoRoot = [state |-> "none", made |-> NoContents, names |-> {},
                   mounts |-> Unset, synced |-> {}]
      /\ PartialRoot = [state |-> "partial", made |-> NoContents,
                        names |-> {}, mounts |-> Unset, synced |-> {}]
  BY DEF NoRoot, PartialRoot
<1> QED
  BY <1>1, <1>2 DEF RootType, Names, NoMarker, TornMarker, MarkerType

\* Nothing is there at first.
LEMMA InitIInv == Init => IInv
<1> SUFFICES ASSUME Init PROVE IInv
  OBVIOUS
<1>1. TypeOK
  BY ConstantTypes, RequestsAssumption DEF Init, TypeOK, Steps, SyncType, Files
<1> QED
  BY <1>1, ConstantTypes
  DEF Init, IInv, MadeFor, PackedClean, RebuiltOnce, RunInv, RootClean,
      Queues

-----------------------------------------------------------------------------
\* A marker of the settings an image was made from is sound.
LEMMA MadeForSound == TypeOK /\ MadeFor => MarkerSound
<1> SUFFICES ASSUME TypeOK, MadeFor, NEW i \in Images, marker[i].token \in Queues
             PROVE  /\ root[i].state = "ready"
                    /\ "otherpkglist" \in root[i].names =>
                          Packages(root[i]) = marker[i].token
                    /\ "postinstall" \in root[i].names =>
                          Server(root[i]) = marker[i].server
  BY DEF MarkerSound
<1>1. root[i].state = "ready" /\ marker[i] = MarkerValue(root[i].made)
  BY DEF MadeFor
<1> QED BY <1>1 DEF Packages, Server, MarkerValue

\* Images that have the same marker value have the same queue system and, with
\* PBS, the same server.
LEMMA SameMarker ==
    ASSUME NEW c, NEW d, MarkerValue(c) = MarkerValue(d)
    PROVE  c.queue = d.queue /\ (d.queue = "pbs" => c.host = d.host)
BY DEF MarkerValue

\* Rewriting the root image of a run that has dropped the marker disturbs no
\* marker, and keeps the root images clean if the new one is.
LEMMA RewriteRoot ==
    ASSUME IInv, marker[cfg.image].token \notin Queues, UNCHANGED marker,
           \A i \in Images \ {cfg.image} :
               (i \in defined' => i \in defined) /\ named'[i] = named[i],
           NEW r \in RootType, root' = [root EXCEPT ![cfg.image] = r],
           r.state = "ready" => r.synced \subseteq OwnFiles(r)
    PROVE  /\ root' \in [Images -> RootType] /\ root'[cfg.image] = r
           /\ MadeFor' /\ RootClean'
<1>1. cfg.image \in Images
  BY SettingsFields DEF IInv, TypeOK
<1>2. root' \in [Images -> RootType] /\ root'[cfg.image] = r
  BY <1>1 DEF IInv, TypeOK
<1>3. MadeFor'
  <2> SUFFICES ASSUME NEW i \in Images, marker[i].token \in Queues
               PROVE  /\ root'[i].state = "ready"
                      /\ marker[i] = MarkerValue(root'[i].made)
                      /\ i \in defined' => named'[i] = root'[i].names
    BY DEF MadeFor
  <2>1. i # cfg.image /\ root'[i] = root[i]
    BY <1>1 DEF IInv, TypeOK
  <2> QED BY <2>1 DEF IInv, MadeFor
<1>4. RootClean'
  BY <1>1 DEF IInv, TypeOK, RootClean
<1> QED BY <1>2, <1>3, <1>4

\* What naming the files changes: the definition of the image of this run.
NamingTypes ==
    /\ defined' \subseteq Images /\ named' \in [Images -> SUBSET Files]
    /\ \A i \in Images \ {cfg.image} :
           (i \in defined' => i \in defined) /\ named'[i] = named[i]

LEMMA NameFilesTypes ==
    ASSUME IInv, cfg.image \in Images, NEW lost, NameFiles(lost)
    PROVE  NamingTypes
<1>1. PICK mkdef \in SUBSET UbuntuDefinition, files \in SUBSET Files :
          /\ defined' = defined \cup mkdef
          /\ named' = [named EXCEPT ![cfg.image] = @ \cup files]
  BY DEF NameFiles
<1> QED BY <1>1 DEF NamingTypes, UbuntuDefinition, IInv, TypeOK

\* The steps before anything is written.
LEMMA StartIInv ==
    ASSUME IInv, NEW c \in Requests, Start(c)
    PROVE  IInv'
<1>1. c \in Settings
  BY RequestsAssumption
<1> QED
  BY <1>1
  DEF Start, IInv, TypeOK, Steps, MadeFor, PackedClean, RebuiltOnce, RunInv,
      RootClean

LEMMA DecideIInv ==
    ASSUME IInv, RemoveDefinition \/ Decide
    PROVE  IInv'
<1>1. CASE RemoveDefinition
  <2>1. TypeOK'
    BY <1>1 DEF RemoveDefinition, IInv, TypeOK, Steps
  <2>2. \A i \in Images : i \in defined' => i \in defined /\ named'[i] = named[i]
    BY <1>1 DEF RemoveDefinition, IInv, TypeOK
  <2>3. MadeFor'
    BY <1>1, <2>2 DEF RemoveDefinition, IInv, MadeFor
  <2> QED
    BY <1>1, <2>1, <2>3
    DEF RemoveDefinition, IInv, PackedClean, RebuiltOnce, RunInv, RootClean
<1>2. CASE Decide
  <2>0. /\ pc' \in {"synclists", "unmark"}
        /\ UNCHANGED <<cfg, defined, named, root, marker, staged, synclist, packed>>
    BY <1>2 DEF Decide
  <2>1. TypeOK'
    BY <2>0 DEF IInv, TypeOK, Steps
  <2>2. pc' = "synclists" =>
            cfg.image \in defined /\ marker[cfg.image] = MarkerValue(cfg)
    BY <1>2 DEF Decide, Reusable
  <2>3. pc' = "synclists" =>
            /\ root[cfg.image].state = "ready"
            /\ MarkerValue(root[cfg.image].made) = MarkerValue(cfg)
            /\ named[cfg.image] = root[cfg.image].names
    BY <2>2, SettingsFields DEF IInv, TypeOK, MadeFor
  <2>4. pc' = "synclists" =>
            /\ root[cfg.image].made.queue = cfg.queue
            /\ cfg.queue = "pbs" => root[cfg.image].made.host = cfg.host
    BY <2>3, SameMarker
  <2>5. RunInv'
    BY <2>0, <2>2, <2>3, <2>4 DEF RunInv
  <2> QED
    BY <2>0, <2>1, <2>5
    DEF IInv, MadeFor, PackedClean, RebuiltOnce, RootClean
<1> QED BY <1>1, <1>2

\* Dropping the marker, and the steps that rewrite the root image without it.
LEMMA RebuildIInv ==
    ASSUME IInv, DropMarker \/ PrepareMedia \/ CleanRoot \/ Stage
                    \/ CustomizeImage \/ GenImage
    PROVE  IInv'
<1>0. cfg \in Settings /\ cfg.image \in Images
  BY SettingsFields DEF IInv, TypeOK
<1>m. pc \in {"media", "clean", "stage", "customize", "genimage", "stamp"} =>
          marker[cfg.image].token \notin Queues
  BY ConstantTypes DEF IInv, RunInv, Queues
<1>1. CASE DropMarker
  <2>1. marker' \in [Images -> MarkerType] /\ marker'[cfg.image] = NoMarker
    BY <1>0, <1>1, ConstantTypes DEF DropMarker, IInv, TypeOK
  <2>2. TypeOK'
    BY <1>1, <2>1 DEF DropMarker, IInv, TypeOK, Steps
  <2>3. MadeFor'
    BY <1>0, <1>1, ConstantTypes DEF DropMarker, IInv, TypeOK, MadeFor, Queues
  <2> QED
    BY <1>1, <2>1, <2>2, <2>3
    DEF DropMarker, IInv, PackedClean, RebuiltOnce, RunInv, RootClean
<1>2. CASE PrepareMedia
  <2>1. /\ defined' \subseteq Images /\ staged' \in ContentsType
        /\ UNCHANGED <<marker, named>>
        /\ \A i \in Images \ {cfg.image} : i \in defined' => i \in defined
    BY <1>0, <1>2, ConstantTypes
    DEF PrepareMedia, RemoveMedia, Copycds, IInv, TypeOK
  <2>2. root' \in [Images -> RootType] /\ MadeFor' /\ RootClean'
    <3>1. CASE UNCHANGED root
      BY <1>m, <1>2, <2>1, <3>1 DEF PrepareMedia, IInv, TypeOK, MadeFor, RootClean
    <3>2. CASE root' = [root EXCEPT ![cfg.image] = NoRoot]
      BY <1>m, <1>2, <2>1, <3>2, ConstantTypes, RewriteRoot DEF PrepareMedia
    <3>3. CASE root' = [root EXCEPT ![cfg.image] = PartialRoot]
      BY <1>m, <1>2, <2>1, <3>3, ConstantTypes, RewriteRoot DEF PrepareMedia
    <3> QED BY <1>2, <3>1, <3>2, <3>3 DEF PrepareMedia, RemoveMedia, Copycds
  <2>3. TypeOK'
    BY <1>2, <2>1, <2>2 DEF PrepareMedia, IInv, TypeOK, Steps
  <2> QED
    BY <1>2, <2>1, <2>2, <2>3
    DEF PrepareMedia, IInv, PackedClean, RebuiltOnce, RunInv
<1>3. CASE CleanRoot
  <2>1. /\ root' \in [Images -> RootType] /\ root'[cfg.image] = NoRoot
        /\ MadeFor' /\ RootClean'
    BY <1>m, <1>3, ConstantTypes, RewriteRoot DEF CleanRoot
  <2>2. TypeOK'
    BY <1>3, <2>1 DEF CleanRoot, IInv, TypeOK, Steps
  <2> QED
    BY <1>3, <2>1, <2>2 DEF CleanRoot, IInv, PackedClean, RebuiltOnce, RunInv
<1>4. CASE Stage
  <2>1. PICK lost \in Losses[cfg.image] : NameFiles(lost)
    BY <1>4 DEF Stage
  <2>2. NamingTypes
    BY <1>0, <2>1, NameFilesTypes
  <2>3. TypeOK'
    BY <1>0, <1>4, <2>2, SettingsFields DEF Stage, NamingTypes, IInv, TypeOK, Steps
  <2>4. MadeFor'
    BY <1>m, <1>4, <2>2 DEF Stage, NamingTypes, IInv, MadeFor
  <2> QED
    BY <1>4, <2>3, <2>4
    DEF Stage, IInv, PackedClean, RebuiltOnce, RunInv, RootClean
<1>5. CASE CustomizeImage
  <2> DEFINE r == [PartialRoot EXCEPT !.mounts = cfg.host]
  <2>1. r \in RootType /\ r.state = "partial" /\ r.synced = {}
    BY <1>0, SettingsFields, ConstantTypes DEF RootType, Names
  <2>2. root' = [root EXCEPT ![cfg.image] = r]
    BY <1>5 DEF CustomizeImage
  <2> HIDE DEF r
  <2>3. /\ root' \in [Images -> RootType] /\ root'[cfg.image] = r
        /\ MadeFor' /\ RootClean'
    BY <1>m, <1>5, <2>1, <2>2, RewriteRoot DEF CustomizeImage
  <2>4. TypeOK'
    BY <1>5, <2>3 DEF CustomizeImage, IInv, TypeOK, Steps
  <2> QED
    BY <1>5, <2>1, <2>3, <2>4
    DEF CustomizeImage, IInv, PackedClean, RebuiltOnce, RunInv
<1>6. CASE GenImage
  <2> DEFINE r == [root[cfg.image] EXCEPT !.state = "ready", !.made = staged,
                                          !.names = named[cfg.image]]
  <2>1. /\ root[cfg.image] \in RootType /\ staged \in ContentsType
        /\ named[cfg.image] \in SUBSET Files
        /\ staged = Contents(cfg) /\ root[cfg.image].synced = {}
    BY <1>0, <1>6 DEF GenImage, IInv, TypeOK, RunInv
  <2>2. /\ r \in RootType /\ r.state = "ready" /\ r.made = Contents(cfg)
        /\ r.synced = {} /\ r.names = named[cfg.image]
    BY <2>1 DEF RootType
  <2>3. root' = [root EXCEPT ![cfg.image] = r]
    BY <1>0, <1>6 DEF GenImage, IInv, TypeOK
  <2> HIDE DEF r
  <2>4. /\ root' \in [Images -> RootType] /\ root'[cfg.image] = r
        /\ MadeFor' /\ RootClean'
    BY <1>m, <1>6, <2>2, <2>3, RewriteRoot DEF GenImage
  <2>5. TypeOK'
    BY <1>6, <2>4 DEF GenImage, IInv, TypeOK, Steps
  <2>6. r.made.queue = cfg.queue /\ r.made.host = cfg.host
    BY <2>2 DEF Contents
  <2>7. RunInv'
    BY <1>6, <2>2, <2>4, <2>6 DEF GenImage, IInv, RunInv
  <2> QED
    BY <1>6, <2>4, <2>5, <2>7 DEF GenImage, IInv, PackedClean, RebuiltOnce
<1> QED BY <1>1, <1>2, <1>3, <1>4, <1>5, <1>6

\* Stamping the marker, and the steps every run takes.
LEMMA RepackIInv ==
    ASSUME IInv, WriteMarker \/ WriteSynclists \/ FinalizeRoot \/ PackImage
    PROVE  IInv'
<1>0. cfg \in Settings /\ cfg.image \in Images
  BY SettingsFields DEF IInv, TypeOK
<1>r. root[cfg.image] \in RootType
  BY <1>0 DEF IInv, TypeOK
<1>1. CASE WriteMarker
  <2>1. marker' \in [Images -> MarkerType] /\ marker'[cfg.image] = MarkerValue(cfg)
    BY <1>0, <1>1, SettingsFields DEF WriteMarker, IInv, TypeOK
  <2>2. TypeOK'
    BY <1>1, <2>1 DEF WriteMarker, IInv, TypeOK, Steps
  <2>3. /\ root[cfg.image].state = "ready"
        /\ MarkerValue(root[cfg.image].made) = MarkerValue(cfg)
        /\ named[cfg.image] = root[cfg.image].names
    BY <1>1 DEF WriteMarker, IInv, RunInv, MarkerValue
  <2>4. MadeFor'
    BY <1>0, <1>1, <2>1, <2>3 DEF WriteMarker, IInv, TypeOK, MadeFor
  <2> QED
    BY <1>1, <2>1, <2>2, <2>4
    DEF WriteMarker, IInv, PackedClean, RebuiltOnce, RunInv, RootClean
<1>2. CASE WriteSynclists
  <2>1. TypeOK'
    BY <1>0, <1>2, SettingsFields DEF WriteSynclists, IInv, TypeOK, Steps
  <2> QED
    BY <1>2, <2>1
    DEF WriteSynclists, IInv, MadeFor, PackedClean, RebuiltOnce, RunInv,
        RootClean
<1>3. CASE FinalizeRoot
  <2> DEFINE r == [root[cfg.image] EXCEPT !.made.password = cfg.password]
  <2>1. /\ r \in RootType /\ r.state = root[cfg.image].state
        /\ r.synced = root[cfg.image].synced
        /\ r.made.queue = root[cfg.image].made.queue
        /\ r.made.host = root[cfg.image].made.host
        /\ r.made.password = cfg.password /\ r.names = root[cfg.image].names
    BY <1>0, <1>r DEF RootType, ContentsType, Settings
  <2>2. root' = [root EXCEPT ![cfg.image] = r]
    BY <1>0, <1>3 DEF FinalizeRoot, IInv, TypeOK
  <2> HIDE DEF r
  <2>3. root' \in [Images -> RootType] /\ root'[cfg.image] = r
    BY <1>0, <2>1, <2>2 DEF IInv, TypeOK
  <2>4. TypeOK'
    BY <1>3, <2>3 DEF FinalizeRoot, IInv, TypeOK, Steps
  <2>5. MarkerValue(r.made) = MarkerValue(root[cfg.image].made)
    BY <2>1 DEF MarkerValue
  <2>6. MadeFor'
    BY <1>0, <1>3, <2>1, <2>2, <2>5 DEF FinalizeRoot, IInv, TypeOK, MadeFor
  <2>7. RootClean'
    BY <1>0, <2>1, <2>2 DEF IInv, TypeOK, RootClean, OwnFiles
  <2>8. RunInv'
    BY <1>3, <2>1, <2>3 DEF FinalizeRoot, IInv, RunInv
  <2> QED
    BY <1>3, <2>4, <2>6, <2>7, <2>8
    DEF FinalizeRoot, IInv, PackedClean, RebuiltOnce
<1>4. CASE PackImage
  <2> DEFINE r == Synced(root[cfg.image])
  <2>1. /\ r \in RootType /\ r.state = root[cfg.image].state
        /\ r.made = root[cfg.image].made /\ r.names = root[cfg.image].names
        /\ r.synced = root[cfg.image].synced \cup
                (IF "synclists" \in named[cfg.image] THEN {synclist} ELSE {})
    BY <1>r DEF Synced, RootType, IInv, TypeOK
  <2>2. /\ root' = [root EXCEPT ![cfg.image] = r]
        /\ packed' = [packed EXCEPT ![cfg.image] = r]
    BY <1>0, <1>4 DEF PackImage, Synced, IInv, TypeOK
  <2> HIDE DEF r
  <2>3. r.state = "ready" /\ r.synced = OwnFiles(r)
    BY <1>0, <1>4, <2>1 DEF PackImage, IInv, RunInv, RootClean, OwnFiles
  <2>4. TypeOK'
    BY <1>0, <1>4, <2>1, <2>2 DEF PackImage, IInv, TypeOK, Steps
  <2>5. MadeFor'
    BY <1>0, <1>4, <2>1, <2>2 DEF PackImage, IInv, TypeOK, MadeFor
  <2>6. PackedClean'
    BY <1>0, <2>2, <2>3 DEF IInv, TypeOK, PackedClean
  <2>7. RootClean'
    BY <1>0, <2>2, <2>3 DEF IInv, TypeOK, RootClean
  <2> QED
    BY <1>4, <2>4, <2>5, <2>6, <2>7 DEF PackImage, IInv, RebuiltOnce, RunInv
<1> QED BY <1>1, <1>2, <1>3, <1>4

\* A run that ends in the middle keeps the invariant if the markers are still
\* sound and the root images clean.
LEMMA OffIInv ==
    ASSUME IInv, TypeOK', pc' = "off", MadeFor', RootClean', UNCHANGED packed
    PROVE  IInv'
BY DEF IInv, PackedClean, RebuiltOnce, RunInv

LEMMA StopIInv ==
    ASSUME IInv, Stop
    PROVE  IInv'
<1>0. cfg \in Settings /\ cfg.image \in Images
  BY SettingsFields DEF IInv, TypeOK
<1>r. root[cfg.image] \in RootType
  BY <1>0 DEF IInv, TypeOK
<1>s. pc' = "off" /\ UNCHANGED <<cfg, packed>>
  BY DEF Stop
<1>m. pc \in {"media", "clean", "stage", "customize", "genimage", "stamp"} =>
          marker[cfg.image].token \notin Queues
  BY ConstantTypes DEF IInv, RunInv, Queues
<1>p. ASSUME marker[cfg.image].token \notin Queues, UNCHANGED marker,
             \A i \in Images \ {cfg.image} :
                 (i \in defined' => i \in defined) /\ named'[i] = named[i],
             root' \in {root, [root EXCEPT ![cfg.image] = PartialRoot],
                       [root EXCEPT ![cfg.image] = NoRoot]}
      PROVE  root' \in [Images -> RootType] /\ MadeFor' /\ RootClean'
  <2>1. CASE root' = root
    BY <1>p, <2>1 DEF IInv, TypeOK, MadeFor, RootClean
  <2>2. CASE root' = [root EXCEPT ![cfg.image] = PartialRoot]
    BY <1>p, <2>2, ConstantTypes, RewriteRoot
  <2>3. CASE root' = [root EXCEPT ![cfg.image] = NoRoot]
    BY <1>p, <2>3, ConstantTypes, RewriteRoot
  <2> QED BY <1>p, <2>1, <2>2, <2>3
<1>1. CASE StopEarly
  <2>1. TypeOK' /\ MadeFor' /\ RootClean'
    BY <1>s, <1>1 DEF StopEarly, IInv, TypeOK, Steps, MadeFor, RootClean
  <2> QED BY <1>s, <2>1, OffIInv
<1>2. CASE StopInMarker
  <2>1. PICK m \in {marker[cfg.image], NoMarker, TornMarker} :
            marker' = [marker EXCEPT ![cfg.image] = m]
    BY <1>0, <1>2 DEF StopInMarker, IInv, TypeOK
  <2>2. m \in MarkerType /\ (m.token \in Queues => m = marker[cfg.image])
    BY <1>0, ConstantTypes DEF IInv, TypeOK, Queues
  <2>3. TypeOK'
    BY <1>s, <1>2, <2>1, <2>2 DEF StopInMarker, IInv, TypeOK, Steps
  <2>4. MadeFor' /\ RootClean'
    BY <1>0, <1>2, <2>1, <2>2
    DEF StopInMarker, IInv, TypeOK, MadeFor, RootClean
  <2> QED BY <1>s, <2>3, <2>4, OffIInv
<1>3. CASE StopInMedia
  <2>0. /\ defined' \subseteq Images /\ staged' \in ContentsType
        /\ UNCHANGED <<marker, named, synclist>>
        /\ \A i \in Images \ {cfg.image} : i \in defined' => i \in defined
        /\ root' \in {root, [root EXCEPT ![cfg.image] = PartialRoot],
                      [root EXCEPT ![cfg.image] = NoRoot]}
    BY <1>0, <1>3, ConstantTypes
    DEF StopInMedia, RemoveMedia, Copycds, IInv, TypeOK
  <2>1. root' \in [Images -> RootType] /\ MadeFor' /\ RootClean'
    BY <1>m, <1>p, <1>3, <2>0 DEF StopInMedia
  <2>2. TypeOK'
    BY <1>0, <1>s, <2>0, <2>1 DEF IInv, TypeOK, Steps
  <2> QED BY <1>s, <2>1, <2>2, OffIInv
<1>4. CASE StopInRoot
  <2>1. root' \in [Images -> RootType] /\ MadeFor' /\ RootClean'
    BY <1>m, <1>p, <1>4 DEF StopInRoot
  <2>2. TypeOK'
    BY <1>s, <1>4, <2>1 DEF StopInRoot, IInv, TypeOK, Steps
  <2> QED BY <1>s, <2>1, <2>2, OffIInv
<1>5. CASE StopInStage
  <2>0. NamingTypes
    BY <1>0, <1>5, NameFilesTypes DEF StopInStage
  <2>1. TypeOK'
    BY <1>s, <1>5, <2>0, ConstantTypes
    DEF StopInStage, NamingTypes, IInv, TypeOK, Steps
  <2>2. MadeFor' /\ RootClean'
    BY <1>m, <1>5, <2>0 DEF StopInStage, NamingTypes, IInv, MadeFor, RootClean
  <2> QED BY <1>s, <2>1, <2>2, OffIInv
<1>6. CASE StopInSynclists
  <2>1. TypeOK' /\ MadeFor' /\ RootClean'
    BY <1>s, <1>6
    DEF StopInSynclists, IInv, TypeOK, Steps, SyncType, MadeFor, RootClean
  <2> QED BY <1>s, <2>1, OffIInv
<1>7. CASE StopInFinalize \/ StopInPacking
  <2>1. PICK r \in RootType :
            /\ root' = [root EXCEPT ![cfg.image] = r]
            /\ r.state = root[cfg.image].state
            /\ r.made.queue = root[cfg.image].made.queue
            /\ r.made.host = root[cfg.image].made.host
            /\ r.names = root[cfg.image].names
            /\ r.synced \subseteq root[cfg.image].synced \cup
                    (IF "synclists" \in named[cfg.image] THEN {SyncFor(cfg.queue)}
                     ELSE {})
    <3>1. CASE UNCHANGED root
      BY <1>0, <1>r, <3>1 DEF IInv, TypeOK
    <3>2. CASE root' = [root EXCEPT ![cfg.image].made.password = cfg.password]
      <4> DEFINE r == [root[cfg.image] EXCEPT !.made.password = cfg.password]
      <4>1. /\ r \in RootType /\ r.state = root[cfg.image].state
            /\ r.made.queue = root[cfg.image].made.queue
            /\ r.made.host = root[cfg.image].made.host
            /\ r.synced = root[cfg.image].synced /\ r.names = root[cfg.image].names
        BY <1>0, <1>r DEF RootType, ContentsType, Settings
      <4>2. root' = [root EXCEPT ![cfg.image] = r]
        BY <1>0, <3>2 DEF IInv, TypeOK
      <4> HIDE DEF r
      <4> QED BY <4>1, <4>2
    <3>3. CASE pc = "pack" /\ root' = [root EXCEPT ![cfg.image] = Synced(@)]
      <4> DEFINE r == Synced(root[cfg.image])
      <4>1. /\ r \in RootType /\ r.state = root[cfg.image].state
            /\ r.made = root[cfg.image].made /\ r.names = root[cfg.image].names
            /\ r.synced = root[cfg.image].synced \cup
                    (IF "synclists" \in named[cfg.image] THEN {synclist} ELSE {})
        BY <1>r DEF Synced, RootType, IInv, TypeOK
      <4>2. root' = [root EXCEPT ![cfg.image] = r]
        BY <1>0, <3>3 DEF Synced, IInv, TypeOK
      <4>3. synclist = SyncFor(cfg.queue)
        BY <3>3 DEF IInv, RunInv
      <4> HIDE DEF r
      <4> QED BY <4>1, <4>2, <4>3
    <3> QED BY <1>7, <3>1, <3>2, <3>3 DEF StopInFinalize, StopInPacking
  <2>2. /\ UNCHANGED <<defined, named, marker, staged, synclist>>
        /\ pc \in {"finalize", "pack"}
    BY <1>7 DEF StopInFinalize, StopInPacking
  <2>3. TypeOK'
    BY <1>0, <1>s, <2>1, <2>2 DEF IInv, TypeOK, Steps
  <2>4. MarkerValue(r.made) = MarkerValue(root[cfg.image].made)
    BY <2>1 DEF MarkerValue
  <2>5. MadeFor'
    BY <1>0, <2>1, <2>2, <2>4 DEF IInv, TypeOK, MadeFor
  <2>6. r.synced \subseteq OwnFiles(r)
    BY <1>0, <2>1, <2>2 DEF IInv, RunInv, RootClean, OwnFiles
  <2>7. RootClean'
    BY <1>0, <2>1, <2>6 DEF IInv, TypeOK, RootClean
  <2> QED BY <1>s, <2>3, <2>5, <2>7, OffIInv
<1> QED BY <1>1, <1>2, <1>3, <1>4, <1>5, <1>6, <1>7 DEF Stop

\* The invariant is inductive.
LEMMA NextIInv == IInv /\ [Next]_vars => IInv'
<1> SUFFICES ASSUME IInv, [Next]_vars PROVE IInv'
  OBVIOUS
<1>1. CASE UNCHANGED vars
  BY <1>1
  DEF vars, IInv, TypeOK, MadeFor, PackedClean, RebuiltOnce, RunInv,
      RootClean
<1> QED
  BY <1>1, StartIInv, DecideIInv, RebuildIInv, RepackIInv, StopIInv
  DEF Next, CreateImage

-----------------------------------------------------------------------------
\* A marker that is there tells the truth about the root image next to it,
\* wherever earlier runs of createImage failed or were killed: what genimage was
\* told to put in is of the marker's queue system and server.
THEOREM MarkersAreSound == Spec => []MarkerSound
<1>1. IInv => MarkerSound
  BY MadeForSound DEF IInv
<1> QED BY <1>1, InitIInv, NextIInv, PTL DEF Spec

\* No packed image is partial or holds another queue system's files, however
\* many images share the synclist; its own are there if its definition names it.
THEOREM PackedImagesAreClean == Spec => []PackedClean
<1>1. IInv => PackedClean
  BY DEF IInv
<1> QED BY <1>1, InitIInv, NextIInv, PTL DEF Spec

\* packimage leaves the files of the synclist in the root image it packs: they
\* are only ever the ones of the queue system the root image was made for.
THEOREM RootImagesAreClean == Spec => []RootClean
<1>1. IInv => RootClean
  BY DEF IInv
<1> QED BY <1>1, InitIInv, NextIInv, PTL DEF Spec

\* A run that goes well is reused by the next one with the same settings.
THEOREM RebuildsOnce == Spec => []RebuiltOnce
<1>1. IInv => RebuiltOnce
  BY DEF IInv
<1> QED BY <1>1, InitIInv, NextIInv, PTL DEF Spec

\* The cached image is, in its queue system, server, synced files and root
\* password, an image that a rebuild from nothing can give, with what a failing
\* chdef can leave out of it.
THEOREM CacheTransparent == Spec => CacheIsTransparent
<1> DEFINE absvars == <<Bootable, cfg, pc = "done">>
<1>1. Init => Uncached!FInit
  <2> SUFFICES ASSUME Init PROVE Uncached!FInit
    OBVIOUS
  <2>1. \A i \in Images : packed[i] = NoRoot
    BY DEF Init
  <2>2. cfg \in Requests /\ (pc = "done") = FALSE
    BY DEF Init
  <2> QED BY <2>1, <2>2 DEF Bootable, Uncached!FInit
<1>2. IInv /\ [Next]_vars => [Uncached!FNext]_absvars
  <2> SUFFICES ASSUME IInv, [Next]_vars
               PROVE  [Uncached!FNext]_absvars
    OBVIOUS
  <2>1. ASSUME NEW c \in Requests, Start(c)
        PROVE  Uncached!Ask(c)
    <3>1. cfg' = c /\ pc' # "done" /\ packed' = packed
      BY <2>1 DEF Start
    <3>2. Bootable' = Bootable
      BY <3>1 DEF Bootable
    <3>3. (pc' = "done") = FALSE
      BY <3>1
    <3> QED BY <3>1, <3>2, <3>3 DEF Uncached!Ask
  <2>2. ASSUME PackImage
        PROVE  Uncached!Rebuild
    <3> DEFINE r == Synced(root[cfg.image])
    <3>0. cfg.image \in Images /\ root[cfg.image] \in RootType
      BY SettingsFields DEF IInv, TypeOK
    <3>1. /\ r.made = root[cfg.image].made /\ r.names = root[cfg.image].names
          /\ r.synced = root[cfg.image].synced \cup
                  (IF "synclists" \in named[cfg.image] THEN {synclist} ELSE {})
      BY <3>0 DEF Synced, RootType
    <3>2. packed' = [packed EXCEPT ![cfg.image] = r]
      BY <2>2 DEF PackImage
    <3> HIDE DEF r
    <3>3. /\ r.synced = IF "synclists" \in r.names THEN {SyncFor(cfg.queue)} ELSE {}
          /\ r.names \in SUBSET Files
      BY <2>2, <3>0, <3>1
      DEF PackImage, IInv, RunInv, RootClean, OwnFiles, RootType
    <3>4. /\ r.made.queue = cfg.queue /\ r.made.password = cfg.password
          /\ cfg.queue = "pbs" => r.made.host = cfg.host
      BY <2>2, <3>1 DEF PackImage, IInv, RunInv
    <3>5. Seen(r) \in Rebuilt(cfg)
      <4> DEFINE f == [made |-> Contents(cfg), names |-> r.names,
                       synced |-> IF "synclists" \in r.names
                                  THEN {SyncFor(cfg.queue)} ELSE {}]
      <4>1. Seen(r) = Seen(f)
        BY <3>3, <3>4 DEF Seen, Packages, Server, Contents
      <4>2. Seen(f) \in Rebuilt(cfg)
        BY <3>3 DEF Rebuilt
      <4> QED BY <4>1, <4>2
    <3>6. Bootable' = [Bootable EXCEPT ![cfg.image] = Seen(r)]
      BY <3>0, <3>2 DEF Bootable, IInv, TypeOK
    <3>7. cfg' = cfg /\ (pc' = "done") = TRUE
      BY <2>2 DEF PackImage
    <3> QED BY <3>5, <3>6, <3>7 DEF Uncached!Rebuild
  <2>3. ASSUME UNCHANGED <<packed, cfg>>, (pc' = "done") = (pc = "done")
        PROVE  UNCHANGED absvars
    <3>1. Bootable' = Bootable
      BY <2>3 DEF Bootable
    <3> QED BY <2>3, <3>1
  <2>4. CASE \E c \in Requests : Start(c)
    BY <2>4, <2>1 DEF Uncached!FNext
  <2>5. CASE PackImage
    BY <2>5, <2>2 DEF Uncached!FNext
  <2>6. CASE Stop
    <3>1. UNCHANGED <<packed, cfg>> /\ pc # "done" /\ pc' # "done"
      BY <2>6 DEF Stop, StopEarly, StopInMarker, StopInMedia, StopInRoot, StopInStage,
                  StopInSynclists, StopInFinalize, StopInPacking
    <3> QED BY <3>1, <2>3
  <2>7. CASE \/ RemoveDefinition \/ Decide \/ DropMarker \/ PrepareMedia \/ CleanRoot
             \/ Stage \/ CustomizeImage \/ GenImage \/ WriteMarker \/ WriteSynclists
             \/ FinalizeRoot
    <3>1. UNCHANGED <<packed, cfg>> /\ pc # "done" /\ pc' # "done"
      BY <2>7 DEF RemoveDefinition, Decide, DropMarker, PrepareMedia, CleanRoot, Stage,
                  CustomizeImage, GenImage, WriteMarker, WriteSynclists, FinalizeRoot
    <3> QED BY <3>1, <2>3
  <2>8. CASE UNCHANGED vars
    <3>1. UNCHANGED <<packed, cfg, pc>>
      BY <2>8 DEF vars
    <3> QED BY <3>1, <2>3
  <2> QED
    BY <2>4, <2>5, <2>6, <2>7, <2>8 DEF Next, CreateImage
<1> QED
  BY <1>1, <1>2, InitIInv, NextIInv, PTL
  DEF Spec, CacheIsTransparent, Uncached!FSpec
=============================================================================
