---------------------------- MODULE ClusterModel ----------------------------
(***************************************************************************)
(* The Cluster the questionnaire fills in (src/src/models/cluster.cpp), what *)
(* each of the thirteen presenters writes to it, and its three conversions: *)
(* dumpData to a file, applyDraftToModel from a draft and the AnswerFile     *)
(* constructor followed by fillData from an answerfile.                      *)
(*                                                                          *)
(* An answer is abstracted to what the code tells apart.  A list that the   *)
(* code only appends to keeps what its readers look at: the first and the    *)
(* last network of a profile, and whether a node name occurs once or more.   *)
(***************************************************************************)
EXTENDS Naturals, Sequences

CONSTANTS
    Subnets,        \* the addresses a network can be given
    Created,        \* the sets of networks one visit can end up creating
    OFEDKinds,      \* the OFED stacks offered with InfiniBand
    MaxNodes,       \* bound: nodes one visit of the nodes step can add
    Queues          \* the queue systems offered

ASSUME MaxNodesAssumption == MaxNodes \in Nat \ {0}

\* Networks have the profiles of network.h.
ASSUME CreatedAssumption ==
    Created \subseteq SUBSET {"External", "Management", "Service", "Application"}

TuiSteps == << "general", "time", "locale", "hostname", "networking", "os",
               "provisioner", "ohpc", "repositories", "nodes", "queue", "mail",
               "preflight" >>
StepNames == { TuiSteps[i] : i \in 1..Len(TuiSteps) }

Unset == "unset"
Profiles == {"External", "Management", "Service", "Application"}

\* Steps whose presenter only assigns: a second visit replaces the first.
ScalarSteps == {"general", "time", "locale", "hostname", "provisioner",
                "repositories"}

InitialModel ==
    [ scalar  |-> [s \in ScalarSteps |-> Unset],
      nets    |-> [p \in Profiles |-> <<>>],  \* first and last of a profile
      ofed    |-> "none",
      disk    |-> Unset,
      bundles |-> Unset,
      topology|-> FALSE,                      \* sockets, cores, threads set
      nodes   |-> [n \in 1..MaxNodes |-> 0],  \* 2 stands for two or more
      queue   |-> "none",
      mail    |-> FALSE ]

\* Per step: nothing, or the latest answer.
NothingTold == [s \in StepNames |-> <<>>]

-----------------------------------------------------------------------------
\* Cluster::addNetwork and Server::addConnection append; of the list the code
\* reads the first entry of a profile, and dumpData the last.
AddNetwork(list, net) ==
    IF Len(list) < 2 THEN Append(list, net) ELSE <<list[1], net>>

\* getNetwork and getConnection find an entry of the profile.
HasNetwork(m, p) == m.nets[p] # <<>>

\* NetworkCreator::saveNetworksToModel
SaveNetworks(m, created, subnet) ==
    [m EXCEPT !.nets = [p \in Profiles |->
        IF p \in created THEN AddNetwork(@[p], [ip |-> subnet[p], net |-> subnet[p]])
        ELSE @[p]]]

\* Cluster::addNode appends the nodes n1 .. nq.
AddNodes(m, q) ==
    [m EXCEPT !.topology = TRUE,
              !.nodes = [n \in 1..MaxNodes |->
                  IF n <= q /\ @[n] < 2 THEN @[n] + 1 ELSE @[n]]]

-----------------------------------------------------------------------------
\* The presenters.

\* The answers the operator can give at a step.
StepAnswers(s) ==
    CASE s = "networking" ->
           { a \in [created : Created, subnet : [Profiles -> Subnets],
                    ofed : OFEDKinds \cup {"none"}] :
             "Application" \in a.created => a.ofed # "none" }
      [] s = "os"    -> {"local", "download"}
      [] s = "ohpc"  -> {"none", "some"}
      [] s = "nodes" -> 1..MaxNodes
      [] s = "queue" -> Queues
      [] s = "mail"  -> BOOLEAN
      [] OTHER       -> {"given"}

\* PresenterNodesOperationalSystem: a local ISO is set at once, a download is
\* only planned.
ChooseImage(m, a) ==
    IF a = "download" THEN [model |-> [m EXCEPT !.disk = "planned"],
                            pending |-> TRUE]
    ELSE [model |-> [m EXCEPT !.disk = "local"], pending |-> FALSE]

\* PresenterInfiniband sets the OFED stack, and leaves it alone on "no".
ChooseOFED(m, kind) ==
    IF kind = "none" THEN m ELSE [m EXCEPT !.ofed = kind]

\* PresenterMailSystem enables the mail system, and leaves it alone on "no".
ChooseMail(m, yes) == IF yes THEN [m EXCEPT !.mail = TRUE] ELSE m

\* What a presenter that returns has done to the model.  PresenterNodes aborts
\* when there is no management network.
CompleteAnswer(s, a, m, p) ==
    LET same(n) == {[model |-> n, pending |-> p]} IN
    CASE s \in ScalarSteps  -> same([m EXCEPT !.scalar[s] = a])
      [] s = "networking"   -> same(SaveNetworks(ChooseOFED(m, a.ofed),
                                                 a.created, a.subnet))
      [] s = "os"           -> {ChooseImage(m, a)}
      [] s = "ohpc"         -> same([m EXCEPT !.bundles = a])
      [] s = "nodes"        -> IF HasNetwork(m, "Management")
                               THEN same(AddNodes(m, a)) ELSE {}
      [] s = "queue"        -> same([m EXCEPT !.queue = a])
      [] s = "mail"         -> same(ChooseMail(m, a))
      [] OTHER              -> same(m)

\* What a presenter that is left half way (Back or Quit) may have done.
PartialAnswer(s, m, p) ==
    LET pair(n) == [model |-> n, pending |-> p] IN
    {pair(m)} \cup
    CASE s \in {"time", "hostname"} ->
             {pair([m EXCEPT !.scalar[s] = "partial"])}
      [] s = "networking" -> {pair(ChooseOFED(m, k)) : k \in OFEDKinds}
      [] s = "os"         -> {ChooseImage(m, "local")}
      [] s = "nodes"      -> {pair([m EXCEPT !.topology = TRUE])} \cup
             (IF HasNetwork(m, "Management")
              THEN {pair(AddNodes(m, q)) : q \in 1..(MaxNodes - 1)} ELSE {})
      [] s = "queue"      -> {pair([m EXCEPT !.queue = q]) : q \in Queues}
      [] s = "mail"       -> {pair(ChooseMail(m, TRUE))}
      [] OTHER            -> {}

\* The operator's own record: the latest answer to a step is the one meant.
RecordAnswer(t, s, a) == [t EXCEPT ![s] = <<a>>]

-----------------------------------------------------------------------------
\* The conversions.

\* dumpData writes, for each profile, the first connection's address and the
\* last network's settings.
DumpNetwork(list) ==
    IF list = <<>> THEN <<>>
    ELSE << [ip |-> list[1].ip, net |-> list[Len(list)].net] >>

\* loadNetwork checks that a gateway lies in the subnet of the address.  Only
\* the external network is given a gateway here.
GatewayInSubnet(list) ==
    list # <<>> /\ DumpNetwork(list)[1].ip = DumpNetwork(list)[1].net

\* validateNodeInventoryTopology
UniqueNodes(m) == \A n \in 1..MaxNodes : m.nodes[n] <= 1

\* The AnswerFile constructor accepts what dumpData writes.
AnswerFileAccepts(m) ==
    /\ GatewayInSubnet(m.nets["External"])
    /\ HasNetwork(m, "Management")
    /\ m.topology
    /\ UniqueNodes(m)

\* setDiskImage on a path that is read from a file: the ISO may be gone, except
\* that a dry run does not look.
ImageStillThere(disk, dry) ==
    IF disk = Unset THEN {FALSE} ELSE IF dry THEN {TRUE} ELSE BOOLEAN

\* applyNetworks and fillData read one network per profile back.
ReadNetworks(m) == [p \in Profiles |-> DumpNetwork(m.nets[p])]

\* applyNodes skips the nodes when there is no management network.
ReadNodes(m) ==
    IF HasNetwork(m, "Management") THEN m.nodes ELSE [n \in 1..MaxNodes |-> 0]

\* optionalString: an empty list of bundles reads as no list.
ReadBundles(b) == IF b = "none" THEN Unset ELSE b

\* Mutant of DraftToModel: the pending download is not restored.
DraftForgetsDownload(m, p, dry) ==
    {[model |-> [m EXCEPT !.nets = ReadNetworks(m)], pending |-> FALSE]}

\* applyDraftToModel on a new model.  An image that is gone is skipped with a
\* warning; one that is still to be downloaded is planned again.
DraftToModel(m, p, dry) ==
    LET read == [m EXCEPT !.nets = ReadNetworks(m), !.nodes = ReadNodes(m),
                          !.bundles = ReadBundles(@)]
    IN IF p # FALSE /\ m.disk # Unset
       THEN {[model |-> read, pending |-> p]}
       ELSE {[model |-> [read EXCEPT !.disk = IF there THEN @ ELSE Unset],
              pending |-> FALSE] : there \in ImageStillThere(m.disk, dry)}

\* fillData: no [pbs] section means SLURM, no [ofed] section the inbox stack.
FilledQueue(q) == IF q = "pbs" THEN q ELSE "slurm"
FilledOFED(kind) == IF kind = "none" THEN "inbox" ELSE kind

\* fillData on a new model.  The time server is not read, and setDiskImage
\* throws when the image is gone.
FillModel(m, dry) ==
    { [m EXCEPT !.nets = ReadNetworks(m), !.queue = FilledQueue(@),
                !.ofed = FilledOFED(@), !.scalar["time"] = "partial"]
      : there \in ImageStillThere(m.disk, dry) \ {FALSE} }

FillModelThrows(m, dry) == FALSE \in ImageStillThere(m.disk, dry)

-----------------------------------------------------------------------------
\* What the installation engine reads from the model.
\* The addresses of the head node in a network: getConnection gives the hosts
\* file, xCAT and SLURM that of the first connection, and the network role goes
\* over all connections but the external ones, so the interface keeps the last.
Addresses(m, p) ==
    LET list == m.nets[p] IN
    IF list = <<>> THEN {}
    ELSE {list[1].ip} \cup (IF p = "External" THEN {} ELSE {list[Len(list)].ip})
=============================================================================
