----------------------- MODULE Questionnaire_proofs -----------------------
(***************************************************************************)
(* Proofs about the questionnaire with the answers of ClusterModel: what is *)
(* counted as answered is in the model, for every list of steps of the      *)
(* program, any networks, nodes and queue systems, and any number of runs.  *)
(***************************************************************************)
EXTENDS Questionnaire, TuiSession_proofs

\* The configurations bind the operators that TuiSession leaves open to those of
\* ClusterModel, and the steps are steps of the program.
Bound ==
    /\ EmptyModel = InitialModel /\ NoAnswers = NothingTold
    /\ \A i \in 1..Len(Steps) : Steps[i] \in StepNames
    /\ \A s : Answers(s) = StepAnswers(s)
    /\ \A s, a, m, p : AnswerStep(s, a, m, p) = CompleteAnswer(s, a, m, p)
    /\ \A s, m, p : Interrupted(s, m, p) = PartialAnswer(s, m, p)
    /\ \A m, p, dry : ApplyDraft(m, p, dry) = DraftToModel(m, p, dry)
    /\ \A m, dry : FillData(m, dry) = FillModel(m, dry)
    /\ \A t, s, a : Revise(t, s, a) = RecordAnswer(t, s, a)

Nets == [ip : Subnets, net : Subnets]
NetLists == Seq(Nets)
Pair(m, p) == [model |-> m, pending |-> p]

-----------------------------------------------------------------------------
\* The presenters and the conversions, one by one.

LEMMA StepNamesAre ==
    StepNames = {"general", "time", "locale", "hostname", "networking", "os",
                 "provisioner", "ohpc", "repositories", "nodes", "queue", "mail",
                 "preflight"}
<1>1. Len(TuiSteps) = 13
  BY DEF TuiSteps
<1>2. 1..13 = {1, 2, 3, 4, 5, 6, 7, 8, 9, 10, 11, 12, 13}
  OBVIOUS
<1> QED BY <1>1, <1>2 DEF StepNames, TuiSteps

LEMMA InitialType == InitialModel \in Models
<1>1. [n \in 1..MaxNodes |-> 0] \in [1..MaxNodes -> Nat]
  OBVIOUS
<1>2. [p \in Profiles |-> <<>>] \in [Profiles -> NetLists]
  BY DEF NetLists
<1>3. [s \in ScalarSteps |-> Unset] \in [ScalarSteps -> {Unset, "given", "partial"}]
  OBVIOUS
<1> QED BY <1>1, <1>2, <1>3, Zenon DEF InitialModel, Models, NetLists, Nets

LEMMA NothingRecord == Record(NothingTold)
BY DEF Record, NothingTold

LEMMA SeqEnds ==
    ASSUME NEW U, NEW q \in Seq(U), q # <<>>
    PROVE  Len(q) \in Nat \ {0} /\ q[1] \in U /\ q[Len(q)] \in U
OBVIOUS

\* A network that is added is the last of its profile.
LEMMA AddedNetwork ==
    ASSUME NEW list \in NetLists, NEW net \in Nets
    PROVE  /\ AddNetwork(list, net) \in NetLists /\ AddNetwork(list, net) # <<>>
           /\ AddNetwork(list, net)[Len(AddNetwork(list, net))] = net
<1>1. CASE Len(list) < 2
  <2>1. AddNetwork(list, net) = Append(list, net)
    BY <1>1 DEF AddNetwork
  <2>2. Append(list, net) \in NetLists /\ Len(Append(list, net)) = Len(list) + 1
        /\ Append(list, net)[Len(list) + 1] = net /\ Len(list) \in Nat
    BY DEF NetLists
  <2> QED BY <2>1, <2>2
<1>2. CASE ~(Len(list) < 2)
  <2>1. AddNetwork(list, net) = <<list[1], net>> /\ list[1] \in Nets
    BY <1>2, SeqEnds DEF AddNetwork, NetLists
  <2> QED BY <2>1 DEF NetLists
<1> QED BY <1>1, <1>2

\* What dumpData writes of a list has the settings of its last network.
LEMMA DumpedNetwork ==
    ASSUME NEW list \in NetLists
    PROVE  /\ DumpNetwork(list) \in NetLists
           /\ list = <<>> <=> DumpNetwork(list) = <<>>
           /\ list # <<>> =>
                DumpNetwork(list)[Len(DumpNetwork(list))].net = list[Len(list)].net
<1>1. CASE list = <<>>
  BY <1>1 DEF DumpNetwork, NetLists
<1>2. CASE list # <<>>
  <2>1. list[1] \in Nets /\ list[Len(list)] \in Nets
    BY <1>2, SeqEnds DEF NetLists
  <2>2. DumpNetwork(list) = << [ip |-> list[1].ip, net |-> list[Len(list)].net] >>
    BY <1>2 DEF DumpNetwork
  <2>3. [ip |-> list[1].ip, net |-> list[Len(list)].net] \in Nets
    BY <2>1 DEF Nets
  <2> QED BY <1>2, <2>2, <2>3 DEF NetLists
<1> QED BY <1>1, <1>2

\* The fields of a model, and models with one field changed.
Fields == {"scalar", "nets", "ofed", "disk", "bundles", "topology", "nodes", "queue", "mail"}
Values(f) ==
    CASE f = "scalar"   -> [ScalarSteps -> {Unset, "given", "partial"}]
      [] f = "nets"     -> [Profiles -> NetLists]
      [] f = "ofed"     -> OFEDKinds \cup {"none", "inbox"}
      [] f = "disk"     -> {Unset, "planned", "local"}
      [] f = "bundles"  -> {Unset, "none", "some"}
      [] f = "topology" -> BOOLEAN
      [] f = "nodes"    -> [1..MaxNodes -> Nat]
      [] f = "queue"    -> Queues \cup {"none", "slurm", "pbs"}
      [] f = "mail"     -> BOOLEAN

LEMMA ModelFields ==
    ASSUME NEW m \in Models
    PROVE  m = [f \in Fields |-> m[f]] /\ \A f \in Fields : m[f] \in Values(f)
<1>1. /\ m.scalar \in [ScalarSteps -> {Unset, "given", "partial"}]
      /\ m.nets \in [Profiles -> NetLists] /\ m.ofed \in OFEDKinds \cup {"none", "inbox"}
      /\ m.disk \in {Unset, "planned", "local"} /\ m.bundles \in {Unset, "none", "some"}
      /\ m.topology \in BOOLEAN /\ m.nodes \in [1..MaxNodes -> Nat]
      /\ m.queue \in Queues \cup {"none", "slurm", "pbs"} /\ m.mail \in BOOLEAN
  BY DEF Models, NetLists, Nets
<1>2. m = [f \in Fields |-> m[f]]
  BY DEF Models, Fields
<1>3. \A f \in Fields : m[f] \in Values(f)
  BY <1>1 DEF Fields, Values
<1> QED BY <1>2, <1>3

LEMMA MakeModel ==
    ASSUME NEW m, m = [f \in Fields |-> m[f]], \A f \in Fields : m[f] \in Values(f)
    PROVE  m \in Models
<1>1. /\ m.scalar \in [ScalarSteps -> {Unset, "given", "partial"}]
      /\ m.nets \in [Profiles -> NetLists] /\ m.ofed \in OFEDKinds \cup {"none", "inbox"}
      /\ m.disk \in {Unset, "planned", "local"} /\ m.bundles \in {Unset, "none", "some"}
      /\ m.topology \in BOOLEAN /\ m.nodes \in [1..MaxNodes -> Nat]
      /\ m.queue \in Queues \cup {"none", "slurm", "pbs"} /\ m.mail \in BOOLEAN
  BY DEF Fields, Values
<1>2. m = [scalar |-> m.scalar, nets |-> m.nets, ofed |-> m.ofed, disk |-> m.disk,
           bundles |-> m.bundles, topology |-> m.topology, nodes |-> m.nodes,
           queue |-> m.queue, mail |-> m.mail]
  BY DEF Fields
<1> QED BY <1>1, <1>2, Zenon DEF Models, NetLists, Nets

LEMMA SetField ==
    ASSUME NEW m \in Models, NEW f \in Fields, NEW v \in Values(f)
    PROVE  /\ [m EXCEPT ![f] = v] \in Models /\ [m EXCEPT ![f] = v][f] = v
           /\ \A g \in Fields \ {f} : [m EXCEPT ![f] = v][g] = m[g]
<1> DEFINE n == [m EXCEPT ![f] = v]
<1>1. m = [g \in Fields |-> m[g]] /\ \A g \in Fields : m[g] \in Values(g)
  BY ModelFields
<1>2. n = [g \in Fields |-> n[g]] /\ n[f] = v /\ \A g \in Fields \ {f} : n[g] = m[g]
  BY <1>1
<1> HIDE DEF n
<1>3. \A g \in Fields : n[g] \in Values(g)
  BY <1>1, <1>2
<1>4. n \in Models
  BY <1>2, <1>3, MakeModel
<1> QED BY <1>2, <1>4 DEF n

\* Models m and n agree but for the fields F.
SameBut(m, n, F) == \A f \in Fields \ F : n[f] = m[f]

LEMMA SetOne ==
    ASSUME NEW m \in Models, NEW f \in Fields, NEW v \in Values(f)
    PROVE  /\ [m EXCEPT ![f] = v] \in Models /\ [m EXCEPT ![f] = v][f] = v
           /\ SameBut(m, [m EXCEPT ![f] = v], {f})
BY SetField DEF SameBut

LEMMA ChooseOFEDSets ==
    ASSUME NEW m \in Models, NEW k \in OFEDKinds \cup {"none"}
    PROVE  /\ ChooseOFED(m, k) \in Models /\ SameBut(m, ChooseOFED(m, k), {"ofed"})
           /\ k # "none" => ChooseOFED(m, k).ofed = k
<1>1. "ofed" \in Fields /\ k \in Values("ofed")
  BY DEF Fields, Values
<1>2. CASE k = "none"
  BY <1>2 DEF ChooseOFED, SameBut
<1>3. CASE k # "none"
  BY <1>1, <1>3, SetOne DEF ChooseOFED
<1> QED BY <1>2, <1>3

LEMMA ChooseMailSets ==
    ASSUME NEW m \in Models, NEW yes \in BOOLEAN
    PROVE  /\ ChooseMail(m, yes) \in Models /\ SameBut(m, ChooseMail(m, yes), {"mail"})
           /\ (yes \/ m.mail) => ChooseMail(m, yes).mail
<1>1. "mail" \in Fields /\ TRUE \in Values("mail")
  BY DEF Fields, Values
<1>2. CASE yes = FALSE
  BY <1>2 DEF ChooseMail, SameBut
<1>3. CASE yes = TRUE
  BY <1>1, <1>3, SetOne DEF ChooseMail
<1> QED BY <1>2, <1>3

LEMMA ChooseImageSets ==
    ASSUME NEW m \in Models, NEW a \in {"local", "download"}
    PROVE  LET r == ChooseImage(m, a) IN
           /\ r.model \in Models /\ SameBut(m, r.model, {"disk"})
           /\ r.pending = (a = "download")
           /\ r.model.disk = IF a = "download" THEN "planned" ELSE "local"
<1>1. "disk" \in Fields /\ "planned" \in Values("disk") /\ "local" \in Values("disk")
  BY DEF Fields, Values
<1>2. CASE a = "download"
  BY <1>1, <1>2, SetOne DEF ChooseImage
<1>3. CASE a = "local"
  BY <1>1, <1>3, SetOne DEF ChooseImage
<1> QED BY <1>2, <1>3

Scalars == {Unset, "given", "partial"}
WithScalar(m, s, v) == [m EXCEPT !.scalar[s] = v]

LEMMA SetScalar ==
    ASSUME NEW m \in Models, NEW s \in ScalarSteps, NEW v \in Scalars
    PROVE  LET n == WithScalar(m, s, v) IN
           /\ n \in Models /\ SameBut(m, n, {"scalar"}) /\ n.scalar[s] = v
           /\ \A u \in ScalarSteps \ {s} : n.scalar[u] = m.scalar[u]
<1>1. m.scalar \in [ScalarSteps -> Scalars]
  BY ModelFields DEF Fields, Values, Scalars
<1> DEFINE w == [m.scalar EXCEPT ![s] = v]
<1>2. /\ w \in [ScalarSteps -> Scalars] /\ w[s] = v
      /\ \A u \in ScalarSteps \ {s} : w[u] = m.scalar[u]
  BY <1>1
<1> HIDE DEF w
<1>3. "scalar" \in Fields /\ w \in Values("scalar")
  BY <1>2 DEF Fields, Values, Scalars
<1>4. WithScalar(m, s, v) = [m EXCEPT !.scalar = w]
  BY DEF w, WithScalar
<1> QED BY <1>2, <1>3, <1>4, SetOne

LEMMA SaveNetworksSets ==
    ASSUME NEW m \in Models, NEW created \in Created, NEW subnet \in [Profiles -> Subnets]
    PROVE  LET n == SaveNetworks(m, created, subnet) IN
           /\ n \in Models /\ SameBut(m, n, {"nets"})
           /\ \A p \in created : HasNetwork(n, p) /\ n.nets[p][Len(n.nets[p])].net = subnet[p]
           /\ \A p \in Profiles : HasNetwork(m, p) => HasNetwork(n, p)
<1> DEFINE net(p) == [ip |-> subnet[p], net |-> subnet[p]]
           w == [p \in Profiles |-> IF p \in created THEN AddNetwork(m.nets[p], net(p))
                                    ELSE m.nets[p]]
<1>1. \A p \in Profiles : m.nets[p] \in NetLists /\ net(p) \in Nets /\ net(p).net = subnet[p]
  BY ModelFields DEF Fields, Values, Nets
<1>2. created \subseteq Profiles
  BY CreatedAssumption DEF Profiles
<1>3. SaveNetworks(m, created, subnet) = [m EXCEPT !.nets = w]
  BY DEF SaveNetworks
<1>7. \A p \in Profiles : w[p] = IF p \in created THEN AddNetwork(m.nets[p], net(p)) ELSE m.nets[p]
  OBVIOUS
<1>8. w = [p \in Profiles |-> w[p]]
  OBVIOUS
<1> HIDE DEF w, net
<1>4. \A p \in Profiles : /\ w[p] \in NetLists /\ (m.nets[p] # <<>> => w[p] # <<>>)
                          /\ p \in created => w[p] # <<>> /\ w[p][Len(w[p])].net = subnet[p]
  BY <1>1, <1>7, AddedNetwork
<1>5. "nets" \in Fields /\ w \in Values("nets")
  BY <1>4, <1>8 DEF Fields, Values
<1>6. [m EXCEPT !.nets = w] \in Models /\ SameBut(m, [m EXCEPT !.nets = w], {"nets"})
      /\ [m EXCEPT !.nets = w].nets = w
  BY <1>5, SetOne
<1> QED BY <1>2, <1>3, <1>4, <1>6 DEF HasNetwork

LEMMA AddNodesSets ==
    ASSUME NEW m \in Models, NEW q \in 1..MaxNodes
    PROVE  LET n == AddNodes(m, q) IN
           /\ n \in Models /\ SameBut(m, n, {"topology", "nodes"})
           /\ \A i \in 1..q : n.nodes[i] > 0
           /\ \A i \in 1..MaxNodes : m.nodes[i] > 0 => n.nodes[i] > 0
<1> DEFINE w == [i \in 1..MaxNodes |-> IF i <= q /\ m.nodes[i] < 2 THEN m.nodes[i] + 1
                                       ELSE m.nodes[i]]
           k == [m EXCEPT !.topology = TRUE]
<1>1. m.nodes \in [1..MaxNodes -> Nat]
  BY ModelFields DEF Fields, Values
<1>2. k \in Models /\ SameBut(m, k, {"topology"})
  <2>1. "topology" \in Fields /\ TRUE \in Values("topology")
    BY DEF Fields, Values
  <2> QED BY <2>1, SetOne
<1>3. AddNodes(m, q) = [k EXCEPT !.nodes = w]
  <2>1. k.nodes = m.nodes /\ m = [f \in Fields |-> m[f]]
    BY <1>2, ModelFields DEF SameBut, Fields
  <2> QED BY <2>1 DEF AddNodes, Fields
<1>4. /\ w \in [1..MaxNodes -> Nat]
      /\ \A i \in 1..q : w[i] > 0
      /\ \A i \in 1..MaxNodes : m.nodes[i] > 0 => w[i] > 0
  <2>1. \A i \in 1..MaxNodes : m.nodes[i] \in Nat
    BY <1>1
  <2>2. \A i \in 1..MaxNodes : w[i] = IF i <= q /\ m.nodes[i] < 2 THEN m.nodes[i] + 1
                                     ELSE m.nodes[i]
    OBVIOUS
  <2>3. w = [i \in 1..MaxNodes |-> w[i]]
    OBVIOUS
  <2>4. \A i \in 1..q : i \in 1..MaxNodes /\ i <= q
    BY MaxNodesAssumption
  <2> HIDE DEF w, k
  <2>5. \A i \in 1..MaxNodes : /\ w[i] \in Nat /\ (m.nodes[i] > 0 => w[i] > 0)
                               /\ i <= q => w[i] > 0
    BY <2>1, <2>2
  <2> QED BY <2>3, <2>4, <2>5
<1> HIDE DEF w, k
<1>5. "nodes" \in Fields /\ w \in Values("nodes")
  BY <1>4 DEF Fields, Values
<1>6. [k EXCEPT !.nodes = w] \in Models /\ SameBut(k, [k EXCEPT !.nodes = w], {"nodes"})
      /\ [k EXCEPT !.nodes = w].nodes = w
  BY <1>2, <1>5, SetOne
<1> QED BY <1>2, <1>3, <1>4, <1>6 DEF SameBut

-----------------------------------------------------------------------------
\* What another step's answer looks at is left alone.
LEMMA HoldsSame ==
    ASSUME NEW u, NEW m, NEW n, NEW a, HoldsAnswer(u, m, a),
           u \in ScalarSteps => n.scalar[u] = m.scalar[u],
           u = "networking" => n.nets = m.nets /\ n.ofed = m.ofed,
           u = "os" => n.disk = m.disk,
           u = "ohpc" => n.bundles = m.bundles,
           u = "nodes" => n.nets = m.nets /\ n.nodes = m.nodes,
           u = "queue" => n.queue = m.queue,
           u = "mail" => n.mail = m.mail
    PROVE  HoldsAnswer(u, n, a)
BY DEF HoldsAnswer, HoldsNetworks, HoldsNodes, HasNetwork

LEMMA SameFields ==
    ASSUME NEW m, NEW n, NEW F, SameBut(m, n, F)
    PROVE  /\ "scalar" \notin F => n.scalar = m.scalar
           /\ "nets" \notin F => n.nets = m.nets
           /\ "ofed" \notin F => n.ofed = m.ofed
           /\ "disk" \notin F => n.disk = m.disk
           /\ "bundles" \notin F => n.bundles = m.bundles
           /\ "nodes" \notin F => n.nodes = m.nodes
           /\ "queue" \notin F => n.queue = m.queue
           /\ "mail" \notin F => n.mail = m.mail
BY DEF SameBut, Fields

\* The kinds of answers.
LEMMA AnswerKinds ==
    ASSUME NEW s, NEW a \in StepAnswers(s)
    PROVE  /\ s \in ScalarSteps => a = "given"
           /\ s = "networking" => /\ a.created \in Created /\ a.subnet \in [Profiles -> Subnets]
                                   /\ a.ofed \in OFEDKinds \cup {"none"}
           /\ s = "os" => a \in {"local", "download"}
           /\ s = "ohpc" => a \in {"none", "some"}
           /\ s = "nodes" => a \in 1..MaxNodes
           /\ s = "queue" => a \in Queues
           /\ s = "mail" => a \in BOOLEAN
BY DEF StepAnswers, ScalarSteps

\* A presenter that returns has put its answer into the model and has taken
\* nothing of another step's answer out of it.
LEMMA CompleteHolds ==
    ASSUME NEW s \in StepNames, NEW a \in StepAnswers(s), NEW m \in Models, NEW p \in BOOLEAN,
           NEW r \in CompleteAnswer(s, a, m, p)
    PROVE  /\ r.model \in Models /\ HoldsAnswer(s, r.model, a)
           /\ r.pending = IF s = "os" THEN a = "download" ELSE p
           /\ \A u \in StepNames \ {s} : \A c :
                  HoldsAnswer(u, m, c) => HoldsAnswer(u, r.model, c)
<1> USE DEF Pair
<1>1. CASE s \in ScalarSteps
  <2> DEFINE n == WithScalar(m, s, a)
  <2>1. r = Pair(n, p)
    <3>1. CompleteAnswer(s, a, m, p) = {Pair(n, p)}
      BY <1>1 DEF CompleteAnswer, WithScalar, ScalarSteps
    <3> QED BY <3>1
  <2>2. a \in Scalars
    BY <1>1, AnswerKinds DEF Scalars
  <2>3. /\ n \in Models /\ SameBut(m, n, {"scalar"}) /\ n.scalar[s] = a
        /\ \A u \in ScalarSteps \ {s} : n.scalar[u] = m.scalar[u]
    BY <1>1, <2>2, SetScalar
  <2> HIDE DEF n
  <2>4. HoldsAnswer(s, n, a)
    BY <1>1, <2>3 DEF HoldsAnswer, ScalarSteps
  <2>5. \A u \in StepNames \ {s} : \A c : HoldsAnswer(u, m, c) => HoldsAnswer(u, n, c)
    BY <2>3, SameFields, HoldsSame
  <2> QED BY <1>1, <2>1, <2>3, <2>4, <2>5 DEF ScalarSteps
<1>2. CASE s = "networking"
  <2> DEFINE k == ChooseOFED(m, a.ofed)
             n == SaveNetworks(k, a.created, a.subnet)
  <2>1. r = Pair(n, p)
    BY <1>2 DEF CompleteAnswer, ScalarSteps
  <2>2. a.created \in Created /\ a.subnet \in [Profiles -> Subnets] /\ a.ofed \in OFEDKinds \cup {"none"}
    BY <1>2, AnswerKinds
  <2>3. k \in Models /\ SameBut(m, k, {"ofed"}) /\ (a.ofed # "none" => k.ofed = a.ofed)
    BY <2>2, ChooseOFEDSets
  <2> HIDE DEF k
  <2>4. /\ n \in Models /\ SameBut(k, n, {"nets"})
        /\ \A q \in a.created : HasNetwork(n, q) /\ n.nets[q][Len(n.nets[q])].net = a.subnet[q]
        /\ \A q \in Profiles : HasNetwork(k, q) => HasNetwork(n, q)
    BY <2>2, <2>3, SaveNetworksSets
  <2> HIDE DEF n
  <2>5. /\ n.scalar = m.scalar /\ n.disk = m.disk /\ n.bundles = m.bundles /\ n.nodes = m.nodes
        /\ n.queue = m.queue /\ n.mail = m.mail /\ n.ofed = k.ofed /\ k.nets = m.nets
    BY <2>3, <2>4, SameFields
  <2>6. HoldsAnswer(s, n, a)
    BY <1>2, <2>3, <2>4, <2>5 DEF HoldsAnswer, HoldsNetworks, ScalarSteps
  <2>7. ASSUME NEW u \in StepNames \ {s}, NEW c, HoldsAnswer(u, m, c)
        PROVE  HoldsAnswer(u, n, c)
    <3>1. CASE u = "nodes"
      BY <2>4, <2>5, <2>7, <3>1
              DEF HoldsAnswer, HoldsNodes, HasNetwork, ScalarSteps, Profiles
    <3>2. CASE u # "nodes"
      BY <1>2, <2>5, <2>7, <3>2, HoldsSame
    <3> QED BY <3>1, <3>2
  <2> QED BY <1>2, <2>1, <2>4, <2>6, <2>7
<1>3. CASE s = "os"
  <2> DEFINE n == ChooseImage(m, a).model
  <2>1. r = ChooseImage(m, a) /\ a \in {"local", "download"}
    BY <1>3, AnswerKinds DEF CompleteAnswer, ScalarSteps
  <2>2. /\ n \in Models /\ SameBut(m, n, {"disk"}) /\ r.pending = (a = "download")
        /\ n.disk = IF a = "download" THEN "planned" ELSE "local"
    BY <2>1, ChooseImageSets
  <2>3. r.model = n
    BY <2>1
  <2> HIDE DEF n
  <2>4. HoldsAnswer(s, n, a)
    BY <1>3, <2>1, <2>2 DEF HoldsAnswer, ScalarSteps
  <2>5. \A u \in StepNames \ {s} : \A c : HoldsAnswer(u, m, c) => HoldsAnswer(u, n, c)
    BY <1>3, <2>2, SameFields, HoldsSame
  <2> QED BY <1>3, <2>2, <2>3, <2>4, <2>5
<1>4. CASE s = "ohpc"
  <2> DEFINE n == [m EXCEPT !.bundles = a]
  <2>1. r = Pair(n, p) /\ a \in {"none", "some"}
    BY <1>4, AnswerKinds DEF CompleteAnswer, ScalarSteps
  <2>2. "bundles" \in Fields /\ a \in Values("bundles")
    BY <2>1 DEF Fields, Values
  <2>3. n \in Models /\ SameBut(m, n, {"bundles"}) /\ n.bundles = a
    BY <2>2, SetOne
  <2> HIDE DEF n
  <2>4. HoldsAnswer(s, n, a)
    BY <1>4, <2>3 DEF HoldsAnswer, ScalarSteps
  <2>5. \A u \in StepNames \ {s} : \A c : HoldsAnswer(u, m, c) => HoldsAnswer(u, n, c)
    BY <1>4, <2>3, SameFields, HoldsSame
  <2> QED BY <1>4, <2>1, <2>3, <2>4, <2>5
<1>5. CASE s = "nodes"
  <2> DEFINE n == AddNodes(m, a)
  <2>1. r = Pair(n, p) /\ a \in 1..MaxNodes /\ HasNetwork(m, "Management")
    BY <1>5, AnswerKinds DEF CompleteAnswer, ScalarSteps
  <2>2. n \in Models /\ SameBut(m, n, {"topology", "nodes"}) /\ \A i \in 1..a : n.nodes[i] > 0
    BY <2>1, AddNodesSets
  <2> HIDE DEF n
  <2>3. HoldsAnswer(s, n, a)
    BY <1>5, <2>1, <2>2, SameFields DEF HoldsAnswer, HoldsNodes, HasNetwork, ScalarSteps
  <2>4. \A u \in StepNames \ {s} : \A c : HoldsAnswer(u, m, c) => HoldsAnswer(u, n, c)
    BY <1>5, <2>2, SameFields, HoldsSame
  <2> QED BY <1>5, <2>1, <2>2, <2>3, <2>4
<1>6. CASE s = "queue"
  <2> DEFINE n == [m EXCEPT !.queue = a]
  <2>1. r = Pair(n, p) /\ a \in Queues
    BY <1>6, AnswerKinds DEF CompleteAnswer, ScalarSteps
  <2>2. "queue" \in Fields /\ a \in Values("queue")
    BY <2>1 DEF Fields, Values
  <2>3. n \in Models /\ SameBut(m, n, {"queue"}) /\ n.queue = a
    BY <2>2, SetOne
  <2> HIDE DEF n
  <2>4. HoldsAnswer(s, n, a)
    BY <1>6, <2>3 DEF HoldsAnswer, ScalarSteps
  <2>5. \A u \in StepNames \ {s} : \A c : HoldsAnswer(u, m, c) => HoldsAnswer(u, n, c)
    BY <1>6, <2>3, SameFields, HoldsSame
  <2> QED BY <1>6, <2>1, <2>3, <2>4, <2>5
<1>7. CASE s = "mail"
  <2> DEFINE n == ChooseMail(m, a)
  <2>1. r = Pair(n, p) /\ a \in BOOLEAN
    BY <1>7, AnswerKinds DEF CompleteAnswer, ScalarSteps
  <2>2. n \in Models /\ SameBut(m, n, {"mail"}) /\ (a => n.mail)
    BY <2>1, ChooseMailSets
  <2> HIDE DEF n
  <2>3. HoldsAnswer(s, n, a)
    BY <1>7, <2>2 DEF HoldsAnswer, ScalarSteps
  <2>4. \A u \in StepNames \ {s} : \A c : HoldsAnswer(u, m, c) => HoldsAnswer(u, n, c)
    BY <1>7, <2>2, SameFields, HoldsSame
  <2> QED BY <1>7, <2>1, <2>2, <2>3, <2>4
<1>8. CASE s = "preflight"
  <2>1. r = Pair(m, p)
    BY <1>8 DEF CompleteAnswer, ScalarSteps
  <2> QED BY <1>8, <2>1 DEF HoldsAnswer, ScalarSteps
<1> QED
  BY <1>1, <1>2, <1>3, <1>4, <1>5, <1>6, <1>7, <1>8, StepNamesAre DEF ScalarSteps

\* A presenter that is left half way takes nothing of another step's answer out of
\* the model.
LEMMA PartialHolds ==
    ASSUME NEW s \in StepNames, NEW m \in Models, NEW p \in BOOLEAN,
           NEW r \in PartialAnswer(s, m, p)
    PROVE  /\ r.model \in Models /\ r.pending \in BOOLEAN
           /\ s # "os" => r.pending = p
           /\ \A u \in StepNames \ {s} : \A c :
                  HoldsAnswer(u, m, c) => HoldsAnswer(u, r.model, c)
<1> USE DEF Pair
<1>1. CASE r = Pair(m, p)
  BY <1>1
<1>2. CASE s \in {"time", "hostname"} /\ r = Pair(WithScalar(m, s, "partial"), p)
  <2> DEFINE n == WithScalar(m, s, "partial")
  <2>1. s \in ScalarSteps /\ "partial" \in Scalars
    BY <1>2 DEF ScalarSteps, Scalars
  <2>2. /\ n \in Models /\ SameBut(m, n, {"scalar"})
        /\ \A u \in ScalarSteps \ {s} : n.scalar[u] = m.scalar[u]
    BY <2>1, SetScalar
  <2> HIDE DEF n
  <2>3. \A u \in StepNames \ {s} : \A c : HoldsAnswer(u, m, c) => HoldsAnswer(u, n, c)
    BY <2>2, SameFields, HoldsSame
  <2> QED BY <1>2, <2>2, <2>3 DEF n
<1>3. CASE s = "networking" /\ \E k \in OFEDKinds : r = Pair(ChooseOFED(m, k), p)
  <2>1. PICK k \in OFEDKinds : r = Pair(ChooseOFED(m, k), p)
    BY <1>3
  <2> DEFINE n == ChooseOFED(m, k)
  <2>2. n \in Models /\ SameBut(m, n, {"ofed"})
    BY ChooseOFEDSets
  <2> HIDE DEF n
  <2>3. \A u \in StepNames \ {s} : \A c : HoldsAnswer(u, m, c) => HoldsAnswer(u, n, c)
    BY <1>3, <2>2, SameFields, HoldsSame
  <2> QED BY <1>3, <2>1, <2>2, <2>3 DEF n
<1>4. CASE s = "os" /\ r = ChooseImage(m, "local")
  <2> DEFINE n == ChooseImage(m, "local").model
  <2>1. n \in Models /\ SameBut(m, n, {"disk"}) /\ r.pending = FALSE
    BY <1>4, ChooseImageSets
  <2>2. r.model = n
    BY <1>4
  <2> HIDE DEF n
  <2>3. \A u \in StepNames \ {s} : \A c : HoldsAnswer(u, m, c) => HoldsAnswer(u, n, c)
    BY <1>4, <2>1, SameFields, HoldsSame
  <2> QED BY <1>4, <2>1, <2>2, <2>3
<1>5. CASE s = "nodes" /\ r = Pair([m EXCEPT !.topology = TRUE], p)
  <2> DEFINE n == [m EXCEPT !.topology = TRUE]
  <2>1. "topology" \in Fields /\ TRUE \in Values("topology")
    BY DEF Fields, Values
  <2>2. n \in Models /\ SameBut(m, n, {"topology"})
    BY <2>1, SetOne
  <2> HIDE DEF n
  <2>3. \A u \in StepNames \ {s} : \A c : HoldsAnswer(u, m, c) => HoldsAnswer(u, n, c)
    BY <1>5, <2>2, SameFields, HoldsSame
  <2> QED BY <1>5, <2>2, <2>3 DEF n
<1>6. CASE s = "nodes" /\ \E q \in 1..(MaxNodes - 1) : r = Pair(AddNodes(m, q), p)
  <2>1. PICK q \in 1..(MaxNodes - 1) : r = Pair(AddNodes(m, q), p)
    BY <1>6
  <2>2. q \in 1..MaxNodes
    BY MaxNodesAssumption
  <2> DEFINE n == AddNodes(m, q)
  <2>3. n \in Models /\ SameBut(m, n, {"topology", "nodes"})
    BY <2>2, AddNodesSets
  <2> HIDE DEF n
  <2>4. \A u \in StepNames \ {s} : \A c : HoldsAnswer(u, m, c) => HoldsAnswer(u, n, c)
    BY <1>6, <2>3, SameFields, HoldsSame
  <2> QED BY <1>6, <2>1, <2>3, <2>4 DEF n
<1>7. CASE s = "queue" /\ \E q \in Queues : r = Pair([m EXCEPT !.queue = q], p)
  <2>1. PICK q \in Queues : r = Pair([m EXCEPT !.queue = q], p)
    BY <1>7
  <2> DEFINE n == [m EXCEPT !.queue = q]
  <2>2. "queue" \in Fields /\ q \in Values("queue")
    BY DEF Fields, Values
  <2>3. n \in Models /\ SameBut(m, n, {"queue"})
    BY <2>2, SetOne
  <2> HIDE DEF n
  <2>4. \A u \in StepNames \ {s} : \A c : HoldsAnswer(u, m, c) => HoldsAnswer(u, n, c)
    BY <1>7, <2>3, SameFields, HoldsSame
  <2> QED BY <1>7, <2>1, <2>3, <2>4 DEF n
<1>8. CASE s = "mail" /\ r = Pair(ChooseMail(m, TRUE), p)
  <2> DEFINE n == ChooseMail(m, TRUE)
  <2>1. n \in Models /\ SameBut(m, n, {"mail"})
    BY ChooseMailSets
  <2> HIDE DEF n
  <2>2. \A u \in StepNames \ {s} : \A c : HoldsAnswer(u, m, c) => HoldsAnswer(u, n, c)
    BY <1>8, <2>1, SameFields, HoldsSame
  <2> QED BY <1>8, <2>1, <2>2 DEF n
<1> HIDE DEF Pair
<1>9. \/ r = Pair(m, p)
      \/ s \in {"time", "hostname"} /\ r = Pair(WithScalar(m, s, "partial"), p)
      \/ s = "networking" /\ \E k \in OFEDKinds : r = Pair(ChooseOFED(m, k), p)
      \/ s = "os" /\ r = ChooseImage(m, "local")
      \/ s = "nodes" /\ r = Pair([m EXCEPT !.topology = TRUE], p)
      \/ s = "nodes" /\ \E q \in 1..(MaxNodes - 1) : r = Pair(AddNodes(m, q), p)
      \/ s = "queue" /\ \E q \in Queues : r = Pair([m EXCEPT !.queue = q], p)
      \/ s = "mail" /\ r = Pair(ChooseMail(m, TRUE), p)
  BY DEF PartialAnswer, Pair, WithScalar
<1> QED BY <1>1, <1>2, <1>3, <1>4, <1>5, <1>6, <1>7, <1>8, <1>9

\* The networks that are read back have the settings of the last ones.
LEMMA ReadNetworksKeeps ==
    ASSUME NEW m \in Models
    PROVE  /\ ReadNetworks(m) \in [Profiles -> NetLists]
           /\ \A p \in Profiles :
                 /\ m.nets[p] # <<>> => ReadNetworks(m)[p] # <<>>
                 /\ m.nets[p] # <<>> =>
                      ReadNetworks(m)[p][Len(ReadNetworks(m)[p])].net = m.nets[p][Len(m.nets[p])].net
<1>1. \A p \in Profiles : m.nets[p] \in NetLists
  BY ModelFields DEF Fields, Values
<1>2. /\ ReadNetworks(m) = [p \in Profiles |-> ReadNetworks(m)[p]]
      /\ \A p \in Profiles : ReadNetworks(m)[p] = DumpNetwork(m.nets[p])
  BY DEF ReadNetworks
<1> QED BY <1>1, <1>2, DumpedNetwork

\* What applyDraftToModel makes of a draft holds every answer that was saved, and
\* the download it still waits for.  An image that was planned is only kept with
\* its download.
LEMMA DraftHolds ==
    ASSUME NEW m \in Models, NEW p \in BOOLEAN, NEW dry \in BOOLEAN,
           NEW r \in DraftToModel(m, p, dry)
    PROVE  /\ r.model \in Models /\ r.pending \in BOOLEAN
           /\ \A u \in StepNames \ {"os"} : \A c \in StepAnswers(u) :
                  HoldsAnswer(u, m, c) => HoldsAnswer(u, r.model, c)
           /\ \A c \in {"local", "download"} :
                  HoldsAnswer("os", m, c) /\ p = (c = "download") =>
                      HoldsAnswer("os", r.model, c) /\ r.pending = p
<1> DEFINE read == [m EXCEPT !.nets = ReadNetworks(m), !.nodes = ReadNodes(m),
                             !.bundles = ReadBundles(@)]
           bare == [read EXCEPT !.disk = Unset]
           n == r.model
<1>1. m = [f \in Fields |-> m[f]] /\ \A f \in Fields : m[f] \in Values(f)
  BY ModelFields
<1>2. /\ read = [f \in Fields |-> read[f]]
      /\ read.nets = ReadNetworks(m) /\ read.nodes = ReadNodes(m)
      /\ read.bundles = ReadBundles(m.bundles) /\ read.disk = m.disk
      /\ read.scalar = m.scalar /\ read.ofed = m.ofed /\ read.topology = m.topology
      /\ read.queue = m.queue /\ read.mail = m.mail
  BY <1>1 DEF Fields
<1>3. \A f \in Fields : read[f] \in Values(f)
  <2>1. ReadNetworks(m) \in Values("nets")
    BY ReadNetworksKeeps DEF Values
  <2>2. ReadNodes(m) \in Values("nodes")
    BY <1>1 DEF ReadNodes, Fields, Values
  <2>3. ReadBundles(m.bundles) \in Values("bundles")
    BY <1>1 DEF ReadBundles, Fields, Values
  <2> HIDE DEF read
  <2> QED BY <1>1, <1>2, <2>1, <2>2, <2>3 DEF Fields
<1> HIDE DEF read
<1>4. read \in Models
  BY <1>2, <1>3, MakeModel
<1>5. bare \in Models /\ SameBut(read, bare, {"disk"}) /\ bare.disk = Unset
  <2>1. "disk" \in Fields /\ Unset \in Values("disk")
    BY DEF Fields, Values
  <2> QED BY <1>4, <2>1, SetOne
<1>6. \/ n = read /\ r.pending = p /\ p # FALSE /\ m.disk # Unset
      \/ n \in {read, bare} /\ r.pending = FALSE /\ (p = FALSE \/ m.disk = Unset)
  <2>1. CASE p # FALSE /\ m.disk # Unset
    <3>1. DraftToModel(m, p, dry) = {Pair(read, p)}
      BY <2>1 DEF DraftToModel, read, Pair
    <3>2. r = Pair(read, p)
      BY <3>1
    <3>3. r.model = read /\ r.pending = p
      BY <3>2 DEF Pair
    <3> HIDE DEF bare
    <3> QED BY <2>1, <3>3
  <2>2. CASE ~(p # FALSE /\ m.disk # Unset)
    <3>1. PICK there \in ImageStillThere(m.disk, dry) :
              r = [model |-> [read EXCEPT !.disk = IF there THEN @ ELSE Unset], pending |-> FALSE]
      BY <2>2 DEF DraftToModel, read
    <3>2. there \in BOOLEAN
      BY DEF ImageStillThere
    <3>3. CASE there = TRUE
      <4>1. [read EXCEPT !.disk = IF there THEN @ ELSE Unset] = read
        BY <1>2, <3>3
      <4> QED BY <2>2, <3>1, <4>1
    <3>4. CASE there = FALSE
      BY <2>2, <3>1, <3>4
    <3> QED BY <3>2, <3>3, <3>4
  <2> QED BY <2>1, <2>2
<1> HIDE DEF bare, n
<1>7. /\ n \in Models /\ n.nets = ReadNetworks(m) /\ n.nodes = ReadNodes(m)
      /\ n.bundles = ReadBundles(m.bundles) /\ n.scalar = m.scalar /\ n.ofed = m.ofed
      /\ n.queue = m.queue /\ n.mail = m.mail /\ n.disk \in {m.disk, Unset}
  <2>1. /\ bare.nets = read.nets /\ bare.nodes = read.nodes /\ bare.bundles = read.bundles
        /\ bare.scalar = read.scalar /\ bare.ofed = read.ofed /\ bare.queue = read.queue
        /\ bare.mail = read.mail
    BY <1>5, SameFields
  <2>2. CASE n = read
    BY <1>2, <1>4, <2>2
  <2>3. CASE n = bare
    BY <1>2, <1>5, <2>1, <2>3
  <2> QED BY <1>6, <2>2, <2>3
<1>8. ASSUME NEW u \in StepNames \ {"os"}, NEW c \in StepAnswers(u), HoldsAnswer(u, m, c)
      PROVE  HoldsAnswer(u, n, c)
  <2>1. CASE u = "networking"
    <3>1. c.created \subseteq Profiles
      BY <2>1, AnswerKinds, CreatedAssumption DEF Profiles
    <3>2. HoldsNetworks(m, c)
      BY <1>8, <2>1 DEF HoldsAnswer
    <3>3. HoldsNetworks(n, c)
      BY <1>7, <3>1, <3>2, ReadNetworksKeeps DEF HoldsNetworks, HasNetwork
    <3> QED BY <2>1, <3>3 DEF HoldsAnswer, ScalarSteps
  <2>2. CASE u = "nodes"
    <3>1. HoldsNodes(m, c)
      BY <1>8, <2>2 DEF HoldsAnswer
    <3>2. HoldsNodes(n, c)
      BY <1>7, <3>1, ReadNetworksKeeps DEF HoldsNodes, HasNetwork, ReadNodes, Profiles
    <3> QED BY <2>2, <3>2 DEF HoldsAnswer, ScalarSteps
  <2>3. CASE u = "ohpc"
    BY <1>7, <1>8, <2>3, AnswerKinds DEF HoldsAnswer, ScalarSteps, ReadBundles, Unset
  <2>4. CASE u \notin {"networking", "nodes", "ohpc"}
    BY <1>7, <1>8, <2>4, HoldsSame
  <2> QED BY <2>1, <2>2, <2>3, <2>4
<1>9. ASSUME NEW c \in {"local", "download"}, HoldsAnswer("os", m, c), p = (c = "download")
      PROVE  HoldsAnswer("os", n, c) /\ r.pending = p
  <2>1. m.disk \in (IF c = "download" THEN {"planned"} ELSE {"local", Unset})
    BY <1>9 DEF HoldsAnswer
  <2>2. r.pending = p /\ n.disk \in (IF c = "download" THEN {"planned"} ELSE {"local", Unset})
    BY <1>2, <1>6, <1>7, <1>9, <2>1 DEF Unset
  <2> QED BY <2>2 DEF HoldsAnswer, ScalarSteps
<1> QED BY <1>6, <1>7, <1>8, <1>9 DEF n

\* What fillData makes is a model.
LEMMA FillType ==
    ASSUME NEW m \in Models, NEW dry, NEW n \in FillModel(m, dry)
    PROVE  n \in Models
<1>1. m = [f \in Fields |-> m[f]] /\ \A f \in Fields : m[f] \in Values(f)
  BY ModelFields
<1> DEFINE w == [m.scalar EXCEPT !["time"] = "partial"]
<1>2. n = [m EXCEPT !.nets = ReadNetworks(m), !.queue = FilledQueue(@),
                    !.ofed = FilledOFED(@), !.scalar = w]
  BY DEF FillModel
<1>3. w \in Values("scalar")
  BY <1>1 DEF Fields, Values
<1> HIDE DEF w
<1>4. /\ n = [f \in Fields |-> n[f]]
      /\ n.nets = ReadNetworks(m) /\ n.queue = FilledQueue(m.queue) /\ n.ofed = FilledOFED(m.ofed)
      /\ n.scalar = w /\ n.disk = m.disk /\ n.bundles = m.bundles /\ n.topology = m.topology
      /\ n.nodes = m.nodes /\ n.mail = m.mail
  BY <1>1, <1>2 DEF Fields
<1>5. ReadNetworks(m) \in Values("nets")
  BY ReadNetworksKeeps DEF Values
<1>6. FilledQueue(m.queue) \in Values("queue") /\ FilledOFED(m.ofed) \in Values("ofed")
  BY <1>1 DEF FilledQueue, FilledOFED, Fields, Values
<1>7. \A f \in Fields : n[f] \in Values(f)
  BY <1>1, <1>3, <1>4, <1>5, <1>6 DEF Fields
<1> QED BY <1>4, <1>7, MakeModel

\* The record of an answer.
LEMMA RecordType ==
    ASSUME NEW t, Record(t), NEW s \in StepNames, NEW a \in StepAnswers(s)
    PROVE  /\ Record(RecordAnswer(t, s, a)) /\ RecordAnswer(t, s, a)[s] = <<a>>
           /\ \A u \in StepNames \ {s} : RecordAnswer(t, s, a)[u] = t[u]
BY DEF Record, RecordAnswer

-----------------------------------------------------------------------------
\* The files and the processes.

FilesKeep == \A f \in Paths : FileAnswers(files[f]) /\ FileHolds(files[f])

LEMMA EmptyFiles ==
    ASSUME Bound
    PROVE  FileAnswers(NoFile) /\ FileHolds(NoFile) /\ FileAnswers(Torn) /\ FileHolds(Torn)
BY InitialType, NothingRecord DEF Bound, NoFile, Torn, FileAnswers, FileHolds

LEMMA SameFiles ==
    ASSUME FilesKeep, files' = files
    PROVE  FilesKeep'
BY DEF FilesKeep, FileAnswers, FileHolds, Holds, Awaits, Record

LEMMA WrittenFile ==
    ASSUME IInv, FilesKeep, NEW p \in Paths, NEW f, FileAnswers(f), FileHolds(f),
           files' = [files EXCEPT ![p] = f]
    PROVE  FilesKeep'
<1>1. \A g \in Paths : files'[g] = IF g = p THEN f ELSE files[g]
  BY DEF IInv, TypeOK, FilesType
<1>2. \A g \in Paths : files'[g] = f \/ files'[g] = files[g]
  BY <1>1
<1>3. \A g \in Paths : FileAnswers(files'[g]) /\ FileHolds(files'[g])
  BY <1>2 DEF FilesKeep
<1> QED BY <1>3 DEF FilesKeep

\* A process that ends.
LEMMA ExitAnswers ==
    ASSUME Bound, NEW status, Exit(status), FilesKeep'
    PROVE  AnswersInv'
<1>1. /\ phase' = "off" /\ model' = EmptyModel /\ pending' = FALSE /\ told' = NoAnswers
      /\ save'.why = "none" /\ save'.stage = "idle"
  BY DEF Exit
<1>2. model' \in Models /\ Record(told')
  BY <1>1, InitialType, NothingRecord DEF Bound
<1> QED BY <1>1, <1>2
        DEF AnswersInv, AnswersType, CompletedAnswersHold, FilesKeep, Answering, Asking

\* A process that enters the questionnaire.
LEMMA EnterAnswers ==
    ASSUME NEW n \in 0..Len(Steps), EnterQuestionnaire(Prefix(n)),
           AnswersInv, phase \in {"off", "ask"}, save' = save, files' = files,
           model' \in Models, pending' \in BOOLEAN, Record(told'),
           Holds(n, model', told'), Awaits(n, told', pending')
    PROVE  AnswersInv'
<1>1. phase' = "steps" /\ stepIndex' = n
  BY EnterPrefix
<1>2. save'.why \notin {"complete", "output"}
  BY DEF AnswersInv
<1>3. FilesKeep'
  BY SameFiles DEF FilesKeep, AnswersInv, AnswersType
<1>4. Holds(stepIndex', model', told') /\ Awaits(stepIndex', told', pending')
  BY <1>1
<1> QED BY <1>1, <1>2, <1>3, <1>4
        DEF AnswersInv, AnswersType, CompletedAnswersHold, FilesKeep, Answering, Asking

LEMMA NothingToHold == \A m, t, p : Holds(0, m, t) /\ Awaits(0, t, p)
BY DEF Holds, Awaits

\* Steps are told apart by their places in the list.
LEMMA StepAt ==
    ASSUME Bound, NEW i \in 1..Len(Steps)
    PROVE  Steps[i] \in StepNames /\ \A j \in 1..Len(Steps) : Steps[j] = Steps[i] => j = i
BY StepsAssumption DEF Bound

\* Of a record that holds the answer to a step: the answer is one of that step.
LEMMA Answered ==
    ASSUME NEW t, Record(t), NEW s \in StepNames, t[s] # <<>>
    PROVE  t[s][1] \in StepAnswers(s) /\ t[s] = <<t[s][1]>>
BY DEF Record

\* A draft that is resumed: loadDraftState and applyDraftToModel.
LEMMA ResumeAnswers ==
    ASSUME Bound, IInv, AnswersInv, NEW f \in Paths, IsDraft(files[f]), Resume(files[f]),
           opts'.dryRun \in BOOLEAN, phase \in {"off", "ask"}, save' = save, files' = files
    PROVE  AnswersInv'
<1> DEFINE d == files[f]
<1>1. PICK n \in 0..Len(Steps) : d.steps = Prefix(n)
  BY DEF IInv, FilesListPrefix, IsDraft
<1>2. Len(d.steps) = n /\ EnterQuestionnaire(Prefix(n)) /\ told' = d.told
  BY <1>1, PrefixType DEF Resume
<1>3. /\ FileAnswers(d) /\ Holds(n, d.body, d.told) /\ Awaits(n, d.told, d.pending)
  BY <1>2 DEF AnswersInv, AnswersType, FileHolds, IsDraft
<1>4. PICK r \in DraftToModel(d.body, d.pending, opts'.dryRun) :
          model' = r.model /\ pending' = r.pending
  BY DEF Resume, Bound
<1> HIDE DEF d
<1>5. d.body \in Models /\ d.pending \in BOOLEAN /\ Record(d.told)
  BY <1>3 DEF FileAnswers
<1>6. /\ model' \in Models /\ pending' \in BOOLEAN
      /\ \A u \in StepNames \ {"os"} : \A c \in StepAnswers(u) :
             HoldsAnswer(u, d.body, c) => HoldsAnswer(u, model', c)
      /\ \A c \in {"local", "download"} :
             HoldsAnswer("os", d.body, c) /\ d.pending = (c = "download") =>
                 HoldsAnswer("os", model', c) /\ pending' = d.pending
  BY <1>4, <1>5, DraftHolds
<1>7. ASSUME NEW i \in 1..n
      PROVE  /\ d.told[Steps[i]] # <<>> /\ HoldsAnswer(Steps[i], model', d.told[Steps[i]][1])
             /\ Steps[i] = "os" => pending' = d.pending
  <2>1. i \in 1..Len(Steps)
    BY StepsAssumption
  <2>2. /\ Steps[i] \in StepNames /\ d.told[Steps[i]] # <<>>
        /\ HoldsAnswer(Steps[i], d.body, d.told[Steps[i]][1])
    BY <1>3, <2>1, StepAt DEF Holds
  <2>3. d.told[Steps[i]][1] \in StepAnswers(Steps[i]) /\ d.told[Steps[i]] = <<d.told[Steps[i]][1]>>
    BY <1>5, <2>2, Answered
  <2>4. CASE Steps[i] = "os"
    <3>1. d.told["os"][1] \in {"local", "download"}
      BY <2>3, <2>4, AnswerKinds
    <3>2. d.pending = (d.told["os"] = <<"download">>)
      BY <1>3, <2>4 DEF Awaits
    <3>3. d.pending = (d.told["os"][1] = "download")
      BY <2>3, <2>4, <3>2
    <3> QED BY <1>6, <2>2, <2>4, <3>1, <3>3
  <2>5. CASE Steps[i] # "os"
    BY <1>6, <2>2, <2>3, <2>5
  <2> QED BY <2>4, <2>5
<1>8. Holds(n, model', told')
  BY <1>2, <1>7 DEF Holds
<1>9. Awaits(n, told', pending')
  BY <1>2, <1>3, <1>7 DEF Awaits
<1> QED BY <1>2, <1>5, <1>6, <1>8, <1>9, EnterAnswers

LEMMA InitAnswers ==
    ASSUME Bound, Init
    PROVE  AnswersInv
<1>1. \A f \in Paths : FileAnswers(files[f]) /\ FileHolds(files[f])
  BY EmptyFiles DEF Init
<1>2. model \in Models /\ pending \in BOOLEAN /\ Record(told)
  BY InitialType, NothingRecord DEF Init, Bound
<1>3. phase = "off" /\ save.why = "none"
  BY DEF Init
<1> QED BY <1>1, <1>2, <1>3
        DEF AnswersInv, AnswersType, CompletedAnswersHold, Answering, Asking

\* Starting the installer.
LEMMA LaunchAnswers ==
    ASSUME Bound, IInv, AnswersInv, Launch
    PROVE  AnswersInv'
<1>1. PICK o \in Launches : \/ LaunchFresh(o) \/ LaunchAsk(o) \/ LaunchDraft(o)
                            \/ LaunchAnswerfile(o) \/ LaunchRefused(o)
  BY DEF Launch
<1>2. /\ o.tui \in BOOLEAN /\ o.answerfile \in {"none", "draft", "output"}
      /\ o.dryRun \in BOOLEAN /\ o.dump \in BOOLEAN
  BY LaunchesAssumption
<1>3. Started(o) => phase = "off" /\ opts' = o /\ save' = save /\ files' = files
  BY DEF Started
<1>4. <<>> = Prefix(0) /\ 0 \in 0..Len(Steps)
  BY PrefixEnds, StepsAssumption
<1>5. model \in Models /\ pending \in BOOLEAN /\ Record(told) /\ FilesKeep
  BY DEF AnswersInv, AnswersType, FilesKeep
<1>6. CASE LaunchFresh(o)
  <2>1. EnterQuestionnaire(Prefix(0)) /\ Started(o) /\ UNCHANGED <<model, pending, told>>
    BY <1>4, <1>6 DEF LaunchFresh
  <2> QED BY <1>3, <1>4, <1>5, <2>1, NothingToHold, EnterAnswers
<1>7. CASE LaunchAsk(o)
  <2>1. phase' = "ask" /\ Started(o) /\ UNCHANGED <<model, pending, told, stepIndex>>
    BY <1>7 DEF LaunchAsk, memory
  <2>2. FilesKeep'
    BY <1>3, <1>5, <2>1, SameFiles
  <2>3. save'.why \notin {"complete", "output"}
    BY <1>3, <2>1 DEF AnswersInv
  <2> QED BY <1>5, <2>1, <2>2, <2>3
          DEF AnswersInv, AnswersType, CompletedAnswersHold, FilesKeep, Answering, Asking
<1>8. CASE LaunchDraft(o)
  <2>1. /\ o.answerfile \in Paths /\ Started(o)
        /\ IsDraft(files[o.answerfile]) /\ Resume(files[o.answerfile])
    BY <1>2, <1>8 DEF LaunchDraft, Paths
  <2> QED BY <1>2, <1>3, <2>1, ResumeAnswers
<1>9. CASE LaunchAnswerfile(o)
  <2>1. o.answerfile \in Paths /\ Started(o)
    BY <1>2, <1>9 DEF LaunchAnswerfile, Paths
  <2>2. /\ model' \in FillModel(files[o.answerfile].body, o.dryRun)
        /\ pending' = FALSE /\ told' = files[o.answerfile].told
    BY <1>9 DEF LaunchAnswerfile, Bound
  <2>3. model' \in Models /\ pending' \in BOOLEAN /\ Record(told')
    BY <1>5, <2>1, <2>2, FillType DEF FilesKeep, FileAnswers
  <2>4. CASE EnterQuestionnaire(<<>>)
    BY <1>3, <1>4, <2>1, <2>3, <2>4, NothingToHold, EnterAnswers
  <2>5. CASE phase' \in {"dump", "confirm"}
    <3>1. FilesKeep'
      BY <1>3, <1>5, <2>1, SameFiles
    <3> QED BY <2>3, <2>5, <3>1
            DEF AnswersInv, AnswersType, CompletedAnswersHold, FilesKeep, Answering, Asking
  <2> QED BY <1>9, <2>4, <2>5 DEF LaunchAnswerfile
<1>10. CASE LaunchRefused(o)
  <2>1. files' = files /\ Exit("refused")
    BY <1>10 DEF LaunchRefused
  <2> QED BY <1>5, <2>1, SameFiles, ExitAnswers
<1> QED BY <1>1, <1>6, <1>7, <1>8, <1>9, <1>10

\* What the caller of writeDraft does next.
LEMMA ReturnAnswers ==
    ASSUME Bound, IInv, AnswersInv, phase = "saving", NEW ok, SaveReturns(ok), FilesKeep'
    PROVE  AnswersInv'
<1>1. /\ model \in Models /\ pending \in BOOLEAN /\ Record(told)
      /\ Holds(stepIndex, model, told)
      /\ save.why \notin {"complete", "output"} => Awaits(stepIndex, told, pending)
  BY DEF AnswersInv, AnswersType, CompletedAnswersHold, Answering, Asking
<1>2. save \in [path : Paths, stage : {"idle", "dump", "tag"}, list : StepLists,
                complete : BOOLEAN,
                why : {"none", "step", "abort", "complete", "output"}]
  BY DEF IInv, TypeOK
<1>3. CASE AfterStepSave
  <2>1. /\ phase' = "steps" /\ save'.why = "step" /\ save'.stage = "idle" /\ save.why = "step"
        /\ model' = model /\ pending' = pending /\ told' = told /\ stepIndex' = stepIndex
    BY <1>2, <1>3 DEF AfterStepSave, memory
  <2>2. Holds(stepIndex', model', told') /\ Awaits(stepIndex', told', pending')
    BY <1>1, <2>1
  <2> QED BY <1>1, <2>1, <2>2
          DEF AnswersInv, AnswersType, CompletedAnswersHold, FilesKeep, Answering, Asking
<1>4. CASE AfterAbortSave(ok)
  BY <1>4, ExitAnswers DEF AfterAbortSave
<1>5. CASE AfterCompleteSave
  <2>1. /\ phase' = "saving" /\ save'.why = "output" /\ save'.stage = "dump"
        /\ model' = model /\ pending' = pending /\ told' = told /\ stepIndex' = stepIndex
    BY <1>5 DEF AfterCompleteSave, BeginSave, memory
  <2>2. Holds(stepIndex', model', told')
    BY <1>1, <2>1
  <2> QED BY <1>1, <2>1, <2>2
          DEF AnswersInv, AnswersType, CompletedAnswersHold, FilesKeep, Answering, Asking
<1>6. CASE AfterOutputSave(ok)
  <2>1. CASE ok /\ ~opts.dump /\ ~opts.dryRun
    <3>1. /\ phase' = "install"
          /\ model' = model /\ pending' = pending /\ told' = told /\ stepIndex' = stepIndex
      BY <1>6, <2>1 DEF AfterOutputSave, memory
    <3>2. Holds(stepIndex', model', told')
      BY <1>1, <3>1
    <3> QED BY <1>1, <3>1, <3>2
            DEF AnswersInv, AnswersType, CompletedAnswersHold, FilesKeep, Answering, Asking
  <2>2. CASE ~(ok /\ ~opts.dump /\ ~opts.dryRun)
    <3>1. Exit(IF ok THEN "finished" ELSE "failed")
      BY <1>6, <2>2 DEF AfterOutputSave
    <3> QED BY <3>1, ExitAnswers
  <2> QED BY <2>1, <2>2
<1> QED BY <1>3, <1>4, <1>5, <1>6 DEF SaveReturns

\* writeDraft.
LEMMA WriteAnswers ==
    ASSUME Bound, IInv, AnswersInv, WriteDraft
    PROVE  AnswersInv'
<1>1. FilesKeep /\ model \in Models /\ pending \in BOOLEAN /\ Record(told)
  BY DEF FilesKeep, AnswersInv, AnswersType
<1>2. phase = "saving" /\ save.path \in Paths
  BY
          DEF WriteDraft, SaveDump, SaveCannotOpen, SaveCutShort, SaveTag, SaveTagFails, IInv, TypeOK
<1>3. /\ Holds(stepIndex, model, told)
      /\ save.why \notin {"complete", "output"} => Awaits(stepIndex, told, pending)
  BY <1>2 DEF AnswersInv, CompletedAnswersHold, Answering, Asking
<1>4. CASE SaveDump
  <2> DEFINE f == Dumped(model, told)
  <2>1. FileAnswers(f) /\ FileHolds(f) /\ f.told = told
    BY <1>1 DEF Dumped, FileAnswers, FileHolds
  <2>2. /\ files' = [files EXCEPT ![save.path] = f] /\ phase' = phase
        /\ model' = model /\ pending' = pending /\ told' = told /\ stepIndex' = stepIndex
    BY <1>4 DEF SaveDump, memory
  <2> HIDE DEF f
  <2>3. FilesKeep'
    BY <1>1, <1>2, <2>1, <2>2, WrittenFile
  <2>4. save'.path = save.path /\ save'.why = save.why
    BY <1>4 DEF SaveDump, IInv, TypeOK
  <2>5. files'[save'.path].told = told'
    BY <1>2, <2>1, <2>2, <2>4 DEF IInv, TypeOK, FilesType
  <2>6. /\ Holds(stepIndex', model', told')
        /\ save'.why \notin {"complete", "output"} => Awaits(stepIndex', told', pending')
    BY <1>3, <2>2, <2>4
  <2> QED BY <1>1, <1>2, <2>2, <2>3, <2>5, <2>6
          DEF AnswersInv, AnswersType, CompletedAnswersHold, FilesKeep, Answering, Asking
<1>5. CASE SaveCannotOpen
  BY <1>1, <1>2, <1>5, SameFiles, ReturnAnswers DEF SaveCannotOpen
<1>6. CASE SaveCutShort
  <2>1. files' = [files EXCEPT ![save.path] = Torn] /\ SaveReturns(FALSE)
    BY <1>6 DEF SaveCutShort
  <2>2. FilesKeep'
    BY <1>1, <1>2, <2>1, EmptyFiles, WrittenFile
  <2> QED BY <1>2, <2>1, <2>2, ReturnAnswers
<1>7. CASE SaveTag
  <2> DEFINE g == files[save.path]
             f == Tagged(g, save.list, pending, save.complete)
  <2>1. files' = [files EXCEPT ![save.path] = f] /\ SaveReturns(TRUE) /\ save.stage = "tag"
    BY <1>7 DEF SaveTag
  <2>2. /\ g.body = model /\ g.told = told
        /\ save.list = Prefix(stepIndex) /\ stepIndex \in 0..Len(Steps)
        /\ save.complete = (save.why \in {"complete", "output"})
        /\ save.complete => stepIndex = Len(Steps) /\ pending = FALSE
    BY <1>2, <2>1 DEF IInv, TypeOK, HistoryIsPrefix, SessionInv, Asking, AnswersInv
  <2>3. Len(save.list) = stepIndex
    BY <2>2, PrefixType
  <2>4. /\ f.body = g.body /\ f.told = g.told /\ f.pending = pending
        /\ f.draft = ~save.complete /\ f.steps = save.list
    BY DEF Tagged
  <2> HIDE DEF f, g
  <2>5. FileAnswers(f)
    BY <1>1, <2>2, <2>4 DEF FileAnswers
  <2>6. FileHolds(f)
    BY <1>3, <2>2, <2>3, <2>4, PrefixEnds DEF FileHolds
  <2>7. FilesKeep'
    BY <1>1, <1>2, <2>1, <2>5, <2>6, WrittenFile
  <2> QED BY <1>2, <2>1, <2>7, ReturnAnswers
<1>8. CASE SaveTagFails
  BY <1>1, <1>2, <1>8, SameFiles, ReturnAnswers DEF SaveTagFails
<1> QED BY <1>4, <1>5, <1>6, <1>7, <1>8 DEF WriteDraft

\* A save that is begun with the place and the answers it is about.
LEMMA BeginAnswers ==
    ASSUME AnswersInv, NEW path, NEW list, NEW complete, NEW why,
           BeginSave(path, list, complete, why), files' = files,
           model' \in Models, pending' \in BOOLEAN, Record(told'),
           Holds(stepIndex', model', told'),
           why \notin {"complete", "output"} => Awaits(stepIndex', told', pending')
    PROVE  AnswersInv'
<1>1. phase' = "saving" /\ save'.stage = "dump" /\ save'.why = why
  BY DEF BeginSave
<1>2. FilesKeep'
  BY SameFiles DEF FilesKeep, AnswersInv, AnswersType
<1> QED BY <1>1, <1>2
        DEF AnswersInv, AnswersType, CompletedAnswersHold, FilesKeep, Answering, Asking

\* A step that is answered.
LEMMA CompleteAnswers ==
    ASSUME Bound, IInv, AnswersInv, CompleteStep
    PROVE  AnswersInv'
<1> DEFINE k == stepIndex + 1
           s == CurrentStep
<1>0. /\ phase = "steps" /\ stepIndex < Len(Steps) /\ stepIndex' = stepIndex + 1
      /\ files' = files
  BY DEF CompleteStep, AtStep
<1>b. BeginSave("draft", history', FALSE, "step")
  BY DEF CompleteStep
<1>1. /\ k \in 1..Len(Steps) /\ s = Steps[k] /\ stepIndex = k - 1 /\ stepIndex' = k
  <2>1. stepIndex \in 0..Len(Steps) /\ Len(Steps) \in Nat
    BY StepsAssumption DEF IInv, TypeOK
  <2> QED BY <1>0, <2>1 DEF CurrentStep
<1>2. PICK a \in StepAnswers(s) : /\ \E r \in CompleteAnswer(s, a, model, pending) :
                                        model' = r.model /\ pending' = r.pending
                                  /\ told' = RecordAnswer(told, s, a)
  BY DEF CompleteStep, Bound
<1>3. PICK r \in CompleteAnswer(s, a, model, pending) : model' = r.model /\ pending' = r.pending
  BY <1>2
<1> HIDE DEF s, k
<1>4. s \in StepNames /\ \A i \in 1..Len(Steps) : Steps[i] = s => i = k
  BY <1>1, StepAt
<1>5. /\ model \in Models /\ pending \in BOOLEAN /\ Record(told)
      /\ Holds(stepIndex, model, told) /\ Awaits(stepIndex, told, pending)
  BY <1>0 DEF AnswersInv, AnswersType, CompletedAnswersHold, Answering, Asking
<1>6. /\ model' \in Models /\ HoldsAnswer(s, model', a)
      /\ pending' = IF s = "os" THEN a = "download" ELSE pending
      /\ \A u \in StepNames \ {s} : \A c : HoldsAnswer(u, model, c) => HoldsAnswer(u, model', c)
  BY <1>3, <1>4, <1>5, CompleteHolds
<1>7. /\ Record(told') /\ told'[s] = <<a>>
      /\ \A u \in StepNames \ {s} : told'[u] = told[u]
  BY <1>2, <1>4, <1>5, RecordType
<1>8. ASSUME NEW i \in 1..k
      PROVE  /\ told'[Steps[i]] # <<>> /\ HoldsAnswer(Steps[i], model', told'[Steps[i]][1])
             /\ Steps[i] = "os" => pending' = (told'["os"] = <<"download">>)
  <2>1. i \in 1..Len(Steps) /\ Steps[i] \in StepNames
    BY <1>1, StepAt, StepsAssumption
  <2>2. CASE Steps[i] = s
    <3>1. told'[s] # <<>> /\ told'[s][1] = a
      BY <1>7
    <3>2. told'[s] = <<"download">> <=> a = "download"
      BY <1>7
    <3>3. s = "os" => (pending' <=> told'["os"] = <<"download">>)
      BY <1>6, <3>2
    <3>4. s = "os" => pending' = (told'["os"] = <<"download">>)
      BY <1>6, <3>3, Zenon
    <3> QED BY <1>6, <2>2, <3>1, <3>4
  <2>3. CASE Steps[i] # s
    <3>1. i \in 1..stepIndex
      BY <1>1, <2>3
    <3>2. told'[Steps[i]] = told[Steps[i]]
      BY <1>7, <2>1, <2>3
    <3>3. told[Steps[i]] # <<>> /\ HoldsAnswer(Steps[i], model, told[Steps[i]][1])
      BY <1>5, <3>1 DEF Holds
    <3>4. Steps[i] = "os" => pending' = pending /\ pending = (told["os"] = <<"download">>)
      BY <1>5, <1>6, <2>3, <3>1 DEF Awaits
    <3> QED BY <1>6, <2>1, <2>3, <3>2, <3>3, <3>4
  <2> QED BY <2>2, <2>3
<1>9. Holds(stepIndex', model', told') /\ Awaits(stepIndex', told', pending')
  BY <1>1, <1>8 DEF Holds, Awaits
<1>10. pending' \in BOOLEAN
  BY <1>5, <1>6
<1> QED BY <1>0, <1>b, <1>6, <1>7, <1>9, <1>10, BeginAnswers

\* A step that is left half way disturbs no step before it.
LEMMA LeaveAnswers ==
    ASSUME Bound, IInv, AnswersInv, AtStep, LeaveStep
    PROVE  /\ model' \in Models /\ pending' \in BOOLEAN
           /\ Holds(stepIndex, model', told) /\ Awaits(stepIndex, told, pending')
<1> DEFINE k == stepIndex + 1
           s == CurrentStep
<1>1. /\ k \in 1..Len(Steps) /\ s = Steps[k] /\ stepIndex = k - 1
  <2>1. stepIndex \in 0..Len(Steps) /\ Len(Steps) \in Nat /\ stepIndex < Len(Steps)
    BY StepsAssumption DEF IInv, TypeOK, AtStep
  <2> QED BY <2>1 DEF CurrentStep
<1>2. PICK r \in PartialAnswer(s, model, pending) : model' = r.model /\ pending' = r.pending
  BY DEF LeaveStep, Bound
<1> HIDE DEF s, k
<1>3. s \in StepNames /\ \A i \in 1..Len(Steps) : Steps[i] = s => i = k
  BY <1>1, StepAt
<1>4. /\ model \in Models /\ pending \in BOOLEAN /\ Record(told)
      /\ Holds(stepIndex, model, told) /\ Awaits(stepIndex, told, pending)
  BY DEF AtStep, AnswersInv, AnswersType, CompletedAnswersHold, Answering, Asking
<1>5. /\ model' \in Models /\ pending' \in BOOLEAN
      /\ s # "os" => pending' = pending
      /\ \A u \in StepNames \ {s} : \A c : HoldsAnswer(u, model, c) => HoldsAnswer(u, model', c)
  BY <1>2, <1>3, <1>4, PartialHolds
<1>6. ASSUME NEW i \in 1..stepIndex
      PROVE  /\ told[Steps[i]] # <<>> /\ HoldsAnswer(Steps[i], model', told[Steps[i]][1])
             /\ Steps[i] = "os" => pending' = (told["os"] = <<"download">>)
  <2>1. i \in 1..Len(Steps) /\ Steps[i] \in StepNames /\ i # k
    BY <1>1, StepAt, StepsAssumption
  <2>2. Steps[i] # s
    BY <1>3, <2>1
  <2>3. told[Steps[i]] # <<>> /\ HoldsAnswer(Steps[i], model, told[Steps[i]][1])
    BY <1>4 DEF Holds
  <2>4. Steps[i] = "os" => pending = (told["os"] = <<"download">>)
    BY <1>4 DEF Awaits
  <2> QED BY <1>5, <2>1, <2>2, <2>3, <2>4
<1> QED BY <1>5, <1>6 DEF Holds, Awaits

\* Back and Quit.
LEMMA BackAnswers ==
    ASSUME Bound, IInv, AnswersInv, Back
    PROVE  AnswersInv'
<1>1. /\ AtStep /\ LeaveStep /\ stepIndex > 0 /\ stepIndex' = stepIndex - 1
      /\ files' = files /\ told' = told
  BY DEF Back
<1>2. BeginSave("draft", history', FALSE, "step")
  BY DEF Back
<1>3. /\ model' \in Models /\ pending' \in BOOLEAN
      /\ Holds(stepIndex, model', told) /\ Awaits(stepIndex, told, pending')
  BY <1>1, LeaveAnswers
<1>4. \A i \in 1..stepIndex' : i \in 1..stepIndex
  BY <1>1, StepsAssumption DEF IInv, TypeOK
<1>5. Holds(stepIndex', model', told') /\ Awaits(stepIndex', told', pending')
  BY <1>1, <1>3, <1>4 DEF Holds, Awaits
<1>6. Record(told')
  BY <1>1 DEF AnswersInv, AnswersType
<1> QED BY <1>1, <1>2, <1>3, <1>5, <1>6, BeginAnswers

LEMMA QuitAnswers ==
    ASSUME Bound, IInv, AnswersInv, Quit
    PROVE  AnswersInv'
<1>1. /\ AtStep /\ LeaveStep /\ stepIndex' = stepIndex /\ files' = files /\ told' = told
      /\ BeginSave("draft", completed, FALSE, "abort")
  BY DEF Quit
<1>2. /\ model' \in Models /\ pending' \in BOOLEAN
      /\ Holds(stepIndex, model', told) /\ Awaits(stepIndex, told, pending')
  BY <1>1, LeaveAnswers
<1>3. Holds(stepIndex', model', told') /\ Awaits(stepIndex', told', pending')
  BY <1>1, <1>2
<1>4. Record(told')
  BY <1>1 DEF AnswersInv, AnswersType
<1> QED BY <1>1, <1>2, <1>3, <1>4, BeginAnswers

\* Everything else the operator does.
LEMMA OperatorAnswers ==
    ASSUME Bound, IInv, AnswersInv, Operator
    PROVE  AnswersInv'
<1>0. FilesKeep /\ model \in Models /\ pending \in BOOLEAN /\ Record(told)
  BY DEF FilesKeep, AnswersInv, AnswersType
<1>1. CASE ContinueDraft
  <2>1. /\ phase = "ask" /\ Resume(files["draft"]) /\ opts' = opts
        /\ save' = save /\ files' = files
    BY <1>1 DEF ContinueDraft
  <2>2. "draft" \in Paths /\ IsDraft(files["draft"]) /\ opts'.dryRun \in BOOLEAN
    BY <2>1 DEF Paths, IInv, SessionInv, TypeOK
  <2> QED BY <2>1, <2>2, ResumeAnswers
<1>2. CASE IgnoreDraft
  <2>1. /\ phase = "ask" /\ EnterQuestionnaire(Prefix(0)) /\ 0 \in 0..Len(Steps)
        /\ UNCHANGED <<model, pending, told, save, files>>
    BY <1>2, PrefixEnds, StepsAssumption DEF IgnoreDraft
  <2> QED BY <1>0, <2>1, NothingToHold, EnterAnswers
<1>3. CASE QuitAsk
  BY <1>0, <1>3, SameFiles, ExitAnswers DEF QuitAsk
<1>4. CASE CompleteStep
  BY <1>4, CompleteAnswers
<1>5. CASE Back
  BY <1>5, BackAnswers
<1>6. CASE Quit
  BY <1>6, QuitAnswers
<1>7. CASE Confirm
  <2>1. phase' = "install" /\ ~opts'.tui /\ UNCHANGED <<model, pending, told, files>>
    BY <1>7 DEF Confirm, memory, IInv, SessionInv
  <2>2. FilesKeep'
    BY <1>0, <2>1, SameFiles
  <2> QED BY <1>0, <2>1, <2>2
          DEF AnswersInv, AnswersType, CompletedAnswersHold, FilesKeep, Answering, Asking
<1>8. CASE Decline
  BY <1>0, <1>8, SameFiles, ExitAnswers DEF Decline
<1> QED BY <1>1, <1>2, <1>3, <1>4, <1>5, <1>6, <1>7, <1>8 DEF Operator

\* What the program does by itself.
LEMMA ProgramAnswers ==
    ASSUME Bound, IInv, AnswersInv, Program
    PROVE  AnswersInv'
<1>0. FilesKeep /\ model \in Models /\ pending \in BOOLEAN /\ Record(told)
  BY DEF FilesKeep, AnswersInv, AnswersType
<1>1. CASE StepThrows
  BY <1>0, <1>1, SameFiles, ExitAnswers DEF StepThrows
<1>2. CASE DownloadDone
  <2>1. /\ phase = "steps" /\ phase' = "generate" /\ pending' = FALSE
        /\ UNCHANGED <<model, told, stepIndex, files>>
    BY <1>2 DEF DownloadDone, AllAnswered
  <2>2. FilesKeep'
    BY <1>0, <2>1, SameFiles
  <2>3. Holds(stepIndex', model', told')
    BY <2>1 DEF AnswersInv, CompletedAnswersHold, Answering, Asking
  <2> QED BY <1>0, <2>1, <2>2, <2>3
          DEF AnswersInv, AnswersType, CompletedAnswersHold, FilesKeep, Answering, Asking
<1>3. CASE DownloadFails
  <2>1. /\ phase = "steps" /\ BeginSave("draft", completed, FALSE, "abort")
        /\ UNCHANGED <<model, pending, told, stepIndex, files>>
    BY <1>3 DEF DownloadFails, AwaitsDownload, AllAnswered, memory
  <2>2. Holds(stepIndex', model', told') /\ Awaits(stepIndex', told', pending')
    BY <2>1 DEF AnswersInv, CompletedAnswersHold, Answering, Asking
  <2> QED BY <1>0, <2>1, <2>2, BeginAnswers
<1>4. CASE Generate
  <2>1. /\ phase = "generate" /\ BeginSave("draft", completed, TRUE, "complete")
        /\ UNCHANGED <<model, pending, told, stepIndex, files>>
    BY <1>4 DEF Generate, memory
  <2>2. Holds(stepIndex', model', told')
    BY <2>1 DEF AnswersInv, CompletedAnswersHold, Answering, Asking
  <2> QED BY <1>0, <2>1, <2>2, BeginAnswers
<1>5. CASE GenerateThrows
  BY <1>0, <1>5, SameFiles, ExitAnswers DEF GenerateThrows
<1>6. CASE DumpAnswerfile
  <2>1. FileAnswers(Dumped(model, told)) /\ FileHolds(Dumped(model, told))
    BY <1>0 DEF Dumped, FileAnswers, FileHolds
  <2>2. \/ files' = [files EXCEPT !["output"] = Dumped(model, told)]
        \/ files' = [files EXCEPT !["output"] = Torn]
        \/ files' = files
    BY <1>6 DEF DumpAnswerfile
  <2>3. FilesKeep'
    BY <1>0, <2>1, <2>2, EmptyFiles, SameFiles, WrittenFile DEF Paths
  <2>4. PICK status : Exit(status)
    BY <1>6 DEF DumpAnswerfile
  <2> QED BY <2>3, <2>4, ExitAnswers
<1>7. CASE EndInstall
  <2>1. PICK status : Exit(status)
    BY <1>7 DEF EndInstall
  <2>2. FilesKeep'
    BY <1>0, <1>7, SameFiles DEF EndInstall
  <2> QED BY <2>1, <2>2, ExitAnswers
<1> QED BY <1>1, <1>2, <1>3, <1>4, <1>5, <1>6, <1>7 DEF Program

LEMMA CrashAnswers ==
    ASSUME Bound, IInv, AnswersInv, Crash
    PROVE  AnswersInv'
<1>1. FilesKeep
  BY DEF FilesKeep, AnswersInv, AnswersType
<1>2. \/ files' = files
      \/ \E p \in Paths : files' = [files EXCEPT ![p] = Torn]
  BY DEF Crash, IInv, TypeOK, Paths
<1>3. FilesKeep'
  BY <1>1, <1>2, EmptyFiles, SameFiles, WrittenFile
<1> QED BY <1>3, ExitAnswers DEF Crash

LEMMA NextAnswers ==
    ASSUME Bound, IInv, AnswersInv, [Next]_vars
    PROVE  AnswersInv'
<1>1. CASE UNCHANGED vars
  <2>1. UNCHANGED <<phase, opts, model, pending, told, stepIndex, save, files>>
    BY <1>1 DEF vars
  <2>2. FilesKeep'
    BY <2>1, SameFiles DEF FilesKeep, AnswersInv, AnswersType
  <2> QED BY <2>1, <2>2
          DEF AnswersInv, AnswersType, CompletedAnswersHold, FilesKeep, Answering, Asking
<1>2. CASE Done
  BY <1>1, <1>2 DEF Done
<1> QED BY <1>1, <1>2, LaunchAnswers, WriteAnswers, OperatorAnswers, ProgramAnswers, CrashAnswers
        DEF Next

-----------------------------------------------------------------------------
\* With the operators bound as in the program, the answers keep their types and
\* everything the inductive invariant says of them, in memory and on disk.
THEOREM AnswersKept == Bound /\ Spec => [](AnswersInv /\ IInv)
<1>1. Bound /\ Init => AnswersInv /\ IInv
  BY InitAnswers, InitIInv
<1>2. Bound /\ (AnswersInv /\ IInv) /\ [Next]_vars => (AnswersInv /\ IInv)'
  BY NextAnswers, NextIInv
<1>3. Bound => Bound'
  OBVIOUS
<1> QED BY <1>1, <1>2, <1>3, PTL DEF Spec

\* A step the questionnaire counts as done (PresenterInstall.cpp's stepIndex) is
\* one whose latest answer is in the model, whatever Back, Quit, half-finished
\* visits, failed saves, crashes and resumed drafts came before.
THEOREM AnswersHold == Bound /\ Spec => []CompletedAnswersHold
<1>1. AnswersInv => CompletedAnswersHold
  BY DEF AnswersInv
<1> QED BY <1>1, AnswersKept, PTL

\* The engine that follows a questionnaire is given every one of its answers: the
\* model it installs from holds the latest answer to each of the steps.
InstallsWhatWasAnswered ==
    phase = "install" /\ opts.tui => Holds(Len(Steps), model, told)

\* After a questionnaire, Shell::install works from what the operator answered.
THEOREM AnswersInstalled == Bound /\ Spec => []InstallsWhatWasAnswered
<1>1. AnswersInv /\ IInv => InstallsWhatWasAnswered
  BY
          DEF AnswersInv, CompletedAnswersHold, Answering, IInv, InstallGate, InstallsWhatWasAnswered
<1> QED BY <1>1, AnswersKept, PTL

\* Whatever was interrupted, a file on disk with the [tui] group (writeDraft) holds
\* the answers to the steps it lists: a draft remembers the download they ask for,
\* and a file that is not a draft has them all and waits for nothing.
FilesHoldAnswers == \A f \in Paths : FileHolds(files[f])

\* What writeDraft leaves with the [tui] group can be resumed or installed from.
THEOREM FilesHold == Bound /\ Spec => []FilesHoldAnswers
<1>1. AnswersInv => FilesHoldAnswers
  BY DEF AnswersInv, FilesHoldAnswers
<1> QED BY <1>1, AnswersKept, PTL

\* main.cpp refuses to install from an incomplete draft by its [tui] group: an
\* answerfile that has the group and is loaded records an answer to every step.
\* (Only a file that a crash left without the group gets past the check.)
LoadsOnlyFinished ==
    [][ \A o \in Launches :
          LaunchAnswerfile(o) /\ files[o.answerfile].state = "tagged" =>
              \A i \in 1..Len(Steps) : told'[Steps[i]] # <<>> ]_vars

\* The check of runApplication is enough for files that have the group.
THEOREM GroupTellsFinished == Bound /\ Spec => LoadsOnlyFinished
<1>1. ASSUME AnswersInv, NEW o \in Launches, LaunchAnswerfile(o),
             files[o.answerfile].state = "tagged"
      PROVE  \A i \in 1..Len(Steps) : told'[Steps[i]] # <<>>
  <2> DEFINE f == files[o.answerfile]
  <2>1. o.answerfile \in Paths /\ ~IsDraft(f) /\ told' = f.told
    BY <1>1, LaunchesAssumption DEF LaunchAnswerfile, Paths
  <2>2. FileHolds(f)
    BY <1>1, <2>1 DEF AnswersInv
  <2>3. f.steps = Steps /\ Holds(Len(Steps), f.body, f.told)
    BY <1>1, <2>1, <2>2 DEF FileHolds, IsDraft
  <2> QED BY <2>1, <2>3 DEF Holds
<1>2. AnswersInv => \A o \in Launches :
          LaunchAnswerfile(o) /\ files[o.answerfile].state = "tagged" =>
              \A i \in 1..Len(Steps) : told'[Steps[i]] # <<>>
  BY <1>1
<1> QED BY <1>2, AnswersKept, PTL DEF LoadsOnlyFinished

\* The answers keep their types through the presenters, the dump, the draft and the
\* answerfile.
THEOREM AnswersTyped == Bound /\ Spec => []AnswersType
<1>1. AnswersInv => AnswersType
  BY DEF AnswersInv
<1> QED BY <1>1, AnswersKept, PTL
=============================================================================
