------------------------------ MODULE MCHeadNode ------------------------------
(* Small instances of the parts of HeadNode. *)
EXTENDS HeadNode

\* Head nodes with one profile per interface, none on the internal ones, or a
\* leftover profile with the name of a network.
Profile(n, i, m) == [name |-> n, on |-> i, addr |-> "lease", mask |-> m]
MCFound ==
    {{Profile("wired0", "eth0", "m16")} \cup s :
        s \in {{}, {Profile("wired1", "eth1", "m24")},
               {Profile("wired1", "eth1", "m24"), Profile("wired2", "eth2", "m16")},
               {Profile("Management", "eth1", "m24"), Profile("Service", "ib0", "m16")}}}
MCWireMask == [External |-> "m16", Management |-> "m24", Service |-> "m16", Application |-> "m16"]
\* Every network on its own interface; Service shares that of Management; and
\* Management that of External.
Cabling == [External |-> "eth0", Management |-> "eth1", Service |-> "eth2", Application |-> "ib0"]
Shared == [Cabling EXCEPT !["Service"] = "eth1"]
MCNetworkRequests ==
    [addr : {"a1"}, mask : {"", "m16"}, nets : {{}, {"Service"}, {"Service", "Application"}},
     on : {Cabling}, ubuntu : BOOLEAN, dry : BOOLEAN]
    \cup [addr : {"a1"}, mask : {"", "m16"}, nets : {{}, {"Service"}},
          on : {Shared, [Cabling EXCEPT !["Management"] = "eth0"]}, ubuntu : {FALSE}, dry : {FALSE}]

MCAnswers ==
    {[root |-> r, slurm |-> s, nodes |-> n, range |-> n] :
        r \in {"r1", "r2"}, s \in {"s1", "s2"}, n \in {{"n1"}, {"n1", "n2"}}}
    \cup {[root |-> "r1", slurm |-> "s1", nodes |-> n, range |-> {"n1"}] : n \in {{}, {"login"}}}

\* One repository of each kind: of a distribution, with a release in its id, with
\* a mirror that has a key or none, without a mirror, without a key, and an
\* optional one with another that it depends on.
Repo(c, f, i, b, m, mk, k) ==
    [conf |-> c, file |-> f, id |-> i, releases |-> {"9", "10"}, base |-> b, mirror |-> m,
     mirrorKey |-> mk, key |-> k]
Rhel(i, v) == [Repo("rhel", "rhel.repo", i, TRUE, TRUE, FALSE, FALSE) EXCEPT !.releases = {v}]
MCCatalogue ==
    {Repo("rocky", "rocky.repo", "baseos", TRUE, TRUE, TRUE, FALSE),
     Rhel("rhel-9-baseos", "9"), Rhel("rhel-10-baseos", "10"),
     Repo("common", "epel.repo", "epel", TRUE, TRUE, TRUE, TRUE),
     Repo("common", "OpenHPC.repo", "OpenHPC", TRUE, FALSE, FALSE, FALSE),
     Repo("common", "beegfs.repo", "beegfs", FALSE, FALSE, FALSE, FALSE),
     Repo("common", "grafana.repo", "grafana", FALSE, FALSE, FALSE, FALSE)}
\* A file with the name of a generated one, and two of other names.
MCShipped ==
    {[file |-> "rocky.repo", id |-> "baseos", exact |-> TRUE],
     [file |-> "vendor.repo", id |-> "vendor", exact |-> TRUE],
     [file |-> "OLD.REPO", id |-> "old", exact |-> FALSE]}
Ask(h, c, m, f, d, s) ==
    [head |-> h, compute |-> c, release |-> "9", lts |-> FALSE, xcat |-> m,
     mirrors |-> m, force |-> f, dry |-> d, chosen |-> s, bundles |-> {}]
MCRepositoryRequests ==
    {Ask("rocky", "rocky", TRUE, FALSE, FALSE, {}),
     Ask("rocky", "rocky", FALSE, FALSE, FALSE, {"beegfs", "unknown"}),
     Ask("rocky", "rhel", TRUE, FALSE, FALSE, {}),
     [Ask("rocky", "rhel", FALSE, TRUE, FALSE, {}) EXCEPT !.release = "10"],
     [Ask("rocky", "rhel", FALSE, FALSE, FALSE, {}) EXCEPT !.release = "10"],
     Ask("ubuntu", "ubuntu", FALSE, FALSE, FALSE, {}),
     Ask("ubuntu", "ubuntu", TRUE, FALSE, FALSE, {}),
     Ask("rocky", "ubuntu", FALSE, FALSE, FALSE, {}),
     Ask("rocky", "rocky", FALSE, FALSE, TRUE, {}),
     [Ask("rocky", "rocky", FALSE, FALSE, FALSE, {}) EXCEPT !.release = "10", !.lts = TRUE]}

MCOrders ==
    [kind : {"doca"}, stream : {"latest", "lts-old"}, kernel : {"", "k1", "k2"}, rocky : {TRUE},
     nodes : {TRUE}, skip : BOOLEAN, force : BOOLEAN]
    \cup [kind : {"inbox", "oracle", "doca"}, stream : {"latest"}, kernel : {"", "k2"},
          rocky : {FALSE}, nodes : BOOLEAN, skip : {FALSE}, force : {FALSE}]

-------------------------------------------------------------------------------
\* Answerfiles: a complete one, and those that differ from it in one part.
Net(ip, m, g, d) ==
    [group |-> TRUE, iface |-> "nic", ip |-> ip, mask |-> m, gateway |-> g, domain |-> d]
NoNet == [group |-> FALSE, iface |-> "none", ip |-> "none", mask |-> "none", gateway |-> "none",
          domain |-> "none"]
Node(k, h, m, ip, r, b) ==
    [number |-> k, host |-> h, mac |-> m, ip |-> ip, root |-> r, cpu |-> "", bmc |-> b, user |-> ""]
Base ==
    [nets |-> [External |-> Net("ok", "ok", "in", "d"), Management |-> Net("ok", "ok", "none", "d"),
               Service |-> NoNet, Application |-> NoNet],
     settings |-> TRUE, distro |-> "rocky", provisioner |-> "xcat", repos |-> {}, ohpc |-> {},
     generic |-> [keys |-> TRUE, scalars |-> "ok", ip |-> "i9", prefix |-> "n", root |-> "g", user |-> "u"],
     nodes |-> <<Node(2, <<>>, "M1", "i1", "own", "b1"), Node(0, <<>>, "m3", "i3", "", ""),
                 Node(4, <<"x", 0>>, "m2", "none", "", "")>>,
     postfix |-> {}, ofed |-> "mellanox", version |-> "", queue |-> "none"]

Sections == {Net(ip, m, g, d) : ip \in {"none", "ok", "any"}, m \in {"none", "ok", "zero"},
                                g \in {"none", "in", "out", "any"}, d \in {"none", "", "d"}}
    \cup {[Net("ok", "ok", "in", "d") EXCEPT !.iface = i] : i \in {"gone", "none"}}
    \cup {Net("bad", "ok", "in", "d"), Net("ok", "bad", "in", "d"), Net("ok", "ok", "bad", "d"), NoNet}
WithNetwork == {[Base EXCEPT !.nets[p] = n] : p \in DOMAIN Base.nets, n \in Sections}

Entries ==
    {Node(k, h, m, ip, r, b) : k \in {1, 2}, h \in {<<>>, <<"n", 1>>}, m \in {"M1", "m1-", "m2"},
                               ip \in {"none", "i1", "b1"}, r \in {"own"}, b \in {"", "b1"}}
    \cup {Node(1, <<>>, m, "i1", "", "") : m \in {"none", "", "bad"}}
    \cup {Node(1, <<>>, "m1", ip, "", "") : ip \in {"bad", "any"}}
    \cup {[Node(3, <<>>, "m1", "i1", "", "b2") EXCEPT !.cpu = c] : c \in {"ok", "bad"}}
    \cup {[Node(3, <<>>, "m1", "i1", "", "") EXCEPT !.user = "u"]}
WithNodes == {[Base EXCEPT !.nodes = <<m, n>>] : m, n \in Entries}
    \cup {[Base EXCEPT !.generic[k] = ""] : k \in {"prefix", "root", "user"}}
    \cup {[Base EXCEPT !.generic.ip = i] : i \in {"any", "bad"}}
    \cup {[Base EXCEPT !.generic.scalars = "bad"], [Base EXCEPT !.generic.keys = FALSE]}

WithServices ==
    {[Base EXCEPT !.ofed = k, !.version = v] :
        k \in {"none", "", "inbox", "doca", "mellanox", "bad"}, v \in {"none", "", "v"}}
    \cup {[Base EXCEPT !.queue = q, !.repos = r, !.ohpc = o] :
            q \in {"none", "slurm", "slurm without a key", "pbs", "both"},
            r \in {{}, {{}}, {{"beegfs"}}}, o \in {{}, {{}}, {{"serial-libs"}}}}
    \cup {[Base EXCEPT !.postfix = {[profile |-> p, smtp |-> s]}] :
            p \in {"Local", "Relay", "SASL", "bad"}, s \in {"ok", "bad"}}
    \cup {[Base EXCEPT !.distro = d, !.provisioner = p] :
            d \in {"rocky", "alma", "ubuntu", "unknown"}, p \in {"xcat", "confluent", "none", "other"}}
    \cup {[Base EXCEPT !.settings = FALSE]}

MCAnswerfiles == WithNetwork \cup WithNodes \cup WithServices
MCText == STRING
MCHosts == [dry : BOOLEAN, head : {"el", "ubuntu"}]

\* Every subnet size with the switches off, and the switches on one of them; two
\* masks for one network address.
MCSetupRequests ==
    {c \in [interface : Interfaces, net : Subnets, bits : HostBits, domain : Domains,
            forcePatch : BOOLEAN, stopAfter : {"none", "xcat-patch", "provisioner-setup"}] :
        /\ c.net = IF c.bits = 1 THEN "s2" ELSE "s1"
        /\ c.forcePatch \/ c.stopAfter # "none" => c.bits = 8 /\ c.domain = "d1"}
===============================================================================
