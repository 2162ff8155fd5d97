----------------------------- MODULE XcatNodes -----------------------------
(***************************************************************************)
(* The second half of XCAT::install (src/src/services/xcat.cpp): addNodes,   *)
(* setNodesImage, setNodesBoot and resetNodes.  The nodes are defined in     *)
(* xCAT, name and address services are regenerated in an order that depends  *)
(* on the DHCP server, PBS is told about the nodes, and the nodes that have  *)
(* a BMC are booted.  Most of the commands are not checked.                  *)
(*                                                                          *)
(* Of the tools only what the code relies on is modelled: makehosts writes   *)
(* what xCAT knows to the hosts file; Kea's makedhcp -n needs the key that   *)
(* makedns makes; ISC dhcpd learns the nodes from nodeset, through OMAPI.    *)
(***************************************************************************)
EXTENDS FiniteSets

CONSTANTS
    Names,      \* hostnames of compute nodes
    Addrs,      \* their management addresses
    Lossy,      \* which of mkdef, makehosts and makedhcp can fail unnoticed
    Requests    \* the settings the installer is started with

Unset == "unset"
Clusters == UNION { [S -> Addrs] : S \in SUBSET Names }
Settings ==
    { c \in [nodes : Clusters, pbs : BOOLEAN, kea : BOOLEAN, bmc : SUBSET Names] :
        c.bmc \subseteq DOMAIN c.nodes }

ASSUME LossyAssumption == Lossy \subseteq {"mkdef", "makehosts", "makedhcp"}
ASSUME NodesAssumption == Unset \notin Addrs
ASSUME RequestsAssumption == Requests \subseteq Settings /\ Requests # {}

VARIABLES
    pc,         \* the next step of the run, "off" or "done" when none goes on
    cfg,        \* its settings
    left,       \* the nodes the current loop has still to visit
    answering,  \* the BMCs that answer to ipmitool whenever this run calls it
    lost,       \* the nodes whose mkdef has failed, in this run
    nodes,      \* xCAT's node table: the address of each node
    hosts,      \* the hosts file
    ddnsKey,    \* whether makedns has made the key
    dhcp,       \* the DHCP server: "none", "stopped" with a configuration, "running"
    leases,     \* the address it gives each node
    pbs,        \* the address the PBS server has resolved for each node
    assigned,   \* the nodes nodeset has given the image, in this run
    pxe,        \* the nodes that boot from the network next
    booted      \* the nodes that were reset, in this run

vars == <<pc, cfg, left, answering, lost, nodes, hosts, ddnsKey, dhcp, leases, pbs,
          assigned, pxe, booted>>
names == <<lost, nodes, hosts>>
boot == <<assigned, pxe, booted>>

NoNode == [n \in Names |-> Unset]
Computes == DOMAIN cfg.nodes

-----------------------------------------------------------------------------
\* The DHCP server goes with the head node's operating system: it stays.
Start(c) ==
    /\ pc \in {"off", "done"} /\ pc' = "mkdef" /\ c.kea = cfg.kea
    /\ cfg' = c /\ left' = DOMAIN c.nodes
    /\ answering' \in SUBSET c.bmc
    /\ lost' = {} /\ assigned' = {} /\ pxe' = {} /\ booted' = {}
    /\ UNCHANGED <<nodes, hosts, ddnsKey, dhcp, leases, pbs>>

\* addNode: mkdef -f, not checked.
AddNode ==
    /\ pc = "mkdef"
    /\ \E n \in left :
          /\ left' = left \ {n}
          /\ \/ nodes' = [nodes EXCEPT ![n] = cfg.nodes[n]] /\ UNCHANGED lost
             \/ "mkdef" \in Lossy /\ lost' = lost \cup {n} /\ UNCHANGED nodes
    /\ UNCHANGED <<pc, cfg, answering, hosts, ddnsKey, dhcp, leases, pbs, boot>>

\* makehosts, not checked.
MakeHosts ==
    /\ pc = "mkdef" /\ left = {}
    /\ pc' = IF cfg.kea THEN "makedns" ELSE "makedhcp"
    /\ \/ hosts' = nodes
       \/ "makehosts" \in Lossy /\ UNCHANGED hosts
    /\ UNCHANGED <<cfg, left, answering, lost, nodes, ddnsKey, dhcp, leases, pbs, boot>>

\* Mutant of MakeDns: with Kea it comes after makedhcp, as it does with ISC.
SkipDns ==
    /\ pc = "makedns" /\ pc' = "makedhcp"
    /\ UNCHANGED <<cfg, left, answering, names, ddnsKey, dhcp, leases, pbs, boot>>

\* makedns -n, before makedhcp and checked with Kea, after it and not checked
\* with ISC dhcpd.
MakeDns ==
    /\ pc = "makedns"
    /\ pc' = IF cfg.kea THEN "makedhcp" ELSE "register"
    /\ ddnsKey' \in IF cfg.kea THEN {TRUE} ELSE {ddnsKey, TRUE}
    /\ left' = Computes
    /\ UNCHANGED <<cfg, answering, names, dhcp, leases, pbs, boot>>

\* makedhcp -n, checked with Kea, which has no configuration without the key.
\* A new configuration has no reservations.
MakeDhcp ==
    /\ pc = "makedhcp" /\ pc' = "restart"
    /\ \/ /\ cfg.kea => ddnsKey
          /\ dhcp' = "stopped" /\ leases' = NoNode
       \/ ~cfg.kea /\ "makedhcp" \in Lossy /\ UNCHANGED <<dhcp, leases>>
    /\ UNCHANGED <<cfg, left, answering, names, ddnsKey, pbs, boot>>

\* systemctl restart of the DHCP server, checked.
RestartDhcp ==
    /\ pc = "restart" /\ dhcp # "none" /\ dhcp' = "running"
    /\ pc' = IF cfg.kea THEN "reserve" ELSE "makedns"
    /\ UNCHANGED <<cfg, left, answering, names, ddnsKey, leases, pbs, boot>>

\* Mutant of Reserve: left to nodeset, as with ISC dhcpd.
ReserveLater ==
    /\ pc = "reserve" /\ pc' = "register"
    /\ left' = Computes
    /\ UNCHANGED <<cfg, answering, names, ddnsKey, dhcp, leases, pbs, boot>>

\* makedhcp -a, with Kea only, checked.
Reserve ==
    /\ pc = "reserve" /\ pc' = "register"
    /\ leases' = nodes /\ left' = Computes
    /\ UNCHANGED <<cfg, answering, names, ddnsKey, dhcp, pbs, boot>>

\* A node that PBS knows is left alone; one it does not know must resolve.
RegisterNode ==
    /\ pc = "register" /\ cfg.pbs
    /\ \E n \in left :
          /\ hosts[n] # Unset
          /\ pbs' = [pbs EXCEPT ![n] = IF @ = Unset THEN hosts[n] ELSE @]
          /\ left' = left \ {n}
    /\ UNCHANGED <<pc, cfg, answering, names, ddnsKey, dhcp, leases, boot>>

\* Mutant of RestartPbs: the server keeps the addresses it has.
NoRestart ==
    /\ pc = "register" /\ (cfg.pbs => left = {}) /\ pc' = "nodeset"
    /\ left' = {}
    /\ UNCHANGED <<cfg, answering, names, ddnsKey, dhcp, leases, pbs, boot>>

RestartPbs ==
    /\ pc = "register" /\ (cfg.pbs => left = {}) /\ pc' = "nodeset"
    /\ left' = {}
    /\ pbs' = IF cfg.pbs THEN [n \in Names |-> IF pbs[n] = Unset THEN Unset ELSE hosts[n]]
              ELSE pbs
    /\ UNCHANGED <<cfg, answering, names, ddnsKey, dhcp, leases, boot>>

\* nodeset of all compute nodes, checked, and done twice in a row: by addNodes and
\* by setNodesImage.  With ISC dhcpd it adds the nodes to the running server.
NodeSet ==
    /\ pc = "nodeset" /\ pc' = "rsetboot"
    /\ dhcp = "running"
    /\ assigned' = { n \in Names : nodes[n] # Unset }
    /\ leases' = IF cfg.kea THEN leases ELSE nodes
    /\ UNCHANGED <<cfg, left, answering, names, ddnsKey, dhcp, pbs, pxe, booted>>

\* runIpmiCommandWithFallback: xCAT's command succeeds on all nodes that have a
\* BMC, or it fails having reached some of them, and the direct commands follow.
\* Nothing is done without a BMC.
XcatCommand(reached, next, direct) ==
    \/ reached' = cfg.bmc /\ left' = {} /\ pc' = next
    \/ /\ cfg.bmc # {} /\ reached' \in SUBSET cfg.bmc
       /\ left' = cfg.bmc /\ pc' = direct

\* Mutant of Rest: the script ends at the first BMC that does not answer.
FirstFailureEnds(n, ok) == IF ok THEN left \ {n} ELSE {}

\* The nodes the script of runDirectIpmiCommand goes on with after node n: what
\* ipmitool returned is kept for the script's own exit code ("|| rc=$?").
Rest(n, ok) == left \ {n}

\* One ipmitool line of that script.  A BMC that is not sure to answer may.
DirectCommand(reached) ==
    \E n \in left, ok \in BOOLEAN :
        /\ n \in answering => ok
        /\ left' = Rest(n, ok)
        /\ reached' = IF ok THEN reached \cup {n} ELSE reached
        /\ UNCHANGED pc

\* The end of the script: a failure is a warning.
DirectDone(next) == left = {} /\ pc' = next /\ UNCHANGED left

\* setNodesBoot
SetNodesBoot ==
    /\ \/ pc = "rsetboot" /\ XcatCommand(pxe, "rpower", "ipmiBoot")
       \/ pc = "ipmiBoot" /\ DirectCommand(pxe)
       \/ pc = "ipmiBoot" /\ DirectDone("rpower") /\ UNCHANGED pxe
    /\ UNCHANGED <<cfg, answering, names, ddnsKey, dhcp, leases, pbs, assigned, booted>>

\* resetNodes; the clocks are synchronised afterwards.
ResetNodes ==
    /\ \/ pc = "rpower" /\ XcatCommand(booted, "done", "ipmiReset")
       \/ pc = "ipmiReset" /\ DirectCommand(booted)
       \/ pc = "ipmiReset" /\ DirectDone("done") /\ UNCHANGED booted
    /\ UNCHANGED <<cfg, answering, names, ddnsKey, dhcp, leases, pbs, assigned, pxe>>

\* A checked command fails or the process is killed.
Stop ==
    /\ pc \notin {"off", "done"} /\ pc' = "off" /\ left' = {}
    /\ UNCHANGED <<cfg, answering, names, ddnsKey, dhcp, leases, pbs, boot>>

Init ==
    /\ pc = "off" /\ cfg \in Requests /\ left = {} /\ answering = {} /\ lost = {}
    /\ nodes = NoNode /\ hosts = NoNode /\ pbs = NoNode /\ leases = NoNode
    /\ ddnsKey = FALSE /\ dhcp = "none"
    /\ assigned = {} /\ pxe = {} /\ booted = {}

AddNodes == AddNode \/ MakeHosts \/ MakeDns \/ MakeDhcp \/ RestartDhcp \/ Reserve
                \/ RegisterNode \/ RestartPbs \/ NodeSet
BootNodes == SetNodesBoot \/ ResetNodes

Next == (\E c \in Requests : Start(c)) \/ AddNodes \/ BootNodes \/ Stop

Spec == Init /\ [][Next]_vars

-----------------------------------------------------------------------------
Steps == {"off", "mkdef", "makedns", "makedhcp", "restart", "reserve", "register",
          "nodeset", "rsetboot", "ipmiBoot", "rpower", "ipmiReset", "done"}
Resolved == [Names -> Addrs \cup {Unset}]

TypeOK ==
    /\ pc \in Steps /\ cfg \in Settings /\ left \subseteq Computes
    /\ answering \subseteq cfg.bmc /\ lost \subseteq Computes
    /\ nodes \in Resolved /\ hosts \in Resolved
    /\ leases \in Resolved /\ pbs \in Resolved
    /\ ddnsKey \in BOOLEAN /\ dhcp \in {"none", "stopped", "running"}
    /\ assigned \subseteq Names /\ pxe \subseteq cfg.bmc /\ booted \subseteq cfg.bmc

\* A node that is set to boot from the network or reset can come back: the DHCP
\* server runs, gives it its address in this run, and nodeset has given it the
\* image, with either DHCP server and whatever other command failed unnoticed.
\* The exception is a node whose own mkdef has failed: nodeset does not look at
\* it, and the direct commands reset it with the others.
BootsIntoImage ==
    \A n \in pxe \cup booted :
        /\ dhcp = "running"
        /\ n \notin lost => n \in assigned /\ leases[n] = cfg.nodes[n]

\* With Kea the run never asks for a configuration it cannot have: the key is
\* there when makedhcp runs ("The Kea backend refuses to render a configuration
\* until makedns has created the DDNS key material").
KeyBeforeKea == (pc = "makedhcp" /\ cfg.kea) => ddnsKey

\* A BMC that does not answer costs its own node only: at the end of a run every
\* node whose BMC answers is set to boot from the network and reset, although
\* xCAT's command fails for the whole group having reached any of them, and the
\* direct commands fail for others before it.
AnsweringNodesBoot == pc = "done" => answering \subseteq pxe \cap booted

\* When a run completes, PBS and the hosts file agree on every node of the
\* cluster, whatever address PBS had cached and whatever failed unnoticed.
PbsFollowsHosts ==
    (pc = "done" /\ cfg.pbs) =>
        \A n \in Computes : pbs[n] = hosts[n] /\ pbs[n] # Unset
=============================================================================
