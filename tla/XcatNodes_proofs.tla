-------------------------- MODULE XcatNodes_proofs --------------------------
(***************************************************************************)
(* Proofs about XcatNodes, for any nodes, addresses and settings, any       *)
(* number of runs, and any set of commands that fail unnoticed.             *)
(***************************************************************************)
EXTENDS XcatNodes, TLAPS

Booting == {"rsetboot", "ipmiBoot", "rpower", "ipmiReset", "done"}
Registered == {"nodeset"} \cup Booting

\* Where the DHCP server is when nodeset or Kea's reservation asks for it.
DhcpInv ==
    /\ (pc \in {"restart", "reserve"} /\ cfg.kea) => ddnsKey
    /\ (pc \in {"reserve", "register"} \cup Registered) => dhcp = "running"
    /\ (pc = "makedns" /\ ~cfg.kea) => dhcp = "running"
    /\ (pc \in {"register", "nodeset"} /\ cfg.kea) => leases = nodes
    /\ pc = "reserve" => cfg.kea

\* What PBS has when the loop over the nodes has left some to visit.
PbsInv ==
    /\ (pc = "register" /\ cfg.pbs) =>
            \A n \in Computes \ left : pbs[n] # Unset /\ hosts[n] # Unset
    /\ (pc \in Registered /\ cfg.pbs) =>
            \A n \in Computes : pbs[n] = hosts[n] /\ pbs[n] # Unset

\* xCAT has this run's address of every node whose mkdef was done.
DefInv ==
    /\ pc = "mkdef" => \A n \in Computes \ (left \cup lost) : nodes[n] = cfg.nodes[n]
    /\ pc \notin {"off", "mkdef"} => \A n \in Computes \ lost : nodes[n] = cfg.nodes[n]

\* What nodeset has left when the nodes are booted.
ReadyInv ==
    pc \in Booting => /\ leases = nodes
                      /\ \A n \in Names : nodes[n] # Unset => n \in assigned

\* No node is booted before, and the direct commands have reached every BMC that
\* answers and that they are past.
BootInv ==
    /\ pc \notin Booting \cup {"off"} => pxe = {} /\ booted = {}
    /\ pc \in {"ipmiBoot", "ipmiReset"} => left \subseteq cfg.bmc
    /\ pc = "ipmiBoot" => answering \ left \subseteq pxe
    /\ pc \in {"rpower", "ipmiReset", "done"} => answering \subseteq pxe
    /\ pc = "ipmiReset" => answering \ left \subseteq booted
    /\ pc = "done" => answering \subseteq booted

\* The inductive invariant.
IInv ==
    /\ TypeOK /\ DhcpInv /\ PbsInv /\ DefInv /\ ReadyInv /\ BootInv
    /\ BootsIntoImage /\ KeyBeforeKea

-----------------------------------------------------------------------------
\* The settings of a run, field by field.
LEMMA SettingsFields ==
    ASSUME NEW c \in Settings
    PROVE  /\ c.pbs \in BOOLEAN /\ c.kea \in BOOLEAN /\ c.bmc \subseteq Names
           /\ c.bmc \subseteq DOMAIN c.nodes /\ DOMAIN c.nodes \subseteq Names
           /\ \A n \in DOMAIN c.nodes : c.nodes[n] \in Addrs
<1>1. /\ c.nodes \in Clusters /\ c.pbs \in BOOLEAN /\ c.kea \in BOOLEAN
      /\ c.bmc \subseteq Names /\ c.bmc \subseteq DOMAIN c.nodes
  BY DEF Settings
<1>2. PICK S \in SUBSET Names : c.nodes \in [S -> Addrs]
  BY <1>1 DEF Clusters
<1> QED BY <1>1, <1>2

\* Nothing is there at first.
LEMMA InitIInv == Init => IInv
<1> SUFFICES ASSUME Init PROVE IInv
  OBVIOUS
<1>1. NoNode \in Resolved
  BY DEF NoNode, Resolved
<1>2. cfg \in Settings
  BY RequestsAssumption DEF Init
<1>3. TypeOK
  BY <1>1, <1>2 DEF Init, TypeOK, Steps, Computes
<1> QED
  BY <1>3 DEF Init, IInv, DhcpInv, PbsInv, DefInv, ReadyInv, BootInv,
      BootsIntoImage, KeyBeforeKea, Registered, Booting

\* Before the nodes are booted there is nothing to say of the boot.
LEMMA EarlyFrame ==
    ASSUME IInv, pc \notin Booting \cup {"off"}, pc' \notin Booting \cup {"off"},
           UNCHANGED boot
    PROVE  ReadyInv' /\ BootInv' /\ BootsIntoImage'
<1>1. pxe' = {} /\ booted' = {}
  BY DEF IInv, BootInv, boot
<1> QED BY <1>1 DEF ReadyInv, BootInv, BootsIntoImage, Booting

\* After the loop of addNode xCAT's node table stays.
LEMMA DefFrame ==
    ASSUME IInv, UNCHANGED <<cfg, names>>, pc \notin {"off", "mkdef"}, pc' # "mkdef"
    PROVE  DefInv'
BY DEF IInv, DefInv, Computes, names

LEMMA StartIInv ==
    ASSUME IInv, NEW c \in Requests, Start(c)
    PROVE  IInv'
<1>1. c \in Settings
  BY RequestsAssumption
<1>2. TypeOK'
  BY <1>1 DEF Start, IInv, TypeOK, Steps, Computes
<1>3. DefInv'
  BY DEF Start, DefInv, Computes
<1>4. ReadyInv' /\ BootInv' /\ BootsIntoImage'
  BY DEF Start, ReadyInv, BootInv, BootsIntoImage, Booting
<1> QED
  BY <1>2, <1>3, <1>4 DEF Start, IInv, DhcpInv, PbsInv, KeyBeforeKea, Registered, Booting

LEMMA AddNodeIInv ==
    ASSUME IInv, AddNode
    PROVE  IInv'
<1>0. /\ pc = "mkdef" /\ pc' = pc
      /\ UNCHANGED <<cfg, answering, hosts, ddnsKey, dhcp, leases, pbs, boot>>
  BY DEF AddNode
<1>1. PICK n \in left :
          /\ left' = left \ {n}
          /\ \/ nodes' = [nodes EXCEPT ![n] = cfg.nodes[n]] /\ UNCHANGED lost
             \/ lost' = lost \cup {n} /\ UNCHANGED nodes
  BY DEF AddNode
<1>2. /\ n \in Computes /\ n \in Names /\ cfg.nodes[n] \in Addrs
      /\ Computes \subseteq Names /\ nodes \in Resolved
  BY <1>1, SettingsFields DEF IInv, TypeOK, Computes
<1>3. TypeOK'
  BY <1>0, <1>1, <1>2 DEF IInv, TypeOK, Steps, Computes, Resolved, boot
<1>4. DefInv'
  BY <1>0, <1>1, <1>2 DEF IInv, DefInv, Computes, Resolved
<1>5. ReadyInv' /\ BootInv' /\ BootsIntoImage'
  BY <1>0, EarlyFrame DEF Booting
<1> QED
  BY <1>0, <1>3, <1>4, <1>5 DEF IInv, DhcpInv, PbsInv, KeyBeforeKea, Registered, Booting

LEMMA MakeHostsIInv ==
    ASSUME IInv, MakeHosts
    PROVE  IInv'
<1>1. TypeOK'
  BY DEF MakeHosts, IInv, TypeOK, Steps, Computes, boot
<1>2. pc = "mkdef" /\ left = {} /\ pc' \in {"makedns", "makedhcp"}
  BY DEF MakeHosts
<1>3. DefInv'
  BY <1>2 DEF MakeHosts, IInv, DefInv, Computes
<1>4. ReadyInv' /\ BootInv' /\ BootsIntoImage'
  BY <1>2, EarlyFrame DEF MakeHosts, Booting
<1> QED
  BY <1>1, <1>3, <1>4
  DEF MakeHosts, IInv, DhcpInv, PbsInv, KeyBeforeKea, Registered, Booting

\* The DHCP server gets its configuration, is restarted and learns the nodes; with
\* Kea this needs the key.
LEMMA DhcpIInv ==
    ASSUME IInv, MakeDns \/ MakeDhcp \/ RestartDhcp \/ Reserve
    PROVE  IInv'
<1>0. cfg.kea \in BOOLEAN /\ cfg.pbs \in BOOLEAN
  BY SettingsFields DEF IInv, TypeOK
<1>1. /\ pc \in {"makedns", "makedhcp", "restart", "reserve"}
      /\ pc' \in {"makedns", "makedhcp", "restart", "reserve", "register"}
      /\ UNCHANGED <<cfg, answering, names, pbs, boot>>
  BY DEF MakeDns, MakeDhcp, RestartDhcp, Reserve
<1>2. DefInv' /\ ReadyInv' /\ BootInv' /\ BootsIntoImage'
  BY <1>1, DefFrame, EarlyFrame DEF Booting
<1>3. CASE MakeDns
  <2>1. TypeOK'
    BY <1>3, <1>0 DEF MakeDns, IInv, TypeOK, Steps, Computes, boot, names
  <2>2. PbsInv'
    BY <1>3, <1>0 DEF MakeDns, IInv, PbsInv, Registered, Booting, Computes
  <2> QED
    BY <1>3, <1>0, <1>2, <2>1, <2>2
    DEF MakeDns, IInv, DhcpInv, KeyBeforeKea, Registered, Booting, names
<1>4. CASE MakeDhcp
  <2>1. NoNode \in Resolved
    BY DEF NoNode, Resolved
  <2>2. TypeOK'
    BY <1>4, <2>1 DEF MakeDhcp, IInv, TypeOK, Steps, Computes, boot, names
  <2> QED
    BY <1>4, <1>0, <1>2, <2>2
    DEF MakeDhcp, IInv, DhcpInv, PbsInv, KeyBeforeKea, Registered, Booting
<1>5. CASE RestartDhcp
  <2>1. TypeOK'
    BY <1>5 DEF RestartDhcp, IInv, TypeOK, Steps, Computes, boot, names
  <2> QED
    BY <1>5, <1>0, <1>2, <2>1
    DEF RestartDhcp, IInv, DhcpInv, PbsInv, KeyBeforeKea, Registered, Booting
<1>6. CASE Reserve
  <2>1. TypeOK'
    BY <1>6 DEF Reserve, IInv, TypeOK, Steps, Computes, boot, names
  <2>2. PbsInv'
    BY <1>6 DEF Reserve, IInv, PbsInv, Registered, Booting, Computes
  <2> QED
    BY <1>6, <1>0, <1>2, <2>1, <2>2
    DEF Reserve, IInv, DhcpInv, KeyBeforeKea, Registered, Booting, names
<1> QED BY <1>3, <1>4, <1>5, <1>6

\* A node that has been visited is known to PBS and resolves; a restarted server
\* has the addresses of the hosts file.
LEMMA PbsIInv ==
    ASSUME IInv, RegisterNode \/ RestartPbs
    PROVE  IInv'
<1>0. /\ cfg.kea \in BOOLEAN /\ cfg.pbs \in BOOLEAN /\ Computes \subseteq Names
      /\ pbs \in Resolved /\ hosts \in Resolved
  BY SettingsFields DEF IInv, TypeOK, Computes
<1>1. /\ pc = "register" /\ pc' \in {"register", "nodeset"}
      /\ UNCHANGED <<cfg, answering, names, ddnsKey, dhcp, leases, boot>>
  BY DEF RegisterNode, RestartPbs
<1>2. DefInv' /\ ReadyInv' /\ BootInv' /\ BootsIntoImage'
  BY <1>1, DefFrame, EarlyFrame DEF Booting
<1>3. DhcpInv' /\ KeyBeforeKea'
  BY <1>1 DEF IInv, DhcpInv, KeyBeforeKea, Registered, Booting, names
<1>4. CASE RegisterNode
  <2>1. PICK n \in left : /\ hosts[n] # Unset /\ left' = left \ {n}
                          /\ pbs' = [pbs EXCEPT ![n] = IF @ = Unset THEN hosts[n] ELSE @]
    BY <1>4 DEF RegisterNode
  <2>2. n \in Computes /\ n \in Names
    BY <1>0 DEF IInv, TypeOK
  <2>3. TypeOK'
    BY <1>4, <1>0, <2>1, <2>2
    DEF RegisterNode, IInv, TypeOK, Steps, Computes, Resolved, boot, names
  <2>4. PbsInv'
    BY <1>4, <1>0, <2>1, <2>2
    DEF RegisterNode, IInv, PbsInv, Registered, Booting, Computes, Resolved, names
  <2> QED BY <1>2, <1>3, <2>3, <2>4 DEF IInv
<1>5. CASE RestartPbs
  <2>1. TypeOK'
    BY <1>5, <1>0 DEF RestartPbs, IInv, TypeOK, Steps, Computes, Resolved, boot, names
  <2>2. PbsInv'
    BY <1>5, <1>0
    DEF RestartPbs, IInv, PbsInv, Registered, Booting, Computes, Resolved, names
  <2> QED BY <1>2, <1>3, <2>1, <2>2 DEF IInv
<1> QED BY <1>4, <1>5

LEMMA NodeSetIInv ==
    ASSUME IInv, NodeSet
    PROVE  IInv'
<1>0. cfg.kea \in BOOLEAN /\ cfg.pbs \in BOOLEAN
  BY SettingsFields DEF IInv, TypeOK
<1>1. TypeOK'
  BY <1>0 DEF NodeSet, IInv, TypeOK, Steps, Computes, names
<1>2. ReadyInv'
  BY <1>0 DEF NodeSet, IInv, DhcpInv, ReadyInv, names
<1>3. BootInv' /\ BootsIntoImage'
  BY DEF NodeSet, IInv, BootInv, BootsIntoImage, Booting
<1> QED
  BY <1>1, <1>2, <1>3
  DEF NodeSet, IInv, DhcpInv, PbsInv, DefInv, KeyBeforeKea, Registered, Booting, Computes,
      names

\* A node that can be booted comes back, once nodeset has been done.
LEMMA ReadyNodes ==
    ASSUME IInv, pc \in Booting, NEW n \in cfg.bmc
    PROVE  dhcp = "running" /\ (n \notin lost => n \in assigned /\ leases[n] = cfg.nodes[n])
<1>1. n \in Computes /\ n \in Names /\ cfg.nodes[n] # Unset
  BY SettingsFields, NodesAssumption DEF IInv, TypeOK, Computes
<1> QED
  BY <1>1 DEF IInv, DhcpInv, DefInv, ReadyInv, Booting, Registered

\* The steps of setNodesBoot and resetNodes change what is booted, the loop and
\* the step only.
LEMMA BootFrame ==
    ASSUME IInv, pc \in Booting, pc' \in Booting,
           left' \subseteq cfg.bmc, pxe' \subseteq cfg.bmc, booted' \subseteq cfg.bmc,
           UNCHANGED <<cfg, answering, names, ddnsKey, dhcp, leases, pbs, assigned>>
    PROVE  /\ TypeOK' /\ DhcpInv' /\ PbsInv' /\ DefInv' /\ ReadyInv' /\ BootsIntoImage'
           /\ KeyBeforeKea'
<1>1. cfg.bmc \subseteq Computes
  BY SettingsFields DEF IInv, TypeOK, Computes
<1>2. TypeOK'
  BY <1>1 DEF IInv, TypeOK, Steps, Computes, Booting, names
<1>3. BootsIntoImage'
  BY ReadyNodes DEF BootsIntoImage, names
<1> QED
  BY <1>2, <1>3
  DEF IInv, DhcpInv, PbsInv, DefInv, ReadyInv, KeyBeforeKea, Registered, Booting, Computes,
      names

\* A line of the script reaches its node when the BMC answers.
LEMMA DirectLine ==
    ASSUME NEW reached, NEW next, NEW rest, answering \ left \subseteq reached,
           NEW n \in left, NEW ok \in BOOLEAN, n \in answering => ok,
           rest = Rest(n, ok), next = IF ok THEN reached \cup {n} ELSE reached
    PROVE  answering \ rest \subseteq next
BY DEF Rest

LEMMA SetNodesBootIInv ==
    ASSUME IInv, SetNodesBoot
    PROVE  IInv'
<1>0. /\ UNCHANGED <<cfg, answering, names, ddnsKey, dhcp, leases, pbs, assigned, booted>>
      /\ answering \subseteq cfg.bmc /\ pxe \subseteq cfg.bmc /\ booted \subseteq cfg.bmc
  BY DEF SetNodesBoot, IInv, TypeOK
<1>1. CASE pc = "rsetboot" /\ XcatCommand(pxe, "rpower", "ipmiBoot")
  <2>1. /\ pc \in Booting /\ pc' \in Booting
        /\ left' \subseteq cfg.bmc /\ pxe' \subseteq cfg.bmc
    BY <1>1 DEF XcatCommand, Booting
  <2>2. BootInv'
    BY <1>0, <1>1 DEF XcatCommand, BootInv, Booting
  <2> QED BY <1>0, <2>1, <2>2, BootFrame DEF IInv
<1>2. CASE pc = "ipmiBoot" /\ DirectCommand(pxe)
  <2>1. PICK n \in left, ok \in BOOLEAN :
            /\ n \in answering => ok
            /\ left' = Rest(n, ok)
            /\ pxe' = IF ok THEN pxe \cup {n} ELSE pxe
            /\ UNCHANGED pc
    BY <1>2 DEF DirectCommand
  <2>2. left \subseteq cfg.bmc
    BY <1>2 DEF IInv, BootInv
  <2>3. /\ pc \in Booting /\ pc' \in Booting
        /\ left' \subseteq cfg.bmc /\ pxe' \subseteq cfg.bmc
    BY <1>0, <1>2, <2>1, <2>2 DEF Rest, Booting
  <2>4. answering \ left \subseteq pxe
    BY <1>2 DEF IInv, BootInv
  <2>5. answering \ left' \subseteq pxe'
    BY <2>1, <2>4, DirectLine
  <2>6. BootInv'
    BY <1>0, <1>2, <2>1, <2>3, <2>5 DEF BootInv, Booting
  <2> QED BY <1>0, <2>3, <2>6, BootFrame DEF IInv
<1>3. CASE pc = "ipmiBoot" /\ DirectDone("rpower") /\ UNCHANGED pxe
  <2>1. /\ pc \in Booting /\ pc' \in Booting
        /\ left' \subseteq cfg.bmc /\ pxe' \subseteq cfg.bmc
    BY <1>0, <1>3 DEF DirectDone, Booting
  <2>2. BootInv'
    BY <1>0, <1>3 DEF DirectDone, IInv, BootInv, Booting
  <2> QED BY <1>0, <2>1, <2>2, BootFrame DEF IInv
<1> QED BY <1>1, <1>2, <1>3 DEF SetNodesBoot

LEMMA ResetNodesIInv ==
    ASSUME IInv, ResetNodes
    PROVE  IInv'
<1>0. /\ UNCHANGED <<cfg, answering, names, ddnsKey, dhcp, leases, pbs, assigned, pxe>>
      /\ answering \subseteq cfg.bmc /\ pxe \subseteq cfg.bmc /\ booted \subseteq cfg.bmc
  BY DEF ResetNodes, IInv, TypeOK
<1>1. CASE pc = "rpower" /\ XcatCommand(booted, "done", "ipmiReset")
  <2>1. /\ pc \in Booting /\ pc' \in Booting
        /\ left' \subseteq cfg.bmc /\ booted' \subseteq cfg.bmc
    BY <1>1 DEF XcatCommand, Booting
  <2>2. BootInv'
    BY <1>0, <1>1 DEF XcatCommand, IInv, BootInv, Booting
  <2> QED BY <1>0, <2>1, <2>2, BootFrame DEF IInv
<1>2. CASE pc = "ipmiReset" /\ DirectCommand(booted)
  <2>1. PICK n \in left, ok \in BOOLEAN :
            /\ n \in answering => ok
            /\ left' = Rest(n, ok)
            /\ booted' = IF ok THEN booted \cup {n} ELSE booted
            /\ UNCHANGED pc
    BY <1>2 DEF DirectCommand
  <2>2. left \subseteq cfg.bmc
    BY <1>2 DEF IInv, BootInv
  <2>3. /\ pc \in Booting /\ pc' \in Booting
        /\ left' \subseteq cfg.bmc /\ booted' \subseteq cfg.bmc
    BY <1>0, <1>2, <2>1, <2>2 DEF Rest, Booting
  <2>4. answering \ left \subseteq booted
    BY <1>2 DEF IInv, BootInv
  <2>5. answering \ left' \subseteq booted'
    BY <2>1, <2>4, DirectLine
  <2>6. BootInv'
    BY <1>0, <1>2, <2>1, <2>3, <2>5 DEF IInv, BootInv, Booting
  <2> QED BY <1>0, <2>3, <2>6, BootFrame DEF IInv
<1>3. CASE pc = "ipmiReset" /\ DirectDone("done") /\ UNCHANGED booted
  <2>1. /\ pc \in Booting /\ pc' \in Booting
        /\ left' \subseteq cfg.bmc /\ booted' \subseteq cfg.bmc
    BY <1>0, <1>3 DEF DirectDone, Booting
  <2>2. BootInv'
    BY <1>0, <1>3 DEF DirectDone, IInv, BootInv, Booting
  <2> QED BY <1>0, <2>1, <2>2, BootFrame DEF IInv
<1> QED BY <1>1, <1>2, <1>3 DEF ResetNodes

LEMMA StopIInv ==
    ASSUME IInv, Stop
    PROVE  IInv'
<1>1. TypeOK'
  BY DEF Stop, IInv, TypeOK, Steps, Computes, boot, names
<1>2. pc' = "off" /\ UNCHANGED <<cfg, names, dhcp, leases, boot>>
  BY DEF Stop
<1>3. BootsIntoImage'
  BY <1>2 DEF IInv, BootsIntoImage, names, boot
<1> QED
  BY <1>1, <1>2, <1>3
  DEF IInv, DhcpInv, PbsInv, DefInv, ReadyInv, BootInv, KeyBeforeKea, Registered, Booting

LEMMA StutterIInv ==
    ASSUME IInv, UNCHANGED vars
    PROVE  IInv'
BY DEF vars, IInv, TypeOK, Computes, DhcpInv, PbsInv, DefInv, ReadyInv, BootInv,
       BootsIntoImage, KeyBeforeKea

\* The invariant is inductive: one lemma per group of actions.
LEMMA NextIInv == IInv /\ [Next]_vars => IInv'
BY StartIInv, AddNodeIInv, MakeHostsIInv, DhcpIInv, PbsIInv, NodeSetIInv, SetNodesBootIInv,
   ResetNodesIInv, StopIInv, StutterIInv
DEF Next, AddNodes, BootNodes

LEMMA Invariance == Spec => []IInv
BY InitIInv, NextIInv, PTL DEF Spec

-----------------------------------------------------------------------------
\* A node that XCAT::install sets to boot or resets can come back, whatever an
\* earlier run left: the DHCP server runs, gives it the address it has in this run
\* and it has its image, unless its own mkdef has failed unnoticed.
THEOREM NodesBootIntoImage == Spec => []BootsIntoImage
<1>1. IInv => BootsIntoImage
  BY DEF IInv
<1> QED BY Invariance, <1>1, PTL

\* addNodes has made the DDNS key whenever it asks Kea for a configuration.
THEOREM KeaHasItsKey == Spec => []KeyBeforeKea
<1>1. IInv => KeyBeforeKea
  BY DEF IInv
<1> QED BY Invariance, <1>1, PTL

\* runIpmiCommandWithFallback: however far xCAT's command gets, and whichever of the
\* direct commands fail, every node whose BMC answers has been tried by the end of
\* the run.
THEOREM FallbackReachesTheRest == Spec => []AnsweringNodesBoot
<1>1. IInv => AnsweringNodesBoot
  BY DEF IInv, BootInv, AnsweringNodesBoot
<1> QED BY Invariance, <1>1, PTL

\* A run with PBS that completes leaves the server and the hosts file in agreement
\* on every node of the cluster, whatever address PBS had cached.
THEOREM PbsAgreesWithHosts == Spec => []PbsFollowsHosts
<1>1. IInv => PbsFollowsHosts
  BY DEF IInv, PbsInv, PbsFollowsHosts, Registered, Booting
<1> QED BY Invariance, <1>1, PTL
=============================================================================
