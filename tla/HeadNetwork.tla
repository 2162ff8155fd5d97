----------------------------- MODULE HeadNetwork -----------------------------
(***************************************************************************)
(* The network of the head node: Cluster::fillData reads what the          *)
(* answerfile leaves out from the live interfaces, and the network role    *)
(* then rewrites those interfaces with nmcli, sets the host name and adds  *)
(* the head node to /etc/hosts.  A run may be killed between two nmcli     *)
(* commands, and the next run starts by reading the interfaces again.      *)
(*                                                                         *)
(* NetworkManager and the kernel are external: a profile is bound to an    *)
(* interface, several may have one name, at most one is active on an       *)
(* interface, and an interface has an address and a mask while one is.     *)
(* nmcli takes profiles by name: delete takes all that have it, up one.    *)
(***************************************************************************)
EXTENDS Naturals, Sequences, FiniteSets, SequencesExt

CONSTANTS
    Requests,   \* [addr, mask (of Service; "" : read it), nets, on, ubuntu, dry]
    WireMask,   \* network -> its mask
    Found,      \* the profiles a new head node may have on its interfaces
    MaxRuns     \* bound: how often the installer is started

VARIABLES
    req, runs,
    phase,     \* "idle", "loaded", "profile", "finish", "done", "stopped", "crashed"
    loaded,    \* the mask of the service network in the cluster model
    todo,      \* the connections of the head node still to configure
    step,      \* next command of the script of the first of them
    profiles,  \* NetworkManager: [name, on, addr, mask]
    active,    \* interface -> name of the active profile, or "none"
    dns,       \* 90-dns-none.conf: "absent", "empty", "none"
    hosts,     \* addresses of the head node's name in /etc/hosts, in order
    named,     \* the host name is set
    stuck      \* an old profile could not be deleted in this run

nvars == <<req, runs, phase, loaded, todo, step, profiles, active, dns, hosts, named,
           stuck>>
host == <<profiles, active, dns, hosts, named>>

\* What a request may say of the interfaces (its field on): the program only asks
\* for one that exists, so that two networks may share one.
Devices == {"eth0", "eth1", "eth2", "ib0"}
Cablings == [{"External", "Management", "Service", "Application"} -> Devices]
Loopback == "127.0.1.1"

\* The order in which fillData adds the connections.
Connections(nets) ==
    LET two == <<"Management", "External">>
        three == IF "Service" \in nets THEN Append(two, "Service") ELSE two
    IN  IF "Application" \in nets THEN Append(three, "Application") ELSE three

ActiveOn(i) == {p \in profiles : p.on = i /\ p.name = active[i]}

NInit ==
    /\ req \in Requests
    /\ runs = 0
    /\ phase = "idle"
    /\ loaded = "" /\ todo = <<>> /\ step = 0
    /\ profiles \in Found
    /\ active \in {a \in [Devices -> {p.name : p \in profiles} \cup {"none"}] :
                    /\ a[req.on["External"]] # "none"
                    /\ \A i \in Devices :
                        a[i] # "none" => \E p \in profiles : p.on = i /\ p.name = a[i]}
    /\ dns = "absent"
    /\ hosts = IF req.ubuntu THEN <<Loopback>> ELSE <<>>
    /\ named = FALSE /\ stuck = FALSE

\* Mutant of FetchSubnetMask: the mask of the management interface is read.
FetchManagementMask(i) == {p.mask : p \in ActiveOn(req.on["Management"])}

\* Network::fetchSubnetMask: the mask of an interface that has an address.
FetchSubnetMask(i) == {p.mask : p \in ActiveOn(i)}

\* fillData: the mask of the management network has to be in the answerfile, that
\* of the service network may be read from its interface, and an interface
\* without one ends the program.  The cabling is the same in every run.
LoadCluster(r) ==
    /\ phase \in {"idle", "done", "stopped", "crashed"}
    /\ runs < MaxRuns
    /\ runs' = runs + 1
    /\ r.ubuntu = req.ubuntu /\ r.on = req.on
    /\ req' = r
    /\ stuck' = FALSE
    /\ LET masks == IF "Service" \notin r.nets THEN {""}
                    ELSE IF r.mask # "" THEN {r.mask}
                    ELSE FetchSubnetMask(r.on["Service"])
       IN  \/ masks = {} /\ phase' = "stopped" /\ UNCHANGED loaded
           \/ loaded' \in masks /\ phase' = "loaded"
    /\ UNCHANGED <<todo, step>> /\ UNCHANGED host

\* enableService, the netplan renderer, 90-dns-none.conf and the restart of
\* NetworkManager, which keeps the active profiles.  addStringToFile opens the
\* file for appending, which creates it, before it looks at --dry.
DisableDns ==
    /\ phase = "loaded"
    /\ dns' = IF ~req.dry THEN "none"
              ELSE IF dns = "absent" THEN "empty" ELSE dns
    /\ todo' = Connections(req.nets)
    /\ phase' = "profile"
    /\ step' = 1
    /\ UNCHANGED <<req, runs, loaded, profiles, active, hosts, named, stuck>>

First == Head(todo)
Wanted(p) == [name |-> p, on |-> req.on[p], addr |-> req.addr,
              mask |-> IF p = "Service" THEN loaded ELSE WireMask[p]]

\* The external connection is left alone; a dry run only logs the script.
LeftAlone(p) == p = "External" \/ req.dry

SkipConnection ==
    /\ phase = "profile" /\ todo # <<>> /\ step = 1
    /\ LeftAlone(First)
    /\ todo' = Tail(todo)
    /\ UNCHANGED <<req, runs, phase, loaded, step, stuck>> /\ UNCHANGED host

Configuring(s) ==
    /\ phase = "profile" /\ todo # <<>> /\ step = s
    /\ ~LeftAlone(First)

\* nmcli connection delete
Delete(name) ==
    /\ profiles' = {p \in profiles : p.name # name}
    /\ active' = [i \in Devices |-> IF active[i] = name THEN "none" ELSE active[i]]

\* "nmcli connection show" names an interface for active profiles only: here the
\* profile of another network goes that has the same interface.
DeleteActive ==
    /\ Configuring(1)
    /\ Delete(active[req.on[First]])
    /\ step' = 2
    /\ UNCHANGED <<req, runs, phase, loaded, todo, dns, hosts, named, stuck>>

\* Mutant of DeleteOwn: the old profile of the same name is kept.
KeepOwn ==
    /\ Configuring(2)
    /\ step' = 3
    /\ UNCHANGED <<req, runs, phase, loaded, todo, stuck>> /\ UNCHANGED host

\* "|| :" goes on when the old profile could not be deleted.
DeleteOwn ==
    /\ Configuring(2)
    /\ \/ Delete(First) /\ UNCHANGED stuck
       \/ /\ \E p \in profiles : p.name = First
          /\ stuck' = TRUE
          /\ UNCHANGED <<profiles, active>>
    /\ step' = 3
    /\ UNCHANGED <<req, runs, phase, loaded, todo, dns, hosts, named>>

AddProfile ==
    /\ Configuring(3)
    /\ profiles' = profiles \cup {Wanted(First)}
    /\ step' = 4
    /\ UNCHANGED <<req, runs, phase, loaded, todo, active, dns, hosts, named, stuck>>

BringUp ==
    /\ Configuring(4)
    /\ \E p \in profiles :
          p.name = First /\ active' = [active EXCEPT ![p.on] = First]
    /\ todo' = Tail(todo)
    /\ step' = 1
    /\ UNCHANGED <<req, runs, phase, loaded, profiles, dns, hosts, named, stuck>>

\* One of the other commands fails: shell::cmd runs them with -e and throws.
CommandFails ==
    /\ phase = "profile" /\ todo # <<>> /\ ~LeftAlone(First)
    /\ phase' = "stopped"
    /\ UNCHANGED <<req, runs, loaded, todo, step, stuck>> /\ UNCHANGED host

SetHostname ==
    /\ phase = "profile" /\ todo = <<>>
    /\ named' = (named \/ ~req.dry)
    /\ phase' = "finish"
    /\ UNCHANGED <<req, runs, loaded, todo, step, profiles, active, dns, hosts, stuck>>

\* The file is backed up, Ubuntu's loopback line dropped, and the line of this
\* run added at the end unless the file has it.
WriteHosts ==
    /\ phase = "finish"
    /\ LET kept == SelectSeq(hosts, LAMBDA a : a # Loopback)
       IN  hosts' = IF req.dry THEN hosts
                    ELSE IF Contains(kept, req.addr) THEN kept
                    ELSE Append(kept, req.addr)
    /\ phase' = "done"
    /\ UNCHANGED <<req, runs, loaded, todo, step, profiles, active, dns, named, stuck>>

Crash ==
    /\ phase \in {"loaded", "profile", "finish"}
    /\ phase' = "crashed"
    /\ UNCHANGED <<req, runs, loaded, todo, step, stuck>> /\ UNCHANGED host

NNext ==
    \/ \E r \in Requests : LoadCluster(r)
    \/ DisableDns \/ SkipConnection \/ DeleteActive \/ DeleteOwn \/ AddProfile
    \/ BringUp \/ CommandFails \/ SetHostname \/ WriteHosts \/ Crash

------------------------------------------------------------------------------

\* A network whose interface a later one of this cluster has too: the script of
\* the later one deletes its profile.
Rank == [Management |-> 1, External |-> 2, Service |-> 3, Application |-> 4]
Displaced(p) == \E q \in req.nets : req.on[q] = req.on[p] /\ Rank[p] < Rank[q]

\* What the network role promises the roles that follow it: every network of the
\* cluster has one profile, with the address and the mask of this run, and it is
\* the one that is up on its interface, whatever an interrupted run left there.
\* Two exceptions: of the networks that share an interface only the last is up;
\* and an old profile that could not be deleted leaves two of one name.
NetworksUp ==
    phase = "done" /\ ~req.dry /\ ~stuck =>
        \A p \in {"Management"} \cup req.nets : ~Displaced(p) =>
            /\ {q \in profiles : q.name = p} = {Wanted(p)}
            /\ active[req.on[p]] = p

\* A run that reads the mask of the service network from its interface reads what
\* the first run read, though the role has deleted and rewritten the profile of
\* the interface in between, or was killed after deleting it, if no other network
\* has that interface.
OwnWire(r) ==
    \A p \in {"External", "Management", "Application"} : r.on[p] # r.on["Service"]
MaskStable ==
    /\ phase \in {"loaded", "profile", "finish", "done"}
    /\ OwnWire(req) /\ loaded # ""
    => loaded = WireMask["Service"]
==============================================================================
