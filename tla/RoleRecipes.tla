----------------------------- MODULE RoleRecipes -----------------------------
(***************************************************************************)
(* The roles that Shell::install runs on the head node, as recipes: the    *)
(* commands of a role in the order of its code, with what each command     *)
(* finds on the head node (needs), what it puts there (gives) and what a   *)
(* crash in the middle of it leaves behind (leaves).  The text of the      *)
(* commands is left out.                                                   *)
(*                                                                         *)
(* A role is either code, where every command is checked (shell::cmd,      *)
(* checkCommand: a failure throws) or not (executeCommand, IOSService: the *)
(* result is dropped), or a script that Runner::run hands to bash, where   *)
(* only the exit status of the whole script is looked at.                  *)
(*                                                                         *)
(* A configuration is a record                                             *)
(*   deb       the head node is Ubuntu (DEB packages)                      *)
(*   split     sshd needs the extra key signing package (EL10 and Ubuntu)  *)
(*   firewall  Cluster::isFirewall (no answerfile key sets it)             *)
(*   ofed      "none", "inbox" or "doca"                                   *)
(*   queue     "none", "slurm" or "pbs"                                    *)
(*   skip      the steps given with --skip                                 *)
(*   stop      --stop-after dump-cluster-state                             *)
(*   newer     dnf offers a newer kernel than the running one              *)
(***************************************************************************)
EXTENDS Naturals, Sequences, FiniteSets

Command(op, checked, needs, gives) ==
    [op |-> op, checked |-> checked, needs |-> needs, gives |-> gives,
     leaves |-> {}, exits |-> {}, quiet |-> FALSE]
Must(op, needs, gives) == Command(op, TRUE, needs, gives)    \* throws
Try(op, needs, gives)  == Command(op, FALSE, needs, gives)   \* result dropped
Line(op, needs, gives) == Command(op, FALSE, needs, gives)   \* of a script
\* A line of a script that ends it successfully when one of the facts holds.
ExitIf(op, facts) == [Line(op, {}, {}) EXCEPT !.exits = facts]
\* A line whose exit status is 0 whether or not it could do its work.
Quiet(line) == [line EXCEPT !.quiet = TRUE]
\* A line that a crash leaves half done.
Leaving(line, facts) == [line EXCEPT !.leaves = facts]

When(condition, commands) == IF condition THEN commands ELSE <<>>
Code(steps)   == [script |-> FALSE, steps |-> steps]
Script(steps) == [script |-> TRUE, steps |-> steps]

\* What is on the head node before the first run.
Fresh == {"os", "chrony", "sshd", "audit"}

Dump(c) == Code(<<Must("dump", {}, {})>>)

\* apt update, or dnf makecache, the query for the newest kernel and, unless
\* skipped, the comparison that aborts the installation.
Check(c) ==
    Code(IF c.deb THEN <<Must("update", {"os"}, {})>>
         ELSE <<Must("makecache", {"os"}, {}), Must("repoquery", {"os"}, {})>>
              \o When("check-kernel" \notin c.skip,
                      <<Must("kernel",
                             IF c.newer THEN {"reboot"} ELSE {}, {"kernel"})>>))

Repos(c) == Code(<<Must("repos", {"os"}, {"repos"})>>)

\* The packages, then the time zone.
Base(c) ==
    Script(<<Line("base", {"repos"}, {"tools"}), Line("timezone", {}, {"zone"})>>)

\* NetworkManager, the profiles, the host name and the hosts file; module
\* HeadNetwork has the detail.
NetworkRole(c) ==
    Code(When("network" \notin c.skip,
         <<Try("enable-nm", {}, {"nm"})>>
         \o When(c.deb, <<Must("netplan", {"nm"}, {})>>)
         \o <<Try("dns-none", {"nm"}, {"resolv"}),
              Must("profiles", {"nm"}, {"management"}),
              Must("hostname", {}, {"hostname"}),
              Must("hosts", {"management"}, {"hosts"})>>))

\* The edits of sshd_config and, where it is a package of its own, ssh-keysign.
Sshd(c) ==
    Script(<<Line("root-login", {"sshd"}, {"keylogin"})>>
           \o When(c.split, <<Line("keysign", {"repos"}, {"keysign"})>>)
           \o <<Line("hostbased", {"sshd"}, {"hostbased"}),
                Line("ssh-client", {}, {"sshclient"})>>)

Selinux(c) ==
    Code(When(~c.deb, <<Try("setenforce", {}, {}), Must("selinux", {}, {"selinux"})>>))

Locale(c) == Code(<<Try("locale", {}, {"locale"})>>)

\* The package, the lines of chrony.conf, the service.
Timesync(c) ==
    Script(<<Line("chrony", {"repos"}, {"chrony"}),
             Line("chrony.conf", {"chrony"}, {"timeserver"}),
             Line("chronyd", {"chrony"}, {"chronyd"})>>)

\* Firewalld gets its trusted interfaces or is turned off; on Ubuntu only the
\* second is implemented.
Firewall(c) ==
    Code(IF c.deb THEN When(~c.firewall, <<Must("ufw", {}, {"open"})>>)
         ELSE IF c.firewall
              THEN <<Try("firewalld", {}, {"firewalld"}),
                     Try("trusted", {"firewalld"}, {}),
                     Try("reload", {"firewalld"}, {"open"})>>
              ELSE <<Try("firewalld-off", {}, {"open"})>>)

\* The inbox group, or DOCA; module Ofed has the detail of the second.
OfedRole(c) ==
    Code(When("infiniband" \notin c.skip,
         CASE c.ofed = "none"  -> <<>>
           [] c.ofed = "inbox" ->
                IF c.deb THEN <<Must("rdma", {"repos"}, {"ofed"})>>
                         ELSE <<Try("rdma", {"repos"}, {"ofed"})>>
           [] c.ofed = "doca"  ->
                <<Must("doca", {"repos"} \cup
                       (IF "check-kernel" \in c.skip THEN {} ELSE {"kernel"}),
                       {"ofed"})>>))

Fail2ban(c) ==
    Script(<<Line("fail2ban", {"repos"}, {"f2b"}),
             Line("jail.local", {"f2b"}, {"jail"}),
             Line("fail2ban-on", {"f2b"}, {"fail2ban"})>>)

Audit(c) ==
    Script(<<Line("audit", {"repos"}, {"audit"}),
             Line("auditd.conf", {}, {"auditconf"}),
             Line("auditd", {"audit"}, {"auditd"})>>)

\* Mutant of Aide: the package is taken for the database.
AideSkipsInstalled(c) ==
    Script(<<Line("aide", {"repos"}, {"aide"}),
             ExitIf("aide.db", {"aide"}),
             Line("aide-init", {"aide"}, {"aidenew"}),
             Quiet(Line("aide-move", {"aidenew"}, {"aidedb"}))>>)

\* The database is initialised unless there is one; the move that ends the
\* script succeeds whether or not there is something to move.
Aide(c) ==
    Script(<<Line("aide", {"repos"}, {"aide"}),
             ExitIf("aide.db", {"aidedb"}),
             Line("aide-init", {"aide"}, {"aidenew"}),
             Quiet(Line("aide-move", {"aidenew"}, {"aidedb"}))>>)

\* The clone creates its .git directory before it has the files.
Spack(c) ==
    Script(When("spack" \notin c.skip,
         <<ExitIf("spack-git", {"spack.git"}),
           Line("git", {"repos"}, {"git"}),
           Leaving(Line("clone", {"git"}, {"spack.git", "spack"}), {"spack.git"}),
           Line("chown", {"spack.git"}, {}),
           Line("chmod", {"spack.git"}, {})>>))

\* The exports are written and the services enabled; the exportfs and the
\* firewall lines that follow succeed when firewalld is not active.
Nfs(c) ==
    Script(<<Line("nfs", {"repos"}, {"nfspkg"}),
             Line("exports", {}, {"exports"}),
             Line("nfs-on", {"nfspkg"}, {"nfs"}),
             Quiet(Line("nfs-firewall", {"firewalld"}, {}))>>)

Ohpc(c) ==
    Code(IF c.deb THEN <<Must("ohpc", {"repos"}, {"ohpc"})>>
                  ELSE <<Try("ohpc", {"repos"}, {"ohpc"})>>)

\* OpenPBS server: package, pbs.conf, service, three settings.
Pbs(c) ==
    <<Try("pbs", {"repos"}, {"pbspkg"}),
      Must("pbs.conf", {"hostname"}, {"pbsconf"}),
      Try("pbs-on", {"pbspkg", "pbsconf", "hosts"}, {"server"}),
      Try("qmgr", {"server"}, {"queue"})>>

\* The three scripts of the SLURM role; module SlurmController has the detail.
Slurm(c) ==
    <<Must("slurmdbd", {"repos"}, {"slurmdb"}),
      Must("slurm.conf", {"slurmdb"}, {"slurmconf"}),
      Must("slurmctld", {"slurmconf", "hosts", "hostname"}, {"server", "queue"})>>

QueueSystem(c) ==
    Code(CASE c.queue = "slurm" -> Slurm(c)
           [] c.queue = "pbs"   -> Pbs(c)
           [] OTHER             -> <<>>)

\* xCAT or Confluent: modules XcatSetup, XcatImage, XcatNodes and Confluent.
Provisioner(c) ==
    Code(<<Must("provisioner",
                {"repos", "management", "hostname", "hosts"}, {"nodes"})>>)

Recipe(role, c) ==
    CASE role = "dump"        -> Dump(c)
      [] role = "check"       -> Check(c)
      [] role = "repos"       -> Repos(c)
      [] role = "base"        -> Base(c)
      [] role = "network"     -> NetworkRole(c)
      [] role = "sshd"        -> Sshd(c)
      [] role = "selinux"     -> Selinux(c)
      [] role = "locale"      -> Locale(c)
      [] role = "timesync"    -> Timesync(c)
      [] role = "firewall"    -> Firewall(c)
      [] role = "ofed"        -> OfedRole(c)
      [] role = "fail2ban"    -> Fail2ban(c)
      [] role = "audit"       -> Audit(c)
      [] role = "aide"        -> Aide(c)
      [] role = "spack"       -> Spack(c)
      [] role = "nfs"         -> Nfs(c)
      [] role = "ohpc"        -> Ohpc(c)
      [] role = "queuesystem" -> QueueSystem(c)
      [] role = "provisioner" -> Provisioner(c)

\* Mutant of InstallOrder: the queue system is set up before the network.
QueueFirst ==
    <<"dump", "check", "repos", "base", "queuesystem", "network", "sshd",
      "selinux", "locale", "timesync", "firewall", "ofed", "fail2ban", "audit",
      "aide", "spack", "nfs", "ohpc", "provisioner">>

InstallOrder ==
    <<"dump", "check", "repos", "base", "network", "sshd", "selinux", "locale",
      "timesync", "firewall", "ofed", "fail2ban", "audit", "aide", "spack",
      "nfs", "ohpc", "queuesystem", "provisioner">>
==============================================================================
