--------------------------- MODULE MCInstallEngine ---------------------------
(***************************************************************************)
(* Instances of InstallEngine.  The firewall is off in all of them: no     *)
(* option and no answerfile key of the program turns it on.  There is      *)
(* always a queue system and an InfiniBand stack: Cluster::fillData sets   *)
(* SLURM and the inbox stack where the answerfile has none.                *)
(***************************************************************************)
EXTENDS InstallEngine

\* Head nodes of the three kinds of operating system, with each queue system,
\* each InfiniBand stack and each option that leaves a step out.
MCConfigurations ==
    {c \in [deb : BOOLEAN, split : BOOLEAN, firewall : {FALSE},
            ofed : {"inbox", "doca"}, queue : {"slurm", "pbs"},
            skip : {{}, {"network"}, {"spack", "infiniband"}, {"check-kernel"}},
            stop : BOOLEAN, newer : BOOLEAN] :
        /\ c.deb => c.split /\ c.ofed # "doca" /\ ~c.newer
        /\ c.stop => c.ofed = "inbox" /\ c.queue = "pbs"}

\* One configuration per operating system, for the runs with faults.
MCFew ==
    {c \in MCConfigurations :
        c.skip = {} /\ ~c.stop /\ ~c.newer /\ c.queue = "pbs" /\ c.ofed = "inbox"}

\* --roles with a part of the roles, on a head node installed before.
MCPlans == {InstallOrder, <<"repos", "base", "nfs">>, <<"repos", "spack", "aide">>}

MCFaulty ==
    {"base", "ohpc", "pbs", "qmgr", "nfs", "clone", "rdma", "hosts", "aide-init",
     "fail2ban", "provisioner"}

\* Crashes with every configuration, or faults with a few of them.
MCFaultCases == [cfg : MCFew, plan : {InstallOrder}, faulty : {MCFaulty}, crashes : {FALSE}]
MCCases ==
    [cfg : MCConfigurations, plan : MCPlans, faulty : {{}}, crashes : {TRUE}]
        \cup MCFaultCases
==============================================================================
