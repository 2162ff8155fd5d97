--------------------------- MODULE SlurmController ---------------------------
(***************************************************************************)
(* The SLURM role: three shell scripts, each run with -e, that install the *)
(* server, secure the accounting database, write slurmdbd.conf and         *)
(* slurm.conf and restart the daemons.  MariaDB and the daemons are        *)
(* external.  A run may be killed anywhere and the role runs again, with   *)
(* the same answers or with others.                                        *)
(***************************************************************************)
EXTENDS Naturals, FiniteSets

CONSTANTS
    Answers,    \* [root, slurm, nodes, range]: two passwords, the names of the
                \* nodes, and as many names made of the prefix and 01, 02, ...
    Tries,      \* how often a script looks whether a daemon is ready (20)
    MaxRuns     \* bound: how often the role runs

VARIABLES
    answers, runs,
    step,      \* next command, "idle", "stopped", "denied", "crashed", "done"
    tries,     \* looks at the daemon that is waited for
    root,      \* MariaDB's root password ("" : none)
    account,   \* password of the slurm user ("none": no such user)
    dbdconf,   \* StoragePass in slurmdbd.conf
    conf,      \* the nodes in slurm.conf, {"seed"} for the file as copied
    dbd, ctld, \* what the running daemons read: a password, node names; "off"
    roots      \* root passwords of all runs so far

svars == <<answers, runs, step, tries, root, account, dbdconf, conf, dbd, ctld, roots>>
files == <<root, account, dbdconf, conf>>
daemons == <<dbd, ctld>>

SInit ==
    /\ answers \in Answers
    /\ runs = 0 /\ step = "idle" /\ tries = 0
    /\ root = "" /\ account = "none" /\ dbdconf = "none" /\ conf = {}
    /\ dbd = "off" /\ ctld = {}
    /\ roots = {}

\* The role aborts when the answerfile has no node or lacks a node setting.
Begin(a) ==
    /\ step \in {"idle", "stopped", "denied", "crashed", "done"}
    /\ runs < MaxRuns
    /\ runs' = runs + 1
    /\ answers' = a
    /\ step' = IF a.nodes = {} THEN "stopped" ELSE "install"
    /\ roots' = IF a.nodes = {} THEN roots ELSE roots \cup {a.root}
    /\ UNCHANGED tries /\ UNCHANGED files /\ UNCHANGED daemons

Go(from, to) ==
    /\ step = from
    /\ step' = to
    /\ tries' = 0
    /\ UNCHANGED <<answers, runs, roots>>

\* The packages, and munge and mariadb started.
InstallServer == Go("install", "login") /\ UNCHANGED files /\ UNCHANGED daemons

\* Mutant of Passwords: only the fresh database is expected.
FreshOnly == {""}

\* Passwords the script tries for root: none, then that of the answerfile.
Passwords == {"", answers.root}

Login ==
    /\ Go("login", IF root \in Passwords THEN "root" ELSE "denied")
    /\ UNCHANGED files /\ UNCHANGED daemons

SetRoot ==
    /\ Go("root", "account")
    /\ root' = answers.root
    /\ UNCHANGED <<account, dbdconf, conf>> /\ UNCHANGED daemons

SetAccount ==
    /\ Go("account", "dbdconf")
    /\ account' = answers.slurm
    /\ UNCHANGED <<root, dbdconf, conf>> /\ UNCHANGED daemons

WriteDbdConf ==
    /\ Go("dbdconf", "seed")
    /\ dbdconf' = answers.slurm
    /\ UNCHANGED <<root, account, conf>> /\ UNCHANGED daemons

\* slurm.conf is copied anew, and its node lines dropped.
SeedConf ==
    /\ Go("seed", "nodes")
    /\ conf' = {"seed"}
    /\ UNCHANGED <<root, account, dbdconf>> /\ UNCHANGED daemons

\* One NodeName line per node of the answerfile, and the partition, whose nodes
\* are named by the prefix and a number whatever the names of the nodes.
AppendNodes ==
    /\ Go("nodes", "restart")
    /\ conf' = conf \cup answers.nodes
    /\ UNCHANGED <<root, account, dbdconf>> /\ UNCHANGED daemons

\* Mutant of RestartDbd: a running slurmdbd is left running.
StartDbd ==
    /\ Go("restart", "dbd")
    /\ dbd' = IF dbd # "off" THEN dbd ELSE IF dbdconf = account THEN dbdconf ELSE "off"
    /\ UNCHANGED ctld /\ UNCHANGED files

\* systemctl restart: the daemon reads the file it has now.  slurmdbd stays up
\* only if MariaDB accepts its password.
RestartDbd ==
    /\ Go("restart", "dbd")
    /\ dbd' = IF dbdconf = account THEN dbdconf ELSE "off"
    /\ UNCHANGED ctld /\ UNCHANGED files

\* slurmctld does not come up with a partition of nodes it does not know.
CtldReads == IF answers.range \subseteq conf THEN conf ELSE {}

\* Mutant of RestartCtld: the controller is started, not restarted.
StartCtld ==
    /\ Go("dbd", "ctld")
    /\ dbd # "off"
    /\ ctld' = IF ctld = {} THEN CtldReads ELSE ctld
    /\ UNCHANGED dbd /\ UNCHANGED files

\* slurmdbd is active within the tries, or there after them.
RestartCtld ==
    /\ Go("dbd", "ctld")
    /\ dbd # "off"
    /\ ctld' = CtldReads
    /\ UNCHANGED dbd /\ UNCHANGED files

ConfirmCtld == Go("ctld", "sacct") /\ ctld # {} /\ UNCHANGED files /\ UNCHANGED daemons
Accounting == Go("sacct", "done") /\ UNCHANGED files /\ UNCHANGED daemons

\* Not ready yet: look again, up to Tries times, and then fail.
Wait ==
    /\ step \in {"dbd", "ctld", "sacct"}
    /\ IF tries < Tries THEN tries' = tries + 1 /\ UNCHANGED step
                        ELSE step' = "stopped" /\ UNCHANGED tries
    /\ UNCHANGED <<answers, runs, roots>> /\ UNCHANGED files /\ UNCHANGED daemons

Working == step \notin {"idle", "stopped", "denied", "crashed", "done"}

\* A command fails, or the installer is killed.
Interrupt ==
    /\ Working
    /\ step' \in {"stopped", "crashed"}
    /\ UNCHANGED <<answers, runs, tries, roots>> /\ UNCHANGED files /\ UNCHANGED daemons

SNext ==
    \/ \E a \in Answers : Begin(a)
    \/ InstallServer \/ Login \/ SetRoot \/ SetAccount \/ WriteDbdConf \/ SeedConf
    \/ AppendNodes \/ RestartDbd \/ RestartCtld \/ ConfirmCtld \/ Accounting \/ Wait
    \/ Interrupt

------------------------------------------------------------------------------

\* A finished role leaves the three places of the accounting password, and the
\* daemon that uses it, in agreement with this answerfile, whatever an earlier
\* run with other answers left in MariaDB or in slurmdbd.conf.
AccountingAgrees ==
    step = "done" => {account, dbdconf, dbd} = {answers.slurm}

\* And the controller that runs has read the nodes of this answerfile and no
\* others.
ControllerHasNodes ==
    step = "done" => ctld \ {"seed"} = answers.nodes

\* The role is not locked out of the database by a run of its own: as long as
\* the answerfile keeps its root password, no interruption makes the login fail.
NotLockedOut == Cardinality(roots) <= 1 => step # "denied"
==============================================================================
