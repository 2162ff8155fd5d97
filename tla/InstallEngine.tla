---------------------------- MODULE InstallEngine ----------------------------
(***************************************************************************)
(* The installation engine: Shell::install (or Executor::install with the  *)
(* roles of --roles) runs roles one after the other, every role through    *)
(* roles::run and getRunnable, a script role through Runner::run.  A run   *)
(* ends when all roles ran, when a checked command fails, or in a crash;   *)
(* the operator then starts it again on what is left on the head node.     *)
(***************************************************************************)
EXTENDS RoleRecipes

CONSTANTS
    Cases,    \* [cfg, plan, faulty, crashes]: what an operator may install, with
              \* which roles (InstallOrder, or those of --roles), the commands
              \* that may fail though all they need is there, and whether the
              \* installer may be killed
    MaxRuns   \* bound: how often it is started

\* The roles of Shell::install; --roles takes some of them.
RoleNames == {InstallOrder[i] : i \in 1..Len(InstallOrder)}

ASSUME EngineAssumption == MaxRuns \in Nat
ASSUME CaseAssumption ==
    \A k \in Cases :
        k.plan \in Seq(RoleNames) /\ k.cfg.ofed \in {"none", "inbox", "doca"}

VARIABLES
    case,        \* the same in every run
    phase,       \* "idle", "running", "stopped", "exited", "crashed", "done"
    at, line,    \* the role, and in it the next command (0: not loaded yet)
    status,      \* exit status of the last command of the script is 0
    facts,       \* what is on the head node
    scripts,     \* /tmp/<hash>.sh of each role: "none", "torn", "whole"
    ran, failed, \* commands of this run that succeeded, that failed
    runs

evars == <<case, phase, at, line, status, facts, scripts, ran, failed, runs>>

cfg == case.cfg
plan == case.plan

Role == plan[at]
\* bash runs what the file holds: nothing when the writer was killed.
Steps ==
    LET r == Recipe(Role, cfg)
    IN  IF r.script /\ scripts[Role] = "torn" THEN <<>> ELSE r.steps
Current == Steps[line]
InRole == phase = "running" /\ at <= Len(plan)

\* With --skip network the operator has set the network up.
Prepared(c) ==
    IF "network" \in c.skip THEN {"nm", "management", "hostname", "hosts"} ELSE {}

EInit ==
    /\ case \in Cases
    /\ phase = "idle"
    /\ at = 1 /\ line = 0
    /\ status = TRUE
    /\ facts = Fresh \cup Prepared(cfg)
    /\ scripts = [r \in {plan[i] : i \in DOMAIN plan} |-> "none"]
    /\ ran = {} /\ failed = {}
    /\ runs = 0

Launch ==
    /\ phase \in {"idle", "stopped", "crashed", "done"}
    /\ runs < MaxRuns
    /\ runs' = runs + 1
    /\ phase' = "running"
    /\ at' = 1 /\ line' = 0
    /\ status' = TRUE
    /\ ran' = {} /\ failed' = {}
    /\ UNCHANGED <<case, facts, scripts>>

\* roles::run loads the role; a script role is written to its file, unless
\* the file exists (installFile), and started.
LoadRole ==
    /\ InRole /\ line = 0
    /\ line' = 1
    /\ status' = TRUE
    /\ scripts' = IF Recipe(Role, cfg).script /\ scripts[Role] = "none"
                  THEN [scripts EXCEPT ![Role] = "whole"] ELSE scripts
    /\ UNCHANGED <<case, phase, at, facts, ran, failed, runs>>

AtCommand == InRole /\ line \in DOMAIN Steps

ExitsEarly == AtCommand /\ Current.exits \cap facts # {}

\* "test ... && exit 0" ends a script.
ExitEarly ==
    /\ ExitsEarly
    /\ line' = Len(Steps) + 1
    /\ status' = TRUE
    /\ ran' = ran \cup {Current.op}
    /\ UNCHANGED <<case, phase, at, facts, scripts, failed, runs>>

Succeed ==
    /\ AtCommand /\ ~ExitsEarly
    /\ Current.needs \subseteq facts
    /\ facts' = facts \cup Current.gives
    /\ ran' = ran \cup {Current.op}
    /\ line' = line + 1
    /\ status' = TRUE
    /\ UNCHANGED <<case, phase, at, scripts, failed, runs>>

\* Mutant of Fail: the exception of a checked command is swallowed.
SwallowFailure ==
    /\ AtCommand /\ ~ExitsEarly
    /\ Current.op \in case.faulty \/ ~(Current.needs \subseteq facts)
    /\ failed' = IF Current.quiet THEN failed ELSE failed \cup {Current.op}
    /\ status' = Current.quiet
    /\ line' = line + 1
    /\ UNCHANGED <<case, phase, at, facts, scripts, ran, runs>>

\* A command fails for a reason of its own, or for want of what it needs.  A
\* checked command throws, which ends the run.
Fail ==
    /\ AtCommand /\ ~ExitsEarly
    /\ Current.op \in case.faulty \/ ~(Current.needs \subseteq facts)
    /\ failed' = IF Current.quiet THEN failed ELSE failed \cup {Current.op}
    /\ status' = Current.quiet
    /\ line' = line + 1
    /\ phase' = IF Current.checked THEN "stopped" ELSE phase
    /\ UNCHANGED <<case, at, facts, scripts, ran, runs>>

RoleEnded == InRole /\ line > Len(Steps)
ScriptFailed == Recipe(Role, cfg).script /\ ~status

\* Mutant of EndRole: the exit code of a script is not looked at.
IgnoreExitCode ==
    /\ RoleEnded
    /\ IF Role = "dump" /\ cfg.stop
       THEN phase' = "exited" /\ UNCHANGED <<at, line>>
       ELSE at' = at + 1 /\ line' = 0 /\ UNCHANGED phase
    /\ UNCHANGED <<case, status, facts, scripts, ran, failed, runs>>

\* A script that ends with an error aborts the run; the dump role ends it when
\* asked to with --stop-after.
EndRole ==
    /\ RoleEnded
    /\ IF ScriptFailed THEN phase' = "stopped" /\ UNCHANGED <<at, line>>
       ELSE IF Role = "dump" /\ cfg.stop
       THEN phase' = "exited" /\ UNCHANGED <<at, line>>
       ELSE at' = at + 1 /\ line' = 0 /\ UNCHANGED phase
    /\ UNCHANGED <<case, status, facts, scripts, ran, failed, runs>>

Finish ==
    /\ phase = "running" /\ at > Len(plan)
    /\ phase' = "done"
    /\ UNCHANGED <<case, at, line, status, facts, scripts, ran, failed, runs>>

\* The process is killed: between the creation of a script file and its first
\* byte, in the middle of a command, or between commands.
Kill ==
    /\ case.crashes /\ InRole
    /\ phase' = "crashed"
    /\ \/ /\ line = 0 /\ Recipe(Role, cfg).script /\ scripts[Role] = "none"
          /\ scripts' = [scripts EXCEPT ![Role] = "torn"]
          /\ UNCHANGED facts
       \/ /\ AtCommand /\ Current.needs \subseteq facts
          /\ facts' = facts \cup Current.leaves
          /\ UNCHANGED scripts
       \/ UNCHANGED <<facts, scripts>>
    /\ UNCHANGED <<case, at, line, status, ran, failed, runs>>

ENext ==
    \/ Launch \/ LoadRole \/ ExitEarly \/ Succeed \/ Fail \/ EndRole
    \/ Finish \/ Kill

ESpec == EInit /\ [][ENext]_evars

------------------------------------------------------------------------------

Commands(role) == LET s == Recipe(role, cfg).steps IN {s[i] : i \in DOMAIN s}
Planned == {plan[i] : i \in DOMAIN plan}
CodeRoles == {r \in Planned : ~Recipe(r, cfg).script}
ScriptRoles == Planned \ CodeRoles

\* Shell::install puts every role after the roles it builds on: on a fresh head
\* node where nothing goes wrong by itself, and after any crash, no command is
\* reached before what it needs is there.  Only the kernel check may fail.
NeedsInPlace == case.faulty = {} => failed \subseteq {"kernel"}

\* What a finished installation has done: every checked command of its roles
\* succeeded in this very run (shell::cmd and checkCommand throw), whatever
\* earlier runs were interrupted at, and whatever unchecked commands failed.
DoneMeansChecked ==
    phase = "done" =>
        \A r \in CodeRoles : \A k \in Commands(r) : k.checked => k.op \in ran

\* A script role that a finished run went through ended with a command that
\* succeeded: Runner::run aborts on the exit code of the script.
LastLineSucceeded ==
    phase = "done" =>
        \A r \in ScriptRoles :
            LET s == Recipe(r, cfg).steps IN
            \/ s = <<>> \/ scripts[r] = "torn"
            \/ s[Len(s)].op \in ran \/ s[Len(s)].quiet
            \/ \E k \in Commands(r) : k.exits # {} /\ k.op \in ran

\* A crash is repaired by running again: when nothing fails by itself, a run
\* that ends leaves everything its roles provide, except for what a torn script
\* file or an interrupted clone hides from it.
RerunRepairs ==
    phase = "done" /\ case.faulty = {} =>
        \A r \in Planned : \A k \in Commands(r) :
            \/ k.gives \subseteq facts
            \/ scripts[r] = "torn"
            \/ r = "spack" /\ "spack.git" \in facts

\* scriptbuilder.cpp heads every script with "#!/bin/bash -xeu": a line that
\* fails ends the script and with it the installation.
FailedLineStops ==
    phase = "done" =>
        \A r \in ScriptRoles : \A k \in Commands(r) : k.op \notin failed
==============================================================================
