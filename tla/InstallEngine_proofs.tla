------------------------ MODULE InstallEngine_proofs ------------------------
(***************************************************************************)
(* Proofs about InstallEngine, for any number of starts.  What a run has   *)
(* checked when it is done holds for any roles in any order; that no       *)
(* command misses what it needs holds for the orders that Orderly allows,  *)
(* Shell::install's among them.                                            *)
(***************************************************************************)
EXTENDS InstallEngine, TLAPS

\* What a role finds on the head node when the roles it builds on have run.
Before(role, c) ==
    Fresh
    \cup (IF role \in {"dump", "check", "repos", "network", "selinux", "locale", "firewall"}
          THEN {} ELSE {"repos"})
    \cup (IF role = "ofed" /\ c.ofed = "doca" /\ "check-kernel" \notin c.skip
          THEN {"kernel"} ELSE {})
    \cup (IF role \in {"queuesystem", "provisioner"}
          THEN {"management", "hostname", "hosts"} ELSE {})

Sequence(s) == Len(s) \in Nat /\ DOMAIN s = 1..Len(s) /\ (Len(s) = 0 => s = <<>>)

\* The needs of a command are there before the role, or an earlier command of the
\* role gives them; only the kernel check and lines that do nothing may miss some.
Provided(s, F) ==
    \A j \in 1..Len(s) :
        \/ s[j].op = "kernel" /\ s[j].checked
        \/ s[j].quiet /\ s[j].gives = {}
        \/ \A f \in s[j].needs : f \in F \/ \E l \in 1..(j - 1) : f \in s[l].gives

NoExits(s) == \A j \in 1..Len(s) : s[j].exits = {}

\* A script ends early where the rest of its work has been done or begun.
Exits(role, s) ==
    \A j \in 1..Len(s) :
        \/ s[j].exits = {}
        \/ role = "spack" /\ s[j].exits = {"spack.git"}
        \/ /\ role = "aide" /\ s[j].exits = {"aidedb"}
           /\ \A l \in j..Len(s) : s[l].gives \subseteq {"aidenew", "aidedb"}

\* Only the clone of Spack leaves something half done, and the database of AIDE is
\* moved from the new one.
Halves(s) ==
    \A j \in 1..Len(s) :
        /\ s[j].leaves \subseteq {"spack.git"}
        /\ "aidedb" \in s[j].gives => "aidenew" \in s[j].needs

Sound(role, c, r) ==
    /\ Sequence(r.steps)
    /\ r.script \/ NoExits(r.steps)
    /\ Provided(r.steps, Before(role, c))
    /\ Exits(role, r.steps)
    /\ Halves(r.steps)

LEMMA DumpSound ==
    ASSUME NEW c
    PROVE  Sound("dump", c, Dump(c))
<1>1. Sequence(Dump(c).steps)
  BY DEF Dump, Code, Sequence, When
<1>2. Dump(c).script \/ NoExits(Dump(c).steps)
  BY <1>1 DEF NoExits, Dump, Code, Must, Try, When, Command
<1>3. Provided(Dump(c).steps, Before("dump", c))
  BY <1>1 DEF Provided, Dump, Code, Must, Try, When, Command, Before, Fresh
<1>4. Exits("dump", Dump(c).steps) /\ Halves(Dump(c).steps)
  BY <1>1 DEF Exits, Halves, Dump, Code, Must, Try, When, Command
<1> QED BY <1>1, <1>2, <1>3, <1>4 DEF Sound

LEMMA ReposSound ==
    ASSUME NEW c
    PROVE  Sound("repos", c, Repos(c))
<1>1. Sequence(Repos(c).steps)
  BY DEF Repos, Code, Sequence, When
<1>2. Repos(c).script \/ NoExits(Repos(c).steps)
  BY <1>1 DEF NoExits, Repos, Code, Must, Try, When, Command
<1>3. Provided(Repos(c).steps, Before("repos", c))
  BY <1>1 DEF Provided, Repos, Code, Must, Try, When, Command, Before, Fresh
<1>4. Exits("repos", Repos(c).steps) /\ Halves(Repos(c).steps)
  BY <1>1 DEF Exits, Halves, Repos, Code, Must, Try, When, Command
<1> QED BY <1>1, <1>2, <1>3, <1>4 DEF Sound

LEMMA BaseSound ==
    ASSUME NEW c
    PROVE  Sound("base", c, Base(c))
<1>1. Sequence(Base(c).steps)
  BY DEF Base, Script, Sequence
<1>2. Base(c).script \/ NoExits(Base(c).steps)
  BY <1>1 DEF NoExits, Base, Script, Line, Command
<1>3. Provided(Base(c).steps, Before("base", c))
  BY <1>1 DEF Provided, Base, Script, Line, Command, Before, Fresh
<1>4. Exits("base", Base(c).steps) /\ Halves(Base(c).steps)
  BY <1>1 DEF Exits, Halves, Base, Script, Line, Command
<1> QED BY <1>1, <1>2, <1>3, <1>4 DEF Sound

LEMMA SelinuxSound ==
    ASSUME NEW c
    PROVE  Sound("selinux", c, Selinux(c))
<1>1. Sequence(Selinux(c).steps)
  <2>1. CASE c.deb
    BY <2>1 DEF Selinux, Code, Sequence, When
  <2>2. CASE ~c.deb
    BY <2>2 DEF Selinux, Code, Sequence, When
  <2> QED BY <2>1, <2>2
<1>2. Selinux(c).script \/ NoExits(Selinux(c).steps)
  BY <1>1 DEF NoExits, Selinux, Code, Must, Try, When, Command
<1>3. Provided(Selinux(c).steps, Before("selinux", c))
  BY <1>1 DEF Provided, Selinux, Code, Must, Try, When, Command, Before, Fresh
<1>4. Exits("selinux", Selinux(c).steps) /\ Halves(Selinux(c).steps)
  BY <1>1 DEF Exits, Halves, Selinux, Code, Must, Try, When, Command
<1> QED BY <1>1, <1>2, <1>3, <1>4 DEF Sound

LEMMA LocaleSound ==
    ASSUME NEW c
    PROVE  Sound("locale", c, Locale(c))
<1>1. Sequence(Locale(c).steps)
  BY DEF Locale, Code, Sequence, When
<1>2. Locale(c).script \/ NoExits(Locale(c).steps)
  BY <1>1 DEF NoExits, Locale, Code, Must, Try, When, Command
<1>3. Provided(Locale(c).steps, Before("locale", c))
  BY <1>1 DEF Provided, Locale, Code, Must, Try, When, Command, Before, Fresh
<1>4. Exits("locale", Locale(c).steps) /\ Halves(Locale(c).steps)
  BY <1>1 DEF Exits, Halves, Locale, Code, Must, Try, When, Command
<1> QED BY <1>1, <1>2, <1>3, <1>4 DEF Sound

LEMMA TimesyncSound ==
    ASSUME NEW c
    PROVE  Sound("timesync", c, Timesync(c))
<1>1. Sequence(Timesync(c).steps)
  BY DEF Timesync, Script, Sequence
<1>2. Timesync(c).script \/ NoExits(Timesync(c).steps)
  BY <1>1 DEF NoExits, Timesync, Script, Line, Command
<1>3. Provided(Timesync(c).steps, Before("timesync", c))
  BY <1>1 DEF Provided, Timesync, Script, Line, Command, Before, Fresh
<1>4. Exits("timesync", Timesync(c).steps) /\ Halves(Timesync(c).steps)
  BY <1>1 DEF Exits, Halves, Timesync, Script, Line, Command
<1> QED BY <1>1, <1>2, <1>3, <1>4 DEF Sound

LEMMA FirewallSound ==
    ASSUME NEW c
    PROVE  Sound("firewall", c, Firewall(c))
<1>1. Sequence(Firewall(c).steps)
  <2>1. CASE c.deb /\ c.firewall
    BY <2>1 DEF Firewall, Code, Sequence, When
  <2>2. CASE c.deb /\ ~c.firewall
    BY <2>2 DEF Firewall, Code, Sequence, When
  <2>3. CASE ~c.deb /\ c.firewall
    BY <2>3 DEF Firewall, Code, Sequence, When
  <2>4. CASE ~c.deb /\ ~c.firewall
    BY <2>4 DEF Firewall, Code, Sequence, When
  <2> QED BY <2>1, <2>2, <2>3, <2>4
<1>2. Firewall(c).script \/ NoExits(Firewall(c).steps)
  BY <1>1 DEF NoExits, Firewall, Code, Must, Try, When, Command
<1>3. Provided(Firewall(c).steps, Before("firewall", c))
  BY <1>1 DEF Provided, Firewall, Code, Must, Try, When, Command, Before, Fresh
<1>4. Exits("firewall", Firewall(c).steps) /\ Halves(Firewall(c).steps)
  BY <1>1 DEF Exits, Halves, Firewall, Code, Must, Try, When, Command
<1> QED BY <1>1, <1>2, <1>3, <1>4 DEF Sound

LEMMA Fail2banSound ==
    ASSUME NEW c
    PROVE  Sound("fail2ban", c, Fail2ban(c))
<1>1. Sequence(Fail2ban(c).steps)
  BY DEF Fail2ban, Script, Sequence
<1>2. Fail2ban(c).script \/ NoExits(Fail2ban(c).steps)
  BY <1>1 DEF NoExits, Fail2ban, Script, Line, Command
<1>3. Provided(Fail2ban(c).steps, Before("fail2ban", c))
  BY <1>1 DEF Provided, Fail2ban, Script, Line, Command, Before, Fresh
<1>4. Exits("fail2ban", Fail2ban(c).steps) /\ Halves(Fail2ban(c).steps)
  BY <1>1 DEF Exits, Halves, Fail2ban, Script, Line, Command
<1> QED BY <1>1, <1>2, <1>3, <1>4 DEF Sound

LEMMA AuditSound ==
    ASSUME NEW c
    PROVE  Sound("audit", c, Audit(c))
<1>1. Sequence(Audit(c).steps)
  BY DEF Audit, Script, Sequence
<1>2. Audit(c).script \/ NoExits(Audit(c).steps)
  BY <1>1 DEF NoExits, Audit, Script, Line, Command
<1>3. Provided(Audit(c).steps, Before("audit", c))
  BY <1>1 DEF Provided, Audit, Script, Line, Command, Before, Fresh
<1>4. Exits("audit", Audit(c).steps) /\ Halves(Audit(c).steps)
  BY <1>1 DEF Exits, Halves, Audit, Script, Line, Command
<1> QED BY <1>1, <1>2, <1>3, <1>4 DEF Sound

LEMMA AideSound ==
    ASSUME NEW c
    PROVE  Sound("aide", c, Aide(c))
<1>1. Sequence(Aide(c).steps)
  BY DEF Aide, Script, Sequence
<1>2. Aide(c).script \/ NoExits(Aide(c).steps)
  BY <1>1 DEF NoExits, Aide, Script, Line, ExitIf, Quiet, Command
<1>3. Provided(Aide(c).steps, Before("aide", c))
  BY <1>1 DEF Provided, Aide, Script, Line, ExitIf, Quiet, Command, Before, Fresh
<1>4. Exits("aide", Aide(c).steps) /\ Halves(Aide(c).steps)
  BY <1>1 DEF Exits, Halves, Aide, Script, Line, ExitIf, Quiet, Command
<1> QED BY <1>1, <1>2, <1>3, <1>4 DEF Sound

LEMMA SpackSound ==
    ASSUME NEW c
    PROVE  Sound("spack", c, Spack(c))
<1>1. Sequence(Spack(c).steps)
  <2>1. CASE "spack" \in c.skip
    BY <2>1 DEF Spack, Script, Sequence, When
  <2>2. CASE "spack" \notin c.skip
    BY <2>2 DEF Spack, Script, Sequence, When
  <2> QED BY <2>1, <2>2
<1>2. Spack(c).script \/ NoExits(Spack(c).steps)
  BY <1>1 DEF NoExits, Spack, Script, Line, ExitIf, Leaving, When, Command
<1>3. Provided(Spack(c).steps, Before("spack", c))
  BY <1>1 DEF Provided, Spack, Script, Line, ExitIf, Leaving, When, Command, Before, Fresh
<1>4. Exits("spack", Spack(c).steps) /\ Halves(Spack(c).steps)
  BY <1>1 DEF Exits, Halves, Spack, Script, Line, ExitIf, Leaving, When, Command
<1> QED BY <1>1, <1>2, <1>3, <1>4 DEF Sound

LEMMA NfsSound ==
    ASSUME NEW c
    PROVE  Sound("nfs", c, Nfs(c))
<1>1. Sequence(Nfs(c).steps)
  BY DEF Nfs, Script, Sequence
<1>2. Nfs(c).script \/ NoExits(Nfs(c).steps)
  BY <1>1 DEF NoExits, Nfs, Script, Line, Quiet, Command
<1>3. Provided(Nfs(c).steps, Before("nfs", c))
  BY <1>1 DEF Provided, Nfs, Script, Line, Quiet, Command, Before, Fresh
<1>4. Exits("nfs", Nfs(c).steps) /\ Halves(Nfs(c).steps)
  BY <1>1 DEF Exits, Halves, Nfs, Script, Line, Quiet, Command
<1> QED BY <1>1, <1>2, <1>3, <1>4 DEF Sound

LEMMA OhpcSound ==
    ASSUME NEW c
    PROVE  Sound("ohpc", c, Ohpc(c))
<1>1. Sequence(Ohpc(c).steps)
  BY DEF Ohpc, Code, Sequence, When
<1>2. Ohpc(c).script \/ NoExits(Ohpc(c).steps)
  BY <1>1 DEF NoExits, Ohpc, Code, Must, Try, When, Command
<1>3. Provided(Ohpc(c).steps, Before("ohpc", c))
  BY <1>1 DEF Provided, Ohpc, Code, Must, Try, When, Command, Before, Fresh
<1>4. Exits("ohpc", Ohpc(c).steps) /\ Halves(Ohpc(c).steps)
  BY <1>1 DEF Exits, Halves, Ohpc, Code, Must, Try, When, Command
<1> QED BY <1>1, <1>2, <1>3, <1>4 DEF Sound

LEMMA ProvisionerSound ==
    ASSUME NEW c
    PROVE  Sound("provisioner", c, Provisioner(c))
<1>1. Sequence(Provisioner(c).steps)
  BY DEF Provisioner, Code, Sequence, When
<1>2. Provisioner(c).script \/ NoExits(Provisioner(c).steps)
  BY <1>1 DEF NoExits, Provisioner, Code, Must, Try, When, Command
<1>3. Provided(Provisioner(c).steps, Before("provisioner", c))
  BY <1>1 DEF Provided, Provisioner, Code, Must, Try, When, Command, Before, Fresh
<1>4. Exits("provisioner", Provisioner(c).steps) /\ Halves(Provisioner(c).steps)
  BY <1>1 DEF Exits, Halves, Provisioner, Code, Must, Try, When, Command
<1> QED BY <1>1, <1>2, <1>3, <1>4 DEF Sound

LEMMA OfedRoleSound ==
    ASSUME NEW c, c.ofed \in {"none", "inbox", "doca"}
    PROVE  Sound("ofed", c, OfedRole(c))
<1>1. Sequence(OfedRole(c).steps)
  <2>1. CASE "infiniband" \in c.skip
    BY <2>1 DEF OfedRole, Code, Sequence, When
  <2>2. CASE "infiniband" \notin c.skip /\ c.ofed = "none"
    BY <2>2 DEF OfedRole, Code, Sequence, When
  <2>3. CASE "infiniband" \notin c.skip /\ c.ofed = "inbox" /\ c.deb
    BY <2>3 DEF OfedRole, Code, Sequence, When
  <2>4. CASE "infiniband" \notin c.skip /\ c.ofed = "inbox" /\ ~c.deb
    BY <2>4 DEF OfedRole, Code, Sequence, When
  <2>5. CASE "infiniband" \notin c.skip /\ c.ofed = "doca"
    BY <2>5 DEF OfedRole, Code, Sequence, When
  <2> QED BY <2>1, <2>2, <2>3, <2>4, <2>5
<1>2. OfedRole(c).script \/ NoExits(OfedRole(c).steps)
  BY <1>1 DEF NoExits, OfedRole, Code, Must, Try, When, Command
<1>3. Provided(OfedRole(c).steps, Before("ofed", c))
  BY <1>1 DEF Provided, OfedRole, Code, Must, Try, When, Command, Before, Fresh
<1>4. Exits("ofed", OfedRole(c).steps) /\ Halves(OfedRole(c).steps)
  BY <1>1 DEF Exits, Halves, OfedRole, Code, Must, Try, When, Command
<1> QED BY <1>1, <1>2, <1>3, <1>4 DEF Sound

LEMMA QueueSystemSound ==
    ASSUME NEW c
    PROVE  Sound("queuesystem", c, QueueSystem(c))
<1>1. Sequence(QueueSystem(c).steps)
  <2>1. CASE c.queue = "slurm"
    BY <2>1 DEF QueueSystem, Code, Sequence, Slurm, Pbs
  <2>2. CASE c.queue = "pbs"
    BY <2>2 DEF QueueSystem, Code, Sequence, Slurm, Pbs
  <2>3. CASE c.queue # "slurm" /\ c.queue # "pbs"
    BY <2>3 DEF QueueSystem, Code, Sequence, Slurm, Pbs
  <2> QED BY <2>1, <2>2, <2>3
<1>2. QueueSystem(c).script \/ NoExits(QueueSystem(c).steps)
  BY <1>1 DEF NoExits, QueueSystem, Code, Must, Try, Slurm, Pbs, Command
<1>3. Provided(QueueSystem(c).steps, Before("queuesystem", c))
  BY <1>1 DEF Provided, QueueSystem, Code, Must, Try, Slurm, Pbs, Command, Before, Fresh
<1>4. Exits("queuesystem", QueueSystem(c).steps) /\ Halves(QueueSystem(c).steps)
  BY <1>1 DEF Exits, Halves, QueueSystem, Code, Must, Try, Slurm, Pbs, Command
<1> QED BY <1>1, <1>2, <1>3, <1>4 DEF Sound

LEMMA CheckSound ==
    ASSUME NEW c
    PROVE  Sound("check", c, Check(c))
<1>1. Sequence(Check(c).steps)
  <2>1. CASE c.deb
    BY <2>1 DEF Check, Code, Sequence, When
  <2>2. CASE ~c.deb /\ "check-kernel" \in c.skip
    BY <2>2 DEF Check, Code, Sequence, When
  <2>3. CASE ~c.deb /\ "check-kernel" \notin c.skip
    BY <2>3 DEF Check, Code, Sequence, When
  <2> QED BY <2>1, <2>2, <2>3
<1>2. Check(c).script \/ NoExits(Check(c).steps)
  BY <1>1 DEF NoExits, Check, Code, Must, Try, When, Command
<1>3. Provided(Check(c).steps, Before("check", c))
  BY <1>1 DEF Provided, Check, Code, Must, Try, When, Command, Before, Fresh
<1>4. Exits("check", Check(c).steps) /\ Halves(Check(c).steps)
  BY <1>1 DEF Exits, Halves, Check, Code, Must, Try, When, Command
<1> QED BY <1>1, <1>2, <1>3, <1>4 DEF Sound

LEMMA NetworkRoleSound ==
    ASSUME NEW c
    PROVE  Sound("network", c, NetworkRole(c))
<1>1. Sequence(NetworkRole(c).steps)
  BY DEF NetworkRole, Code, Sequence, When
<1>2. NetworkRole(c).script \/ NoExits(NetworkRole(c).steps)
  BY <1>1 DEF NoExits, NetworkRole, Code, Must, Try, When, Command
<1>3. Provided(NetworkRole(c).steps, Before("network", c))
  BY <1>1 DEF Provided, NetworkRole, Code, Must, Try, When, Command, Before, Fresh
<1>4. Exits("network", NetworkRole(c).steps) /\ Halves(NetworkRole(c).steps)
  BY <1>1 DEF Exits, Halves, NetworkRole, Code, Must, Try, When, Command
<1> QED BY <1>1, <1>2, <1>3, <1>4 DEF Sound

LEMMA SshdSound ==
    ASSUME NEW c
    PROVE  Sound("sshd", c, Sshd(c))
<1>1. Sequence(Sshd(c).steps)
  BY DEF Sshd, Script, Sequence, When
<1>2. Sshd(c).script \/ NoExits(Sshd(c).steps)
  BY <1>1 DEF NoExits, Sshd, Script, Line, When, Command
<1>3. Provided(Sshd(c).steps, Before("sshd", c))
  BY <1>1 DEF Provided, Sshd, Script, Line, When, Command, Before, Fresh
<1>4. Exits("sshd", Sshd(c).steps) /\ Halves(Sshd(c).steps)
  BY <1>1 DEF Exits, Halves, Sshd, Script, Line, When, Command
<1> QED BY <1>1, <1>2, <1>3, <1>4 DEF Sound

LEMMA Roles ==
    \A r \in RoleNames :
        r \in {"dump", "check", "repos", "base", "network", "sshd", "selinux", "locale",
               "timesync", "firewall", "ofed", "fail2ban", "audit", "aide", "spack",
               "nfs", "ohpc", "queuesystem", "provisioner"}
BY DEF RoleNames, InstallOrder

LEMMA RecipeSound ==
    ASSUME NEW role \in RoleNames, NEW c, c.ofed \in {"none", "inbox", "doca"}
    PROVE  Sound(role, c, Recipe(role, c))
BY Roles, DumpSound, ReposSound, BaseSound, SelinuxSound, LocaleSound, TimesyncSound,
   FirewallSound, Fail2banSound, AuditSound, AideSound, SpackSound, NfsSound, OhpcSound,
   ProvisionerSound, OfedRoleSound, QueueSystemSound, CheckSound, NetworkRoleSound,
   SshdSound
   DEF Recipe

-----------------------------------------------------------------------------
Text == Recipe(Role, cfg).steps
IsScript == Recipe(Role, cfg).script
Live == ~(IsScript /\ scripts[Role] = "torn")

EngineType ==
    /\ case \in Cases
    /\ at \in Nat \ {0} /\ line \in Nat
    /\ scripts = [r \in Planned |-> scripts[r]]
    /\ \A r \in Planned : scripts[r] = "torn" => Recipe(r, cfg).script
    /\ phase = "done" => at > Len(plan)

\* What the engine knows of the role it runs.
LEMMA InRoleFacts ==
    ASSUME EngineType, InRole
    PROVE  /\ Role \in RoleNames /\ Role \in Planned
           /\ Sound(Role, cfg, Recipe(Role, cfg))
           /\ AtCommand =>
                 /\ Live /\ line \in 1..Len(Text) /\ Current = Text[line]
                 /\ Steps = Text
           /\ RoleEnded => ~Live \/ (line > Len(Text) /\ Steps = Text)
<1>1. plan \in Seq(RoleNames) /\ cfg.ofed \in {"none", "inbox", "doca"}
  BY CaseAssumption DEF EngineType, plan, cfg
<1>2. at \in 1..Len(plan)
  BY <1>1 DEF EngineType, InRole
<1>3. Role \in RoleNames /\ Role \in Planned
  BY <1>1, <1>2 DEF Role, Planned
<1>4. Sound(Role, cfg, Recipe(Role, cfg))
  BY <1>1, <1>3, RecipeSound
<1>5. Sequence(Text)
  BY <1>4 DEF Sound, Text
<1>6. Steps = IF Live THEN Text ELSE <<>>
  BY DEF Steps, Live, Text, IsScript
<1>7. AtCommand => Live /\ line \in 1..Len(Text) /\ Current = Text[line] /\ Steps = Text
  BY <1>5, <1>6 DEF AtCommand, Current, Sequence
<1>8. RoleEnded => ~Live \/ (line > Len(Text) /\ Steps = Text)
  BY <1>6 DEF RoleEnded
<1> QED BY <1>3, <1>4, <1>7, <1>8

LEMMA TypeInit == EInit => EngineType
BY DEF EInit, EngineType, Planned

LEMMA TypeNext == EngineType /\ [ENext]_evars => EngineType'
<1> SUFFICES ASSUME EngineType, [ENext]_evars
             PROVE  EngineType'
  OBVIOUS
<1>0. case' = case => Planned' = Planned /\ \A r : Recipe(r, cfg)' = Recipe(r, cfg)
  BY DEF Planned, plan, cfg
<1>1. CASE Launch
  BY <1>0, <1>1 DEF Launch, EngineType, plan, cfg
<1>2. CASE LoadRole
  BY <1>0, <1>2 DEF LoadRole, InRole, EngineType, plan, cfg
<1>3. CASE ExitEarly
  <2>1. Len(Steps) \in Nat
    BY <1>3, InRoleFacts DEF ExitEarly, ExitsEarly, AtCommand, Sound, Sequence, Text
  <2> QED BY <1>0, <1>3, <2>1 DEF ExitEarly, ExitsEarly, AtCommand, InRole, EngineType, plan, cfg
<1>4. CASE Succeed \/ Fail
  BY <1>0, <1>4 DEF Succeed, Fail, AtCommand, InRole, EngineType, plan, cfg
<1>5. CASE EndRole
  BY <1>0, <1>5 DEF EndRole, RoleEnded, InRole, EngineType, plan, cfg
<1>6. CASE Finish
  BY <1>0, <1>6, CaseAssumption DEF Finish, EngineType, plan, cfg
<1>7. CASE Kill
  BY <1>0, <1>7, InRoleFacts DEF Kill, EngineType, plan, cfg
<1>8. CASE UNCHANGED evars
  BY <1>0, <1>8 DEF evars, EngineType, plan, cfg
<1> QED BY <1>1, <1>2, <1>3, <1>4, <1>5, <1>6, <1>7, <1>8 DEF ENext

LEMMA TypeInvariance == ESpec => []EngineType
BY TypeInit, TypeNext, PTL DEF ESpec

-----------------------------------------------------------------------------
\* What a run has seen of the commands of a role: all that are checked succeeded,
\* and a script ended early, or with a line that succeeded or is quiet.
AllChecked(t) == \A j \in 1..Len(t) : t[j].checked => t[j].op \in ran
EndedEarly(t) == \E j \in 1..Len(t) : t[j].exits # {} /\ t[j].op \in ran
Ok(k) == k.op \in ran \/ k.quiet
EndedWell(t) == Len(t) = 0 \/ EndedEarly(t) \/ Ok(t[Len(t)])

Over(i) ==
    LET r == Recipe(plan[i], cfg) IN
    /\ r.script \/ AllChecked(r.steps)
    /\ ~r.script \/ scripts[plan[i]] = "torn" \/ EndedWell(r.steps)

SoFar ==
    /\ Live => line <= Len(Text) + 1
    /\ IsScript \/ \A j \in 1..Len(Text) : j < line /\ Text[j].checked => Text[j].op \in ran
    /\ IsScript /\ Live /\ line > 1 /\ status => EndedEarly(Text) \/ Ok(Text[line - 1])

\* The roles that are over, and the one that runs.
DoneInv ==
    /\ phase \in {"running", "done"} => \A i \in 1..Len(plan) : i < at => Over(i)
    /\ InRole => SoFar

LEMMA DoneInit == EInit => DoneInv
BY DEF EInit, DoneInv, InRole

LEMMA DoneNext == EngineType /\ DoneInv /\ [ENext]_evars => DoneInv'
<1> SUFFICES ASSUME EngineType, DoneInv, [ENext]_evars
             PROVE  DoneInv'
  OBVIOUS
<1>0. /\ plan' = plan /\ cfg' = cfg
      /\ at' = at => Role' = Role /\ Text' = Text /\ IsScript' = IsScript
      /\ at' = at /\ scripts' = scripts => (Live' <=> Live)
  BY DEF ENext, Launch, LoadRole, ExitEarly, Succeed, Fail, EndRole, Finish, Kill, evars,
         plan, cfg, Text, IsScript, Live, Role
<1>t. plan \in Seq(RoleNames) /\ at \in Nat /\ line \in Nat
  BY CaseAssumption DEF EngineType, plan
<1>a. ASSUME ran \subseteq ran', NEW i \in 1..Len(plan), Over(i),
             \A r \in Planned : scripts[r] = "torn" => scripts'[r] = "torn"
      PROVE  Over(i)'
  <2>1. plan[i] \in Planned
    BY <1>t DEF Planned
  <2> QED BY <1>0, <1>a, <2>1 DEF Over, AllChecked, EndedWell, EndedEarly, Ok
<1>1. CASE Launch
  BY <1>0, <1>1, <1>t DEF Launch, DoneInv, SoFar
<1>b. ASSUME InRole
      PROVE  Sequence(Text) /\ (IsScript \/ NoExits(Text))
  BY <1>b, InRoleFacts DEF Sound, Text, IsScript
<1>2. CASE LoadRole
  <2>1. InRole /\ line' = 1 /\ ran' = ran /\ at' = at /\ phase' = phase
    BY <1>2 DEF LoadRole
  <2>2. \A r \in Planned : scripts[r] = "torn" => scripts'[r] = "torn"
    BY <1>2 DEF LoadRole, EngineType
  <2>3. SoFar'
    BY <1>0, <1>b, <2>1 DEF SoFar, Sequence
  <2> QED BY <1>0, <1>a, <2>1, <2>2, <2>3 DEF DoneInv, InRole
<1>3. CASE ExitEarly
  <2>1. AtCommand /\ InRole /\ UNCHANGED <<phase, at, scripts>> /\ ran' = ran \cup {Current.op}
    BY <1>3 DEF ExitEarly, ExitsEarly, AtCommand
  <2>2. line \in 1..Len(Text) /\ Current = Text[line] /\ Current.exits # {} /\ line' = Len(Text) + 1
    BY <1>3, <2>1, InRoleFacts DEF ExitEarly, ExitsEarly
  <2>3. IsScript
    BY <1>b, <2>1, <2>2 DEF NoExits
  <2>4. EndedEarly(Text)'
    BY <1>0, <2>1, <2>2 DEF EndedEarly
  <2>5. SoFar'
    BY <1>0, <1>b, <2>1, <2>2, <2>3, <2>4 DEF SoFar, Sequence
  <2> QED BY <1>0, <1>a, <2>1, <2>5 DEF DoneInv, InRole
<1>4. CASE Succeed
  <2>1. /\ AtCommand /\ InRole /\ UNCHANGED <<phase, at, scripts>>
        /\ ran' = ran \cup {Current.op} /\ line' = line + 1
    BY <1>4 DEF Succeed, AtCommand
  <2>2. line \in 1..Len(Text) /\ Current = Text[line] /\ SoFar
    BY <2>1, InRoleFacts DEF DoneInv
  <2>3. Ok(Text[line - 1])'
    BY <1>0, <1>t, <2>1, <2>2 DEF Ok
  <2>4. SoFar'
    BY <1>0, <1>b, <1>t, <2>1, <2>2, <2>3 DEF SoFar, Sequence
  <2> QED BY <1>0, <1>a, <2>1, <2>4 DEF DoneInv, InRole
<1>5. CASE Fail
  <2>1. /\ AtCommand /\ InRole /\ UNCHANGED <<at, scripts, ran>>
        /\ line' = line + 1 /\ status' = Current.quiet
        /\ phase' \in {phase, "stopped"} /\ (phase' = phase => ~Current.checked)
    BY <1>5 DEF Fail, AtCommand, InRole
  <2>2. line \in 1..Len(Text) /\ Current = Text[line] /\ SoFar
    BY <2>1, InRoleFacts DEF DoneInv
  <2>3. status' => Ok(Text[line - 1])'
    <3>1. Text'[line' - 1] = Current
      BY <1>0, <1>t, <2>1, <2>2
    <3> QED BY <2>1, <3>1, Zenon DEF Ok
  <2>4. phase' = phase => SoFar'
    BY <1>0, <1>b, <1>t, <2>1, <2>2, <2>3 DEF SoFar, Sequence
  <2> QED BY <1>0, <1>a, <2>1, <2>4 DEF DoneInv, InRole
<1>6. CASE EndRole
  <2>1. CASE phase' # "running"
    BY <1>6, <2>1 DEF EndRole, RoleEnded, InRole, DoneInv
  <2>2. CASE phase' = "running"
    <3>1. /\ RoleEnded /\ InRole /\ ~(IsScript /\ ~status) /\ at' = at + 1 /\ line' = 0
          /\ UNCHANGED <<scripts, ran>>
      BY <1>6, <2>2 DEF EndRole, RoleEnded, ScriptFailed, IsScript
    <3>2. Sequence(Text) /\ SoFar /\ (~Live \/ line > Len(Text))
      BY <1>b, <3>1, InRoleFacts DEF DoneInv
    <3>3. IsScript \/ AllChecked(Text)
      BY <1>t, <3>1, <3>2 DEF SoFar, Sequence, Live, AllChecked
    <3>4. ASSUME IsScript, Live, Len(Text) # 0
          PROVE  EndedWell(Text)
      <4>1. line > 1 /\ status /\ line - 1 = Len(Text)
        BY <1>t, <3>1, <3>2, <3>4 DEF SoFar, Sequence
      <4> QED BY <3>2, <3>4, <4>1 DEF SoFar, EndedWell
    <3>5. Over(at)
      BY <3>3, <3>4 DEF Over, Text, IsScript, Live, Role, EndedWell
    <3>6. \A i \in 1..Len(plan) : i < at' => Over(i)
      BY <1>t, <3>1, <3>5 DEF DoneInv, InRole
    <3>7. InRole' => Len(Text') \in Nat
      BY TypeNext, InRoleFacts DEF Sound, Text, Sequence
    <3>8. InRole' => SoFar'
      BY <3>1, <3>7 DEF SoFar
    <3> QED BY <1>0, <1>a, <3>1, <3>6, <3>8 DEF DoneInv
  <2> QED BY <2>1, <2>2
<1>7. CASE Finish
  BY <1>0, <1>7, <1>a DEF Finish, DoneInv, InRole
<1>8. CASE Kill
  BY <1>8 DEF Kill, DoneInv, InRole
<1>9. CASE UNCHANGED evars
  <2>1. SoFar => SoFar'
    BY <1>0, <1>9 DEF evars, SoFar, EndedEarly, Ok
  <2> QED BY <1>0, <1>a, <1>9, <2>1 DEF DoneInv, evars, InRole
<1> QED BY <1>1, <1>2, <1>3, <1>4, <1>5, <1>6, <1>7, <1>8, <1>9 DEF ENext

LEMMA DoneInvariance == ESpec => []DoneInv
BY TypeInvariance, DoneInit, DoneNext, PTL DEF ESpec

\* Any role of a finished plan.
LEMMA PlannedRole ==
    ASSUME EngineType, DoneInv, phase = "done", NEW r \in Planned
    PROVE  /\ Sequence(Recipe(r, cfg).steps)
           /\ Recipe(r, cfg).script \/ AllChecked(Recipe(r, cfg).steps)
           /\ ~Recipe(r, cfg).script \/ scripts[r] = "torn" \/ EndedWell(Recipe(r, cfg).steps)
<1>1. plan \in Seq(RoleNames) /\ cfg.ofed \in {"none", "inbox", "doca"}
  BY CaseAssumption DEF EngineType, plan, cfg
<1>2. PICK i \in 1..Len(plan) : r = plan[i]
  BY <1>1 DEF Planned
<1>3. Over(i)
  BY <1>1, <1>2 DEF EngineType, DoneInv
<1>4. Sequence(Recipe(r, cfg).steps)
  BY <1>1, <1>2, RecipeSound DEF Sound
<1> QED BY <1>2, <1>3, <1>4 DEF Over

\* A finished run has seen every checked command of its code roles succeed, for any
\* roles in any order.
THEOREM DoneIsChecked == ESpec => []DoneMeansChecked
<1>1. EngineType /\ DoneInv => DoneMeansChecked
  BY PlannedRole DEF DoneMeansChecked, CodeRoles, Commands, AllChecked, Sequence
<1> QED BY <1>1, TypeInvariance, DoneInvariance, PTL

\* A finished run has gone through no script that ended in a failure.
THEOREM ScriptsEndedWell == ESpec => []LastLineSucceeded
<1>1. EngineType /\ DoneInv => LastLineSucceeded
  BY PlannedRole
  DEF LastLineSucceeded, ScriptRoles, CodeRoles, Commands, EndedWell, EndedEarly, Ok, Sequence
<1> QED BY <1>1, TypeInvariance, DoneInvariance, PTL

-----------------------------------------------------------------------------
\* The roles come after those that they build on, and DOCA is for Enterprise Linux.
Orderly(k) ==
    /\ k.cfg.ofed = "doca" => ~k.cfg.deb
    /\ \A i \in 1..Len(k.plan) :
          /\ \/ k.plan[i] \in {"dump", "check", "repos", "network", "selinux", "locale", "firewall"}
             \/ \E j \in 1..Len(k.plan) : j < i /\ k.plan[j] = "repos"
          /\ k.plan[i] = "ofed" /\ k.cfg.ofed = "doca" =>
                \E j \in 1..Len(k.plan) : j < i /\ k.plan[j] = "check"
          /\ k.plan[i] \in {"queuesystem", "provisioner"} =>
                \E j \in 1..Len(k.plan) : j < i /\ k.plan[j] = "network"

\* Shell::install runs the roles in such an order.
THEOREM ShellInstallIsOrderly ==
    ASSUME NEW k, k.plan = InstallOrder, k.cfg.ofed = "doca" => ~k.cfg.deb
    PROVE  Orderly(k)
<1>1. /\ Len(k.plan) = 19 /\ k.plan[1] = "dump" /\ k.plan[2] = "check" /\ k.plan[3] = "repos"
      /\ k.plan[4] = "base" /\ k.plan[5] = "network"
      /\ \A i \in 6..17 : k.plan[i] \notin {"queuesystem", "provisioner"}
  BY DEF InstallOrder
<1> QED BY <1>1 DEF Orderly

GivesAll(t) == \A j \in 1..Len(t) : t[j].gives \subseteq facts

\* What is there once the repos, check and network roles are through.
LEMMA ReposGives ==
    ASSUME NEW c, GivesAll(Recipe("repos", c).steps)
    PROVE  "repos" \in facts
BY DEF Recipe, Repos, Code, Must, Command, GivesAll

LEMMA CheckGives ==
    ASSUME NEW c, ~c.deb, "check-kernel" \notin c.skip, GivesAll(Recipe("check", c).steps)
    PROVE  "kernel" \in facts
<1> DEFINE a == <<Must("makecache", {"os"}, {}), Must("repoquery", {"os"}, {})>>
           b == <<Must("kernel", IF c.newer THEN {"reboot"} ELSE {}, {"kernel"})>>
<1>1. Recipe("check", c).steps = a \o b
  BY DEF Recipe, Check, Code, When
<1>2. Len(a \o b) = 3 /\ (a \o b)[3] = b[1]
  OBVIOUS
<1>3. b[1].gives = {"kernel"}
  BY DEF Must, Command
<1> QED BY <1>1, <1>2, <1>3 DEF GivesAll

LEMMA NetworkGives ==
    ASSUME NEW c, "network" \notin c.skip, GivesAll(Recipe("network", c).steps)
    PROVE  {"management", "hostname", "hosts"} \subseteq facts
<1> DEFINE a == <<Try("enable-nm", {}, {"nm"})>>
           b == When(c.deb, <<Must("netplan", {"nm"}, {})>>)
           d == <<Try("dns-none", {"nm"}, {"resolv"}), Must("profiles", {"nm"}, {"management"}),
                  Must("hostname", {}, {"hostname"}), Must("hosts", {"management"}, {"hosts"})>>
<1>1. Recipe("network", c).steps = a \o b \o d
  BY DEF Recipe, NetworkRole, Code, When
<1>2. CASE c.deb
  <2>1. /\ Len(a \o b \o d) = 6
        /\ (a \o b \o d)[4] = d[2] /\ (a \o b \o d)[5] = d[3] /\ (a \o b \o d)[6] = d[4]
    BY <1>2 DEF When
  <2> QED BY <1>1, <2>1 DEF GivesAll, Must, Command
<1>3. CASE ~c.deb
  <2>1. /\ Len(a \o b \o d) = 5
        /\ (a \o b \o d)[3] = d[2] /\ (a \o b \o d)[4] = d[3] /\ (a \o b \o d)[5] = d[4]
    BY <1>3 DEF When
  <2> QED BY <1>1, <2>1 DEF GivesAll, Must, Command
<1> QED BY <1>2, <1>3

Left(i) ==
    \/ scripts[plan[i]] = "torn"
    \/ plan[i] = "spack" /\ "spack.git" \in facts
    \/ GivesAll(Recipe(plan[i], cfg).steps)

LeftSoFar ==
    Live =>
        \/ line > Len(Text) /\ Role = "spack" /\ "spack.git" \in facts
        \/ \A j \in 1..Len(Text) : j < line => Text[j].gives \subseteq facts

\* Where nothing fails by itself, the roles that are over left what they give.
RepairInv ==
    case.faulty = {} /\ Orderly(case) =>
        /\ Fresh \cup Prepared(cfg) \subseteq facts
        /\ "aidedb" \in facts => "aidenew" \in facts
        /\ failed \subseteq {"kernel"}
        /\ phase \in {"running", "done"} => \A i \in 1..Len(plan) : i < at => Left(i)
        /\ InRole => LeftSoFar

\* Before a role runs, what it builds on is there.
LEMMA Foundation ==
    ASSUME EngineType, RepairInv, case.faulty = {}, Orderly(case), InRole
    PROVE  Before(Role, cfg) \subseteq facts
<1>1. plan \in Seq(RoleNames) /\ at \in 1..Len(plan)
  BY CaseAssumption DEF EngineType, InRole, plan
<1>2. \A j \in 1..Len(plan) : j < at => Left(j)
  BY DEF RepairInv, InRole
<1>3. \A j \in 1..Len(plan) : scripts[plan[j]] = "torn" => Recipe(plan[j], cfg).script
  BY <1>1 DEF EngineType, Planned
<1>4. ~Recipe("repos", cfg).script /\ ~Recipe("check", cfg).script /\ ~Recipe("network", cfg).script
  BY DEF Recipe, Repos, Check, NetworkRole, Code
<1>5. \A j \in 1..Len(plan) : j < at /\ plan[j] \in {"repos", "check", "network"} =>
            GivesAll(Recipe(plan[j], cfg).steps)
  BY <1>2, <1>3, <1>4 DEF Left
<1>6. "repos" \in facts \/ Role \in {"dump", "check", "repos", "network", "selinux", "locale", "firewall"}
  BY <1>1, <1>5, ReposGives DEF Orderly, plan, Role
<1>7. Role = "ofed" /\ cfg.ofed = "doca" /\ "check-kernel" \notin cfg.skip => "kernel" \in facts
  BY <1>1, <1>5, CheckGives DEF Orderly, plan, cfg, Role
<1>8. Role \in {"queuesystem", "provisioner"} => {"management", "hostname", "hosts"} \subseteq facts
  <2>1. CASE "network" \in cfg.skip
    BY <2>1 DEF RepairInv, Prepared
  <2>2. CASE "network" \notin cfg.skip
    BY <1>1, <1>5, <2>2, NetworkGives DEF Orderly, plan, Role
  <2> QED BY <2>1, <2>2
<1>9. Fresh \subseteq facts
  BY DEF RepairInv
<1> QED BY <1>6, <1>7, <1>8, <1>9 DEF Before

\* A command that is reached has what it needs, or is one that may miss it.
LEMMA Reached ==
    ASSUME EngineType, RepairInv, case.faulty = {}, Orderly(case), AtCommand
    PROVE  \/ Current.needs \subseteq facts
           \/ Current.op = "kernel" /\ Current.checked
           \/ Current.quiet /\ Current.gives = {}
<1>1. InRole
  BY DEF AtCommand
<1>2. Live /\ line \in 1..Len(Text) /\ Current = Text[line] /\ Provided(Text, Before(Role, cfg))
  BY <1>1, InRoleFacts DEF Sound, Text
<1>3. Sequence(Text)
  BY <1>1, InRoleFacts DEF Sound, Text
<1>4. \A j \in 1..(line - 1) : Text[j].gives \subseteq facts
  BY <1>1, <1>2, <1>3 DEF RepairInv, LeftSoFar, EngineType, Sequence
<1>5. Before(Role, cfg) \subseteq facts
  BY <1>1, Foundation
<1> QED BY <1>2, <1>4, <1>5 DEF Provided

LEMMA RepairInit == EInit => RepairInv
BY DEF EInit, RepairInv, InRole, Fresh, Prepared

LEMMA RepairNext == EngineType /\ RepairInv /\ [ENext]_evars => RepairInv'
<1> SUFFICES ASSUME EngineType, RepairInv, [ENext]_evars
             PROVE  RepairInv'
  OBVIOUS
<1>s. case' = case
  BY DEF ENext, Launch, LoadRole, ExitEarly, Succeed, Fail, EndRole, Finish, Kill, evars
<1> SUFFICES ASSUME case.faulty = {}, Orderly(case)
             PROVE  /\ (Fresh \cup Prepared(cfg) \subseteq facts)'
                    /\ ("aidedb" \in facts => "aidenew" \in facts)'
                    /\ (failed \subseteq {"kernel"})'
                    /\ (phase \in {"running", "done"} =>
                            \A i \in 1..Len(plan) : i < at => Left(i))'
                    /\ (InRole => LeftSoFar)'
  BY <1>s DEF RepairInv
<1>0. /\ plan' = plan /\ cfg' = cfg
      /\ at' = at => Role' = Role /\ Text' = Text /\ IsScript' = IsScript
      /\ at' = at /\ scripts' = scripts => (Live' <=> Live)
  BY <1>s DEF plan, cfg, Text, IsScript, Live, Role
<1>t. plan \in Seq(RoleNames) /\ at \in Nat /\ line \in Nat
  BY CaseAssumption DEF EngineType, plan
<1>a. ASSUME facts \subseteq facts', NEW i \in 1..Len(plan), Left(i),
             \A r \in Planned : scripts[r] = "torn" => scripts'[r] = "torn"
      PROVE  Left(i)'
  <2>1. plan[i] \in Planned
    BY <1>t DEF Planned
  <2> QED BY <1>0, <1>a, <2>1 DEF Left, GivesAll
<1>b. /\ Fresh \cup Prepared(cfg) \subseteq facts
      /\ "aidedb" \in facts => "aidenew" \in facts
      /\ failed \subseteq {"kernel"}
      /\ phase \in {"running", "done"} => \A i \in 1..Len(plan) : i < at => Left(i)
      /\ InRole => LeftSoFar
  BY DEF RepairInv
<1>c. facts' = facts => (Fresh \cup Prepared(cfg) \subseteq facts)' /\ ("aidedb" \in facts => "aidenew" \in facts)'
  BY <1>0, <1>b
<1>d. ASSUME InRole
      PROVE  Sequence(Text) /\ Exits(Role, Text) /\ Halves(Text)
  BY <1>d, InRoleFacts DEF Sound, Text
<1>1. CASE Launch
  BY <1>0, <1>1, <1>b, <1>c, <1>t DEF Launch, LeftSoFar
<1>2. CASE LoadRole
  <2>1. InRole /\ line' = 1 /\ UNCHANGED <<phase, at, facts, failed>>
    BY <1>2 DEF LoadRole
  <2>2. \A r \in Planned : scripts[r] = "torn" => scripts'[r] = "torn"
    BY <1>2 DEF LoadRole, EngineType
  <2>3. LeftSoFar'
    BY <1>0, <2>1 DEF LeftSoFar
  <2> QED BY <1>0, <1>a, <1>b, <1>c, <2>1, <2>2, <2>3
<1>3. CASE ExitEarly
  <2>1. AtCommand /\ InRole /\ UNCHANGED <<phase, at, scripts, facts, failed>>
    BY <1>3 DEF ExitEarly, ExitsEarly, AtCommand
  <2>2. /\ Live /\ line \in 1..Len(Text) /\ Current = Text[line] /\ line' = Len(Text) + 1
        /\ Text[line].exits \cap facts # {}
    BY <1>3, <2>1, InRoleFacts DEF ExitEarly, ExitsEarly
  <2>3. LeftSoFar'
    <3>1. CASE Role = "spack" /\ "spack.git" \in facts
      BY <1>0, <1>d, <2>1, <2>2, <3>1 DEF LeftSoFar, Sequence
    <3>2. CASE ~(Role = "spack" /\ "spack.git" \in facts)
      <4>1. "aidedb" \in facts /\ \A l \in line..Len(Text) : Text[l].gives \subseteq {"aidenew", "aidedb"}
        BY <1>d, <2>1, <2>2, <3>2 DEF Exits
      <4>2. \A j \in 1..Len(Text) : j < line => Text[j].gives \subseteq facts
        BY <1>b, <2>1, <2>2, <3>2 DEF LeftSoFar
      <4>3. \A j \in 1..Len(Text) : Text[j].gives \subseteq facts
        BY <1>b, <1>d, <1>t, <2>1, <2>2, <4>1, <4>2 DEF Sequence
      <4> QED BY <1>0, <2>1, <4>3 DEF LeftSoFar
    <3> QED BY <3>1, <3>2
  <2> QED BY <1>0, <1>a, <1>b, <1>c, <2>1, <2>3
<1>4. CASE Succeed
  <2>1. /\ AtCommand /\ InRole /\ UNCHANGED <<phase, at, scripts, failed>>
        /\ Current.needs \subseteq facts /\ facts' = facts \cup Current.gives /\ line' = line + 1
    BY <1>4 DEF Succeed, AtCommand
  <2>2. Live /\ line \in 1..Len(Text) /\ Current = Text[line]
    BY <2>1, InRoleFacts
  <2>3. LeftSoFar'
    <3>1. \A j \in 1..Len(Text) : j < line => Text[j].gives \subseteq facts
      BY <1>b, <1>d, <1>t, <2>1, <2>2 DEF LeftSoFar, Sequence
    <3>2. \A j \in 1..Len(Text) : j < line + 1 => Text[j].gives \subseteq facts'
      BY <1>d, <1>t, <2>1, <2>2, <3>1 DEF Sequence
    <3> QED BY <1>0, <2>1, <3>2 DEF LeftSoFar
  <2>4. "aidedb" \in facts' => "aidenew" \in facts'
    BY <1>b, <1>d, <2>1, <2>2 DEF Halves
  <2> QED BY <1>0, <1>a, <1>b, <2>1, <2>3, <2>4
<1>5. CASE Fail
  <2>1. /\ AtCommand /\ InRole /\ UNCHANGED <<at, scripts, facts>>
        /\ ~(Current.needs \subseteq facts) /\ line' = line + 1
        /\ failed' = IF Current.quiet THEN failed ELSE failed \cup {Current.op}
        /\ phase' = IF Current.checked THEN "stopped" ELSE phase
    BY <1>5 DEF Fail, AtCommand
  <2>2. Live /\ line \in 1..Len(Text) /\ Current = Text[line]
    BY <2>1, InRoleFacts
  <2>3. (Current.op = "kernel" /\ Current.checked) \/ (Current.quiet /\ Current.gives = {})
    BY <2>1, Reached
  <2>4. failed' \subseteq {"kernel"} /\ (phase' = "running" => Current.gives = {})
    BY <1>b, <2>1, <2>3
  <2>5. phase' = "running" => LeftSoFar'
    <3>1. \A j \in 1..Len(Text) : j < line => Text[j].gives \subseteq facts
      BY <1>b, <1>d, <1>t, <2>1, <2>2 DEF LeftSoFar, Sequence
    <3>2. Current.gives = {} => \A j \in 1..Len(Text) : j < line + 1 => Text[j].gives \subseteq facts'
      BY <1>d, <1>t, <2>1, <2>2, <3>1 DEF Sequence
    <3> QED BY <1>0, <2>1, <2>4, <3>2 DEF LeftSoFar
  <2>6. phase' \in {"running", "stopped"}
    BY <2>1 DEF InRole
  <2> QED BY <1>0, <1>a, <1>b, <1>c, <2>1, <2>4, <2>5, <2>6 DEF InRole
<1>6. CASE EndRole
  <2>1. CASE phase' # "running"
    BY <1>6, <1>b, <1>c, <2>1 DEF EndRole, RoleEnded, InRole
  <2>2. CASE phase' = "running"
    <3>1. RoleEnded /\ InRole /\ at' = at + 1 /\ line' = 0 /\ UNCHANGED <<scripts, facts, failed>>
      BY <1>6, <2>2 DEF EndRole, RoleEnded
    <3>2. Sequence(Text) /\ LeftSoFar /\ (~Live \/ line > Len(Text))
      BY <1>b, <1>d, <3>1, InRoleFacts
    <3>3. ~Live \/ (Role = "spack" /\ "spack.git" \in facts) \/ GivesAll(Text)
      BY <1>t, <3>2 DEF LeftSoFar, GivesAll, Sequence
    <3>4. Left(at)
      BY <3>3 DEF Left, Live, Role, Text
    <3>5. \A i \in 1..Len(plan) : i < at' => Left(i)
      BY <1>b, <1>t, <3>1, <3>4 DEF InRole
    <3>6. InRole' => Len(Text') \in Nat
      BY TypeNext, InRoleFacts DEF Sound, Text, Sequence
    <3>7. InRole' => LeftSoFar'
      BY <3>1, <3>6 DEF LeftSoFar
    <3> QED BY <1>0, <1>a, <1>b, <1>c, <3>1, <3>5, <3>7
  <2> QED BY <2>1, <2>2
<1>7. CASE Finish
  BY <1>0, <1>7, <1>a, <1>b, <1>c DEF Finish, InRole
<1>8. CASE Kill
  <2>1. phase' = "crashed" /\ failed' = failed /\ InRole
    BY <1>8 DEF Kill
  <2>2. facts' = facts \/ (AtCommand /\ facts' = facts \cup Current.leaves)
    BY <1>8 DEF Kill
  <2>3. AtCommand => Current.leaves \subseteq {"spack.git"}
    BY <1>d, <2>1, InRoleFacts DEF Halves
  <2> QED BY <1>0, <1>b, <2>1, <2>2, <2>3 DEF InRole
<1>9. CASE UNCHANGED evars
  <2>1. LeftSoFar => LeftSoFar'
    BY <1>0, <1>9 DEF evars, LeftSoFar
  <2> QED BY <1>0, <1>a, <1>b, <1>9, <2>1 DEF evars, InRole
<1> QED BY <1>1, <1>2, <1>3, <1>4, <1>5, <1>6, <1>7, <1>8, <1>9 DEF ENext

LEMMA RepairInvariance == ESpec => []RepairInv
BY TypeInvariance, RepairInit, RepairNext, PTL DEF ESpec

\* In an orderly plan no command is reached before what it needs is there, after
\* any crashes, but the kernel check.
THEOREM NeedsAreInPlace == ESpec => [](Orderly(case) => NeedsInPlace)
<1>1. RepairInv => (Orderly(case) => NeedsInPlace)
  BY DEF RepairInv, NeedsInPlace
<1> QED BY <1>1, RepairInvariance, PTL

\* Running an orderly plan again after a crash leaves what its roles provide, but
\* for a torn script and an interrupted clone.
THEOREM RunningAgainRepairs == ESpec => [](Orderly(case) => RerunRepairs)
<1>1. EngineType /\ RepairInv => (Orderly(case) => RerunRepairs)
  <2> SUFFICES ASSUME EngineType, RepairInv, Orderly(case), phase = "done", case.faulty = {},
                      NEW r \in Planned, NEW k \in Commands(r)
               PROVE  \/ k.gives \subseteq facts
                      \/ scripts[r] = "torn"
                      \/ r = "spack" /\ "spack.git" \in facts
    BY DEF RerunRepairs
  <2>1. plan \in Seq(RoleNames) /\ cfg.ofed \in {"none", "inbox", "doca"}
    BY CaseAssumption DEF EngineType, plan, cfg
  <2>2. PICK i \in 1..Len(plan) : r = plan[i]
    BY <2>1 DEF Planned
  <2>3. Left(i)
    BY <2>1, <2>2 DEF EngineType, RepairInv
  <2>4. Sequence(Recipe(r, cfg).steps)
    BY <2>1, <2>2, RecipeSound DEF Sound
  <2> QED BY <2>2, <2>3, <2>4 DEF Left, GivesAll, Commands, Sequence
<1> QED BY <1>1, TypeInvariance, RepairInvariance, PTL
=============================================================================
