----------------------------- MODULE XcatSetup -----------------------------
(***************************************************************************)
(* The first half of XCAT::install (src/src/services/xcat.cpp): the packages, *)
(* the NFS exports, patchInstall, which edits xCAT's own files, and setup,   *)
(* which waits for xcatd and writes the site table.  The installer can fail  *)
(* or be killed in every step and is started again, with other settings, on  *)
(* the files the last run left.                                              *)
(*                                                                          *)
(* The addresses of the management network are counted from its network     *)
(* address, so its mask is the number of its host bits.                      *)
(***************************************************************************)
EXTENDS Naturals

CONSTANTS
    Interfaces,     \* management interfaces
    Subnets,        \* network addresses of management subnets
    HostBits,       \* the sizes of management subnets
    Domains,        \* domain names
    MaxAttempts,    \* how often setup looks for the site table: 30
    PoolSize,       \* preferredRangeSize: 100
    Requests        \* the settings the installer is started with

Settings == [interface : Interfaces, net : Subnets, bits : HostBits, domain : Domains,
             forcePatch : BOOLEAN,
             stopAfter : {"none", "xcat-patch", "provisioner-setup"}]

VARIABLES
    pc,         \* the next step of the run, "off" or "done" when none goes on
    cfg,        \* its settings
    packages,   \* whether xCAT is installed
    helpers,    \* the certificate scripts: "shipped" or "edited"
    ddns,       \* ddns.pm: "shipped" or "patched"
    creds,      \* whether all credential files have a content
    daemon,     \* xcatd: "down", "starting", "up"
    attempt,    \* attempts setup has made
    site        \* the site table and the network definitions

files == <<packages, helpers, ddns, creds>>

Unset == "unset"

-----------------------------------------------------------------------------
\* The usable addresses of a subnet are FirstUsable .. LastUsable(b).
FirstUsable == 1
LastUsable(b) == IF b = 1 THEN 0 ELSE 2^b - 2

\* preferredRangeEnd
PoolEnd(b) ==
    IF LastUsable(b) > FirstUsable + 2 THEN LastUsable(b) - 2 ELSE LastUsable(b)

\* rangeSize: there are PoolEnd(b) - FirstUsable + 1 addresses to choose from.
PoolCount(b) == IF PoolSize < PoolEnd(b) THEN PoolSize ELSE PoolEnd(b)

\* defaultDHCPDynamicRangeFor
DynamicRange(b) == [from |-> PoolEnd(b) - PoolCount(b) + 1, to |-> PoolEnd(b)]
TooSmall(b) == LastUsable(b) < FirstUsable

\* buildDHCPDynamicRangeCommand: the definition it makes, and
\* buildNetworkDefinitionName: the ones it replaces, those with the same network
\* address and mask.
Definition(c) == [net |-> c.net, bits |-> c.bits, interface |-> c.interface,
                  pool |-> DynamicRange(c.bits)]
Namesakes(c) == { d \in site.networks : d.net = c.net /\ d.bits = c.bits }

-----------------------------------------------------------------------------
Start(c) ==
    /\ pc \in {"off", "done"} /\ pc' = "packages"
    /\ cfg' = c /\ attempt' = 0
    /\ UNCHANGED <<files, daemon, site>>

\* buildXcatPackageInstallCommands: a first installation brings the shipped
\* files, and can bring credential directories without credentials.
InstallPackages ==
    /\ pc = "packages" /\ pc' = "nfs" /\ packages' = TRUE
    /\ creds' \in IF packages THEN {creds} ELSE BOOLEAN
    /\ UNCHANGED <<cfg, helpers, ddns, daemon, attempt, site>>

\* The script of NFS::installScript.
ExportDirectories ==
    /\ pc = "nfs" /\ pc' = "check patch"
    /\ UNCHANGED <<cfg, files, daemon, attempt, site>>

\* patchInstall looks for the string that its own first command removes.
CheckPatch ==
    /\ pc = "check patch"
    /\ \/ /\ cfg.forcePatch \/ helpers = "shipped"
          /\ pc' = "edit"
       \/ /\ ~cfg.forcePatch /\ helpers = "edited"
          /\ pc' = "enable"
    /\ UNCHANGED <<cfg, files, daemon, attempt, site>>

\* Two sed commands, not checked.
EditHelpers ==
    /\ pc = "edit" /\ pc' = "patch"
    /\ helpers' \in {helpers, "edited"}
    /\ UNCHANGED <<cfg, packages, ddns, creds, daemon, attempt, site>>

\* patch --forward succeeds on the shipped file only.
PatchDdns ==
    /\ pc = "patch" /\ ddns = "shipped" /\ ddns' = "patched"
    /\ pc' = IF cfg.stopAfter = "xcat-patch" THEN "off" ELSE "enable"
    /\ UNCHANGED <<cfg, packages, helpers, creds, daemon, attempt, site>>

\* systemctl enable --now xcatd, not checked.
EnableDaemon ==
    /\ pc = "enable" /\ pc' = "credentials"
    /\ daemon' \in IF daemon = "up" THEN {"up"} ELSE {"down", "starting"}
    /\ UNCHANGED <<cfg, files, attempt, site>>

\* The credential check, and xcatconfig -c when it fails.
RepairCredentials ==
    /\ pc = "credentials" /\ pc' = "restart" /\ creds' = TRUE
    /\ UNCHANGED <<cfg, packages, helpers, ddns, daemon, attempt, site>>

\* systemctl restart xcatd, not checked; xcatd cannot start without its
\* credentials.
RestartDaemon ==
    /\ pc = "restart" /\ pc' = "poll"
    /\ daemon' \in IF creds THEN {"down", "starting", daemon} ELSE {"down"}
    /\ UNCHANGED <<cfg, files, attempt, site>>

\* Meanwhile xcatd comes up.
DaemonUp ==
    /\ daemon = "starting" /\ creds /\ daemon' = "up"
    /\ UNCHANGED <<pc, cfg, files, attempt, site>>

\* Mutant of Poll: the last attempt does not give up.
PollForever ==
    /\ pc = "poll"
    /\ \/ daemon = "up" /\ pc' = "interfaces" /\ UNCHANGED attempt
       \/ /\ daemon # "up" /\ UNCHANGED pc
          /\ attempt' = (attempt + 1) % MaxAttempts
    /\ UNCHANGED <<cfg, files, daemon, site>>

\* Mutant of Poll: after the last attempt the set-up goes on.
PollQuietly ==
    /\ pc = "poll" /\ attempt' = attempt + 1
    /\ pc' = IF daemon = "up" \/ attempt' = MaxAttempts THEN "interfaces" ELSE "poll"
    /\ UNCHANGED <<cfg, files, daemon, site>>

\* One lsdef -t site of setup.
Poll ==
    /\ pc = "poll" /\ attempt' = attempt + 1
    /\ pc' = IF daemon = "up" THEN "interfaces"
             ELSE IF attempt' = MaxAttempts THEN "off" ELSE "poll"
    /\ UNCHANGED <<cfg, files, daemon, site>>

SetDHCPInterfaces ==
    /\ pc = "interfaces" /\ pc' = "range"
    /\ site' = [site EXCEPT !.interface = cfg.interface]
    /\ UNCHANGED <<cfg, files, daemon, attempt>>

\* Mutant of SetDHCPDynamicRange: a definition that is there is kept.
KeepDefinition ==
    /\ pc = "range" /\ ~TooSmall(cfg.bits) /\ pc' = "postscripts"
    /\ site' = [site EXCEPT !.networks =
                  IF Namesakes(cfg) = {} THEN @ \cup {Definition(cfg)} ELSE @]
    /\ UNCHANGED <<cfg, files, daemon, attempt>>

\* chdef -t network; a subnet without a usable address is refused.  The
\* definitions of other subnets stay.
SetDHCPDynamicRange ==
    /\ pc = "range" /\ ~TooSmall(cfg.bits) /\ pc' = "postscripts"
    /\ site' = [site EXCEPT !.networks = (@ \ Namesakes(cfg)) \cup {Definition(cfg)}]
    /\ UNCHANGED <<cfg, files, daemon, attempt>>

SetPrecreateMyPostscripts ==
    /\ pc = "postscripts" /\ pc' = "domain"
    /\ site' = [site EXCEPT !.precreate = TRUE]
    /\ UNCHANGED <<cfg, files, daemon, attempt>>

\* --stop-after=provisioner-setup ends the run here too.
SetDomain ==
    /\ pc = "domain"
    /\ site' = [site EXCEPT !.domain = cfg.domain]
    /\ pc' = IF cfg.stopAfter = "provisioner-setup" THEN "off" ELSE "done"
    /\ UNCHANGED <<cfg, files, daemon, attempt>>

\* A checked command fails, with or without having done its work, or the
\* process is killed.
Stop ==
    /\ pc \notin {"off", "done"} /\ pc' = "off"
    /\ \/ /\ pc = "edit" /\ helpers' = "edited"
          /\ UNCHANGED <<packages, ddns, creds, site>>
       \/ /\ pc = "packages" /\ packages' \in {packages, TRUE}
          /\ UNCHANGED <<helpers, ddns, creds, site>>
       \/ pc # "packages" /\ UNCHANGED <<files, site>>
    /\ UNCHANGED <<cfg, daemon, attempt>>

Init ==
    /\ pc = "off" /\ cfg \in Requests
    /\ packages = FALSE /\ helpers = "shipped" /\ ddns = "shipped"
    /\ creds = FALSE /\ daemon = "down" /\ attempt = 0
    /\ site = [interface |-> Unset, networks |-> {}, precreate |-> FALSE,
               domain |-> Unset]

PatchInstall == CheckPatch \/ EditHelpers \/ PatchDdns \/ EnableDaemon
                    \/ RepairCredentials \/ RestartDaemon
Setup == Poll \/ SetDHCPInterfaces \/ SetDHCPDynamicRange
            \/ SetPrecreateMyPostscripts \/ SetDomain
Installer == InstallPackages \/ ExportDirectories \/ PatchInstall \/ Setup

Next == (\E c \in Requests : Start(c)) \/ Installer \/ DaemonUp \/ Stop

-----------------------------------------------------------------------------
Configuring == {"interfaces", "range", "postscripts", "domain", "done"}

\* setup only writes the site table of an xcatd that is up, and that has all its
\* credentials, although neither of the commands that start xcatd is checked and
\* a package can leave empty credential files behind.
SetupOfRunningDaemon ==
    pc \in Configuring => daemon = "up" /\ creds /\ packages

\* A completed run leaves a site table that is all its own and one definition of
\* its management network, on its interface and with its range, also when earlier
\* runs with another interface, subnet or domain stopped half-way.  The
\* definitions of other subnets, or of the same network address with another
\* mask, are still there, each with the range of its own subnet: chdef goes by the
\* name, and setup removes none.
SiteIsThisRuns ==
    /\ pc = "done" =>
        /\ site.interface = cfg.interface /\ site.precreate /\ site.domain = cfg.domain
        /\ Namesakes(cfg) = {Definition(cfg)}
    /\ \A d \in site.networks : d.pool = DynamicRange(d.bits)
=============================================================================
