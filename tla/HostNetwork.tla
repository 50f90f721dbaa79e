----------------------------- MODULE HostNetwork ----------------------------
(***************************************************************************)
(* The private network of one host as farrow uses it: the installers of    *)
(* LinuxNetwork and DarwinNetwork, what the preflight probe of an ordinary *)
(* user sees of their work, and setup, which installs or repairs by the    *)
(* preflight report.  Other software adds routes to the host meanwhile.    *)
(***************************************************************************)
EXTENDS NetworkPreflight, Sequences

CONSTANTS Hosts, Configs, BSDNames, NoName,
          Routes     \* routes that other software may add

ASSUME NoNameAssumption == NoName \notin BSDNames

VARIABLES platform, host, job, before, report, mac, task, outcome, routes
vars == <<platform, host, job, before, report, mac, task, outcome, routes>>

L == INSTANCE LinuxNetwork
D == INSTANCE DarwinNetwork

\* Before farrow is first used nothing on a host is its own.  Where
\* NetworkManager runs the network, whose backend leaves networkd alone, the
\* networkd units are as the next boot will have them.
ASSUME HostsAssumption ==
  \A h \in Hosts :
    /\ h \in L!HostStates
    /\ h.manifest.is = "none" /\ ~h.link /\ ~h.connection
    /\ L!OwnPaths(h) = {} /\ "state" \notin h.dirs /\ h.helper.override = "none"
    /\ ~h.conf.exists => h.conf = L!NoConf
    /\ h.nm => h.service.active = h.service.enabled /\ h.others.active = h.others.enabled

OnLinux == platform = "linux"
Request(purpose) == [purpose |-> purpose, cidr |-> "lab", addresses |-> {}]
Nothing == [status |-> "absent", cidr |-> "none", healthy |-> FALSE, routes |-> routes, interfaces |-> {},
            findings |-> {}, sharing |-> FALSE, answering |-> {}]

\* --- what the probe finds (probe.go) -------------------------------------
\* Linux: any trace of ours makes an installation, a full set of public files
\* is compared with the pinned contents, the helper policy is checked, and the
\* manifest is out of an ordinary user's sight.
NetworkManagerShape == "public" \in L!OwnPaths(host)
NetworkdShape == L!OwnPaths(host) \cap {"netdev", "network"} # {}
Anchored == NetworkManagerShape \/ NetworkdShape \/ "state" \in host.dirs \/ host.conf.block = "ours"
PublicFiles == IF NetworkManagerShape /\ ~NetworkdShape THEN {"public"} ELSE {"netdev", "network"}
Complete == PublicFiles \subseteq L!OwnPaths(host) /\ host.conf.exists /\ "state" \in host.dirs
\* The policy of Debian asked of every family.
HelperVerifiedAlike == host.helper = [override |-> "ours", mode |-> "scoped"]

HelperVerified ==
  IF host.family = "rpm" THEN host.helper.mode = "package"
  ELSE host.helper = [override |-> "ours", mode |-> "scoped"]
Verified == PublicFiles \subseteq host.files /\ host.conf.block = "ours" /\ HelperVerified
ManagerActive == IF PublicFiles = {"public"} THEN host.nm ELSE host.service.active

\* The interface found on the host address: our bridge, or nothing.
LinkRoutes(up) ==
  IF up THEN {[covers |-> "same", owner |-> "ours"], [covers |-> "inside", owner |-> "host address"]} ELSE {}

CollectLinux ==
  LET status == IF ~Anchored THEN "absent"
                ELSE IF NetworkdShape /\ NetworkManagerShape THEN "invalid"
                ELSE IF ~Complete THEN "partial"
                ELSE IF Verified THEN "protected" ELSE "invalid"
      known == status \in {"protected", "invalid"} /\ Complete
  IN [Nothing EXCEPT !.status = status,
                     !.cidr = IF known THEN "lab" ELSE "none",
                     !.healthy = known /\ host.link /\ ManagerActive,
                     !.routes = routes \cup LinkRoutes(host.link),
                     !.interfaces = IF host.link THEN {"ours"} ELSE {}]

\* macOS: the public part of the installation; network.json and the protected
\* copy of the interface name are out of sight.
LogFinding ==
  IF mac.logmode /\ "log" \in mac.dirs THEN {} ELSE {Error("installation.log_directory")}
CollectDarwin ==
  LET status == IF D!NoneInstalled(mac) THEN IF "log" \in mac.dirs \/ mac.socket THEN "partial" ELSE "absent"
                ELSE IF ~D!AllRequired(mac) THEN "partial"
                ELSE IF {"daemon", "client", "plist"} \subseteq mac.files THEN "protected" ELSE "invalid"
      known == D!AllRequired(mac)
      ours == known /\ mac.bridge = mac.public
  IN [Nothing EXCEPT !.status = status,
                     !.cidr = IF known THEN "lab" ELSE "none",
                     !.healthy = known /\ D!Accepting(mac) /\ ours,
                     !.routes = routes \cup LinkRoutes(ours),
                     !.interfaces = IF mac.bridge = NoName THEN {} ELSE IF ours THEN {"ours"} ELSE {"other"},
                     !.findings = IF status = "protected" THEN LogFinding ELSE {}]

Snapshot == IF OnLinux THEN CollectLinux ELSE CollectDarwin
Offered == CanRepair(Request("install"), Snapshot)

\* --- the commands --------------------------------------------------------
LinuxIdle == UNCHANGED <<host, job, before, report>>
DarwinIdle == UNCHANGED <<mac, task, outcome>>

Init ==
  /\ platform \in {"linux", "darwin"}
  /\ L!Init /\ D!Init
  /\ IF OnLinux THEN ~mac.helper ELSE host = CHOOSE h \in Hosts : TRUE
  /\ routes = {}

\* farrow setup, also when up, start or reload run it: it stops at any error
\* it cannot repair, installs what is absent and repairs what is intact.
SetupInstalls == Ready(Evaluate(Request("install"), Snapshot)) /\ NeedsInstall(Request("install"), Snapshot)
Setup ==
  /\ UNCHANGED <<platform, routes>>
  /\ \/ OnLinux /\ (Offered \/ SetupInstalls) /\ L!Install /\ DarwinIdle
     \/ ~OnLinux /\ SetupInstalls /\ D!Install /\ LinuxIdle
     \/ ~OnLinux /\ Offered /\ D!Repair(NeedsRestart(Evaluate(Request("install"), Snapshot))) /\ LinuxIdle

\* farrow network install: nothing but a clean report will do, but what is
\* installed and well is installed again on Linux.
NetworkInstall ==
  /\ Ready(Evaluate(Request("install"), Snapshot))
  /\ \/ OnLinux /\ L!Install /\ DarwinIdle
     \/ ~OnLinux /\ D!Install /\ LinuxIdle
  /\ UNCHANGED <<platform, routes>>

\* farrow network uninstall: without a preflight.
NetworkUninstall ==
  /\ \/ OnLinux /\ L!Uninstall /\ DarwinIdle
     \/ ~OnLinux /\ D!Uninstall /\ LinuxIdle
  /\ UNCHANGED <<platform, routes>>

Linux == OnLinux /\ (L!Progress \/ L!Surroundings) /\ DarwinIdle /\ UNCHANGED <<platform, routes>>
Darwin == ~OnLinux /\ (D!Progress \/ D!Surroundings) /\ LinuxIdle /\ UNCHANGED <<platform, routes>>

\* Other software changes the routes.
RouteChange ==
  /\ routes' \in SUBSET Routes
  /\ L!Idle /\ D!Resting
  /\ LinuxIdle /\ DarwinIdle /\ UNCHANGED platform

Next == Setup \/ NetworkInstall \/ NetworkUninstall \/ Linux \/ Darwin \/ RouteChange
Spec == Init /\ [][Next]_vars

\* --- properties ----------------------------------------------------------
\* What an uninstall or an automatic rollback reports as removed is removed:
\* on Linux every file, mode, unit and directory is as the first install found
\* it (plan.go NewUninstallPlan, restoreNetworkdCommands), whatever re-installs,
\* failures and reboots came in between; on a Mac nothing is left but the root
\* shared with the hosts helper (executor.go rollbackFreshInstall, Uninstall).
\* Left out: a service that launchd still had from an earlier failed rollback.
RemovalRestores ==
  [][/\ ~L!Idle /\ report' \in {"removed", "rolledback"} => L!Prestate(host') = before
     /\ ~D!Resting /\ outcome' \in {"removed", "rolledback"} /\ ~task.stale => D!Clean(mac')]_vars

\* What the preflight of a user offers to repair on Linux is something that the
\* installer, which also sees the manifest, then accepts (preflight.go
\* CanRepair, plan.go NewInstallPlan), unless the manifest was cut short or
\* other software added a networkd configuration.
RepairIsAccepted ==
  OnLinux /\ L!Idle /\ Offered /\ host.manifest.is # "torn" /\ (~host.nm => L!ActivationSafe(host))
    => L!InstallAccepted(host)

\* What reports success passes the checks that every later command makes: after
\* an install on Linux the preflight finds nothing but foreign routes, after an
\* install or repair on a Mac it finds the installation intact (setup.go
\* 1259-1268).  Left out: a Debian helper that already had the restricted mode.
InstalledIsVerified ==
  /\ OnLinux /\ L!Idle /\ report = "installed" /\ before.helper.mode # "scoped"
       => \A f \in Errors(Evaluate(Request("use"), Snapshot)) : f.code = "route.overlap"
  /\ ~OnLinux /\ D!Resting /\ outcome \in {"installed", "repaired"} => Snapshot.status = "protected"

\* A repair of the log directory alone does not disconnect running VMs: while
\* the service is up under its recorded name and takes connections, no step of
\* such a repair brings a restart nearer, neither the preflight that plans it
\* nor the look at the socket after the log directory, whatever launchd did in
\* between (repair.go 38-49, setup.go networkRepairNeedsRestart).
RepairSparesVMs ==
  [][/\ task'.kind = "repair" /\ D!Usable(mac)
     /\ D!Resting \/ \E i \in DOMAIN task.steps : task.steps[i] = D!Cmd("choose", "reuse")
     => \A i \in DOMAIN task'.steps : task'.steps[i].do # "kickstart"
                                       /\ task'.steps[i] # D!Cmd("choose", "restart")]_vars

\* What farrow recorded as its own can be taken away or completed: while no
\* command runs and nothing is attached, uninstall accepts the host, or setup or
\* install does (SECURITY.md 29-30).
AlwaysAWayOut ==
  OnLinux /\ L!Idle /\ L!Installed /\ ~host.attached /\ host.conf.text # "b" /\ routes = {}
    => \/ L!UninstallAccepted(host)
       \/ (Offered \/ Ready(Evaluate(Request("install"), Snapshot))) /\ L!InstallAccepted(host)
=============================================================================
