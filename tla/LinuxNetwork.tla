---------------------------- MODULE LinuxNetwork ----------------------------
(***************************************************************************)
(* The fixed-IP network of a Linux host (internal/network/linux): a bridge *)
(* run by systemd-networkd or by NetworkManager, the rule and the helper   *)
(* that let QEMU attach to it, and the manifest that records what install  *)
(* found.  Install, its automatic rollback and uninstall are sequences of  *)
(* privileged commands; each of them can fail, and farrow or the machine   *)
(* can go down between any two and in the middle of writing a file.        *)
(*                                                                         *)
(* Digests are exact comparisons, the four networkd units are `service`    *)
(* and `others` (the socket, the generator and wait-online), one user and  *)
(* one subnet ask for the network.                                         *)
(***************************************************************************)
EXTENDS Integers, Sequences, FiniteSets

CONSTANTS
  Hosts,      \* the states of the host before farrow is first used
  Configs     \* network configurations that other software may add

VARIABLES
  host,       \* what farrow can see of the host
  job,        \* the privileged commands the running command has left
  before,     \* the host as the install that wrote the manifest found it
  report      \* what the last finished command reported
vars == <<host, job, before, report>>

NoManifest == [is |-> "none"]
TornManifest == [is |-> "torn"]
NoConf == [exists |-> FALSE, text |-> "", block |-> "none"]
NoJob == [kind |-> "none", steps |-> <<>>]

\* The facts of a host and the record of ownership, as far as they are modelled.
Unit == [enabled : BOOLEAN, active : BOOLEAN]
Conf == [exists : BOOLEAN, text : {"", "a", "b"}, block : {"none", "ours", "torn"}]
Modes == {"package", "scoped", "half"}
Helper == [override : {"none", "ours"}, mode : Modes]
Files == {"public", "netdev", "network"}
Dirs == {"qemu", "farrow", "state"}
Manifests ==
  [is : {"manifest"}, nm : BOOLEAN, conf : Conf, original : Conf, helper : Modes, override : BOOLEAN,
   created : SUBSET {"qemu", "farrow"}, service : Unit, others : Unit]
HostStates ==
  [family : {"debian", "rpm"}, nm : BOOLEAN, service : Unit, others : Unit, conf : Conf,
   files : SUBSET Files, torn : SUBSET Files, dirs : SUBSET Dirs,
   manifest : Manifests \cup {NoManifest, TornManifest}, helper : Helper,
   link : BOOLEAN, connection : BOOLEAN, attached : BOOLEAN, configs : SUBSET Configs]

Idle == job.kind = "none"
Installed == host.manifest.is = "manifest"

\* --- networkd configurations of other software ---------------------------
\* A configuration names the links it may match; an unclear match, a drop-in
\* or an unsafe file counts as matching.  A masked one does nothing.
Links == {"lan", "farrow0"}
CouldMatch(config, link) == config.unclear \/ link \in config.links
Conflicting(config) ==
  /\ ~config.masked
  /\ config.unsafe \/ config.dropin \/ config.kind = "netdev" \/ \E link \in Links : CouldMatch(config, link)
ActivationSafe(h) == h.torn \cap {"netdev", "network"} = {} /\ \A config \in h.configs : ~Conflicting(config)

\* --- facts and plans ------------------------------------------------------
OwnPaths(h) == h.files \cup h.torn

\* discoverManifest and the refusal to adopt: a state directory needs a
\* readable manifest, and without one nothing of ours may be there.
Discoverable(h) ==
  \/ h.manifest.is = "manifest"
  \/ h.manifest.is = "none" /\ "state" \notin h.dirs /\ OwnPaths(h) = {}

Reconciled(conf) == [exists |-> TRUE, text |-> conf.text, block |-> "ours"]

HelperAccepted(h) ==
  IF h.family = "rpm" THEN h.helper.mode = "package"
  ELSE \/ h.helper.override = "none"
       \/ h.helper.override = "ours" /\ h.manifest.is = "manifest" /\ h.manifest.override
HelperNeedsOverride(h) == h.family = "debian" /\ h.helper.override = "none" /\ h.helper.mode # "scoped"

OwnFiles(nm) == IF nm THEN {"public"} ELSE {"netdev", "network"}

\* A re-install that takes the host as it is now for the host before farrow.
ManifestRecaptured(h) ==
  [is |-> "manifest", nm |-> h.nm, conf |-> Reconciled(h.conf), original |-> h.conf,
   helper |-> h.helper.mode, override |-> HelperNeedsOverride(h) \/ h.helper.override = "ours",
   created |-> {"qemu", "farrow"} \ h.dirs, service |-> h.service, others |-> h.others]

\* A manifest that exists keeps what it recorded about the host.
Manifest(h) ==
  IF h.manifest.is = "manifest"
  THEN [h.manifest EXCEPT !.conf = Reconciled(h.conf)]
  ELSE [is |-> "manifest", nm |-> h.nm, conf |-> Reconciled(h.conf), original |-> h.conf,
        helper |-> h.helper.mode, override |-> HelperNeedsOverride(h),
        created |-> {"qemu", "farrow"} \ h.dirs, service |-> h.service, others |-> h.others]

InstallAccepted(h) ==
  /\ Discoverable(h)
  /\ h.link => h.manifest.is = "manifest"
  /\ h.nm /\ h.connection => h.manifest.is = "manifest"
  /\ ~h.nm /\ ~h.service.active => ActivationSafe(h)
  /\ h.conf.block # "torn"
  /\ HelperAccepted(h)
  /\ h.manifest.is = "manifest" => h.manifest.nm = h.nm

Do(what, on) == [do |-> what, on |-> on]
DoIf(condition, what, on) == IF condition THEN <<Do(what, on)>> ELSE <<>>

\* An install that records its ownership when everything is in place.
PlacingStepsManifestLast(h) ==
  DoIf("qemu" \notin h.dirs, "mkdir", "qemu")
  \o DoIf(h.nm /\ "farrow" \notin h.dirs, "mkdir", "farrow")
  \o (IF h.nm THEN <<Do("write", "public"), Do("write", "conf")>>
      ELSE <<Do("write", "conf"), Do("write", "netdev"), Do("write", "network")>>)
  \o <<Do("mkdir", "state"), Do("write", "manifest")>>

PlacingSteps(h) ==
  DoIf("qemu" \notin h.dirs, "mkdir", "qemu")
  \o DoIf(h.nm /\ "farrow" \notin h.dirs, "mkdir", "farrow")
  \o <<Do("mkdir", "state"), Do("write", "manifest")>>
  \o (IF h.nm THEN <<Do("write", "public"), Do("write", "conf")>>
      ELSE <<Do("write", "conf"), Do("write", "netdev"), Do("write", "network")>>)

ActivatingSteps(h) ==
  (IF h.nm
   THEN DoIf(~h.connection, "add", "connection") \o <<Do("up", "connection")>>
   ELSE DoIf(~h.service.active, "start", "service") \o <<Do("reload", "service"), Do("await", "bridge")>>)
  \o DoIf(HelperNeedsOverride(h), "override", "helper")
  \o <<Do("await", "bridge"), Do("smoke", "helper")>>
  \o DoIf(~h.nm /\ ~h.service.enabled, "enable", "service")

\* restoreNetworkdCommands: enabling or disabling the service takes the other
\* units along, so it comes first and they are set one by one after it.
UnitSteps(m) ==
  <<Do("disable", "service")>>
  \o DoIf(m.service.enabled, "enable", "service")
  \o <<Do(IF m.others.enabled THEN "enable" ELSE "disable", "others"),
       Do(IF m.service.active THEN "start" ELSE "stop", "service"),
       Do(IF m.others.active THEN "start" ELSE "stop", "others")>>

HelperSteps(m) ==
  IF m.override THEN <<Do("remove", "override"), Do("chown", "helper"), Do("chmod", "helper")>> ELSE <<>>
ConfStep(m) == <<Do(IF m.original.exists THEN "restore" ELSE "unlink", "conf")>>
DirSteps(m) == <<Do("rmdir", "state")>> \o DoIf(m.nm /\ "farrow" \in m.created, "rmdir", "farrow")
               \o DoIf("qemu" \in m.created, "rmdir", "qemu")

RemovingSteps(m) ==
  IF m.nm
  THEN <<Do("delete", "connection")>> \o HelperSteps(m)
       \o (IF m.original.exists THEN ConfStep(m) \o <<Do("unlink", "public")>>
                                ELSE <<Do("unlink", "public")>> \o ConfStep(m))
       \o <<Do("unlink", "manifest")>> \o DirSteps(m)
  ELSE <<Do("delete", "bridge"), Do("unlink", "netdev"), Do("unlink", "network"), Do("reload", "service")>>
       \o HelperSteps(m) \o ConfStep(m) \o UnitSteps(m)
       \o <<Do("unlink", "manifest")>> \o DirSteps(m)

\* NewUninstallPlan and the checks it repeats before the first command.  The
\* members of a bridge that is not there cannot be listed.
UninstallAccepted(h) ==
  /\ h.manifest.is = "manifest"
  /\ h.link /\ ~h.attached
  /\ OwnFiles(h.manifest.nm) \subseteq h.files
  /\ h.conf = h.manifest.conf
  /\ h.manifest.override => h.helper = [override |-> "ours", mode |-> "scoped"]

\* --- the commands ---------------------------------------------------------
BridgeUp(h) == ~h.nm /\ h.service.active /\ {"netdev", "network"} \subseteq h.files
CanAttach(h) == h.link /\ h.conf.block = "ours" /\ (h.family = "rpm" \/ h.helper.mode = "scoped")

Both(h, field, value) == [h EXCEPT !.service[field] = value, !.others[field] = value]
Present(h) == OwnPaths(h) \cup {p \in {"manifest", "conf"} :
                                  IF p = "conf" THEN h.conf.exists ELSE h.manifest.is # "none"}
Holds(dir) == CASE dir = "qemu" -> {"conf"} [] dir = "farrow" -> {"public"} [] dir = "state" -> {"manifest"}

\* Whether a command can succeed on this host at all.
Possible(h, s) ==
  CASE s.do = "await" -> h.link
    [] s.do = "reload" -> h.service.active
    [] s.do = "smoke" -> CanAttach(h)
    [] s.do = "up" -> h.connection
    [] s.do = "delete" -> IF s.on = "bridge" THEN h.link /\ h.service.active ELSE h.connection
    [] s.do = "unlink" -> s.on \in Present(h)
    [] s.do = "remove" -> h.helper.override # "none"
    [] s.do = "rmdir" -> Holds(s.on) \cap Present(h) = {}
    [] OTHER -> TRUE

Written(h, path, m) ==
  CASE path = "manifest" -> [h EXCEPT !.manifest = m]
    [] path = "conf" -> [h EXCEPT !.conf = m.conf]
    [] OTHER -> [h EXCEPT !.files = @ \cup {path}, !.torn = @ \ {path}]
Unlinked(h, path) ==
  CASE path = "manifest" -> [h EXCEPT !.manifest = NoManifest]
    [] path = "conf" -> [h EXCEPT !.conf = NoConf]
    [] OTHER -> [h EXCEPT !.files = @ \ {path}, !.torn = @ \ {path}]
Torn(h, path) ==
  CASE path = "manifest" -> [h EXCEPT !.manifest = TornManifest]
    [] path = "conf" -> [h EXCEPT !.conf = [exists |-> TRUE, text |-> "", block |-> "torn"]]
    [] OTHER -> [h EXCEPT !.files = @ \ {path}, !.torn = @ \cup {path}]
Cut(h, s) == IF s.do = "restore" THEN [h EXCEPT !.conf.text = "", !.conf.block = "none"] ELSE Torn(h, s.on)

\* The host after a command that succeeds; m is the manifest of the plan.
Done(h, s, m) ==
  CASE s.do = "mkdir" -> [h EXCEPT !.dirs = @ \cup {s.on}]
    [] s.do = "rmdir" -> [h EXCEPT !.dirs = @ \ {s.on}]
    [] s.do = "write" -> Written(h, s.on, m)
    [] s.do = "unlink" -> Unlinked(h, s.on)
    [] s.do = "restore" -> [h EXCEPT !.conf = m.original]
    [] s.do = "add" -> [h EXCEPT !.connection = TRUE]
    [] s.do = "up" -> [h EXCEPT !.link = TRUE]
    [] s.do = "delete" -> [h EXCEPT !.link = FALSE, !.attached = FALSE,
                                    !.connection = IF s.on = "connection" THEN FALSE ELSE @]
    [] s.do = "reload" -> [h EXCEPT !.link = @ \/ BridgeUp(h)]
    [] s.do = "override" -> [h EXCEPT !.helper = [override |-> "ours", mode |-> "scoped"]]
    [] s.do = "remove" -> [h EXCEPT !.helper.override = "none"]
    [] s.do = "chown" -> [h EXCEPT !.helper.mode = "half"]
    [] s.do = "chmod" -> [h EXCEPT !.helper.mode = m.helper]
    [] s.do \in {"enable", "disable"} ->
         IF s.on = "service" THEN Both(h, "enabled", s.do = "enable")
                             ELSE [h EXCEPT !.others.enabled = (s.do = "enable")]
    [] s.do = "start" ->
         LET started == IF s.on = "service" THEN Both(h, "active", TRUE) ELSE [h EXCEPT !.others.active = TRUE]
         IN [started EXCEPT !.link = @ \/ BridgeUp(started)]
    [] s.do = "stop" -> [h EXCEPT ![s.on].active = FALSE]
    [] OTHER -> h

\* What uninstall has to give back.
Prestate(h) == [conf |-> h.conf, helper |-> h.helper, service |-> h.service, others |-> h.others,
                dirs |-> h.dirs \ {"state"}, link |-> h.link, connection |-> h.connection, own |-> OwnPaths(h)]

Init ==
  /\ host \in Hosts
  /\ job = NoJob
  /\ before = Prestate(host)
  /\ report = "none"

Install ==
  /\ Idle /\ InstallAccepted(host)
  /\ job' = [kind |-> "install", manifest |-> Manifest(host),
             steps |-> PlacingSteps(host) \o ActivatingSteps(host)]
  /\ before' = IF Installed THEN before ELSE Prestate(host)
  /\ report' = "none"
  /\ UNCHANGED host

Uninstall ==
  /\ Idle /\ UninstallAccepted(host)
  /\ job' = [kind |-> "uninstall", manifest |-> host.manifest, steps |-> RemovingSteps(host.manifest)]
  /\ report' = "none"
  /\ UNCHANGED <<host, before>>

Step ==
  /\ ~Idle /\ job.steps # <<>>
  /\ Possible(host, Head(job.steps))
  /\ host' = Done(host, Head(job.steps), job.manifest)
  /\ job' = [job EXCEPT !.steps = Tail(@)]
  /\ UNCHANGED <<before, report>>

Finish ==
  /\ ~Idle /\ job.steps = <<>>
  /\ report' = CASE job.kind = "install" -> "installed" [] job.kind = "uninstall" -> "removed"
                 [] job.kind = "rollback" -> "rolledback"
  /\ job' = NoJob
  /\ UNCHANGED <<host, before>>

\* A command fails: uninstall and the placing part of install stop where they
\* are, later failures of an install are rolled back by an uninstall.
Rollback ==
  /\ UninstallAccepted(host)
  /\ job' = [kind |-> "rollback", manifest |-> host.manifest, steps |-> RemovingSteps(host.manifest)]
  /\ UNCHANGED <<host, before, report>>

Fail ==
  /\ ~Idle /\ job.steps # <<>>
  /\ IF job.kind = "install" /\ Head(job.steps).do \notin {"mkdir", "write"} /\ UninstallAccepted(host)
     THEN Rollback
     ELSE job' = NoJob /\ report' = "failed" /\ UNCHANGED <<host, before>>

\* farrow is killed between two commands, or the machine goes down; what was
\* being written is cut short.
Killed(h) == \/ host' = h
             \/ /\ job.steps # <<>> /\ Head(job.steps).do \in {"write", "restore"}
                /\ host' = Cut(h, Head(job.steps))

Kill ==
  /\ ~Idle
  /\ Killed(host)
  /\ job' = NoJob /\ report' = "none"
  /\ UNCHANGED before

Rebooted(h) ==
  LET up == [h EXCEPT !.service.active = h.service.enabled, !.others.active = h.others.enabled, !.attached = FALSE]
  IN [up EXCEPT !.link = (h.nm /\ h.connection) \/ BridgeUp(up)]

Reboot ==
  /\ ~Idle \/ Installed
  /\ IF Idle THEN host' = Rebooted(host) ELSE Killed(Rebooted(host))
  /\ job' = NoJob /\ report' = "none"
  /\ UNCHANGED before

\* --- the rest of the host -------------------------------------------------
Attach ==
  /\ CanAttach(host) /\ Idle /\ host.attached = FALSE
  /\ host' = [host EXCEPT !.attached = TRUE]
  /\ UNCHANGED <<job, before, report>>

Detach ==
  /\ host.attached
  /\ host' = [host EXCEPT !.attached = FALSE]
  /\ UNCHANGED <<job, before, report>>

\* The administrator edits bridge.conf, keeping the managed block.
EditConf ==
  /\ Idle /\ host.conf.exists /\ host.conf.block # "torn" /\ host.conf.text = "a"
  /\ host' = [host EXCEPT !.conf.text = "b"]
  /\ UNCHANGED <<job, before, report>>

\* Other software adds or removes its networkd configuration.
EditConfigs ==
  /\ Idle /\ ~host.nm
  /\ \E configs \in SUBSET Configs : host' = [host EXCEPT !.configs = configs]
  /\ UNCHANGED <<job, before, report>>

\* The administrator removes a state directory that install left empty.
CleanState ==
  /\ Idle /\ host.manifest.is = "none" /\ "state" \in host.dirs
  /\ host' = [host EXCEPT !.dirs = @ \ {"state"}]
  /\ UNCHANGED <<job, before, report>>

\* The steps of a command once it runs, and what happens around it; who starts
\* the commands is said in HostNetwork.
Progress == Step \/ Finish \/ Fail \/ Kill \/ Reboot
Surroundings == Attach \/ Detach \/ EditConf \/ EditConfigs \/ CleanState
=============================================================================
