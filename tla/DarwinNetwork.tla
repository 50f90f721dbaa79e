---------------------------- MODULE DarwinNetwork ---------------------------
(***************************************************************************)
(* The fixed-IP network of a Mac (internal/network/darwin): socket_vmnet   *)
(* as a launchd service below /opt/farrow, its plist and recorded state,   *)
(* and the name of the interface that vmnet created for it, in a protected *)
(* file and a public twin.  Install with its scoped rollback, uninstall    *)
(* and repair are sequences of privileged commands that can fail or be     *)
(* cut short; launchd restarts the daemon, under any free name, and starts *)
(* it at boot.                                                             *)
(*                                                                         *)
(* Binaries, plist and state are either the exact pinned bytes or torn;    *)
(* one mode, subnet and interface UUID are asked for.                      *)
(***************************************************************************)
EXTENDS Integers, Sequences, FiniteSets

CONSTANTS
  BSDNames,   \* names macOS gives to vmnet interfaces
  NoName

VARIABLES
  mac,        \* what farrow can see of the Mac
  task,       \* the privileged commands the running command has left
  outcome     \* what the last finished command reported
macvars == <<mac, task, outcome>>

NoTask == [kind |-> "none", steps |-> <<>>, created |-> <<>>, seen |-> {}, booted |-> FALSE, clean |-> TRUE, name |-> NoName,
           stale |-> FALSE]
Resting == task.kind = "none"

\* An installation shares /opt/farrow with the hosts helper.
FreshMac(helper) ==
  [files |-> {}, torn |-> {}, protected |-> NoName, public |-> NoName,
   dirs |-> IF helper THEN {"root", "libexec"} ELSE {}, helper |-> helper,
   logmode |-> TRUE, loaded |-> FALSE, bridge |-> NoName, socket |-> FALSE, users |-> FALSE]

Accepting(m) == m.bridge # NoName /\ m.socket
Runnable(m) == m.loaded /\ {"daemon", "plist"} \subseteq m.files

\* --- what is installed ----------------------------------------------------
RequiredPresent(m) ==
  ((m.files \cup m.torn) \cap {"daemon", "client", "plist"})
  \cup (m.dirs \cap {"state", "marker"})
  \cup (IF m.public # NoName THEN {"public"} ELSE {})
NoneInstalled(m) == RequiredPresent(m) = {}
AllRequired(m) == Cardinality(RequiredPresent(m)) = 6

\* readInstalled: the pinned bytes, and both copies of the interface marker equal.
ReadInstalled(m) ==
  /\ AllRequired(m) /\ m.torn = {}
  /\ {"daemon", "client", "plist", "state"} \subseteq m.files
  /\ m.protected = m.public

\* recoverInstalledForUninstall: the same without network.json.
Recoverable(m) ==
  /\ AllRequired(m) /\ m.torn \subseteq {"state"}
  /\ {"daemon", "client", "plist"} \subseteq m.files
  /\ m.protected = m.public

SharedRootAccepted(m) == "root" \notin m.dirs \/ ("libexec" \in m.dirs /\ m.helper)

FreshAccepted(m) ==
  /\ NoneInstalled(m)
  /\ SharedRootAccepted(m)
  /\ m.dirs \cap {"state", "marker", "log"} = {} /\ ~m.socket

\* --- plans ----------------------------------------------------------------
Cmd(what, on) == [do |-> what, on |-> on]
Each(what, names) == [i \in DOMAIN names |-> Cmd(what, names[i])]

InstallSteps ==
  Each("mkdir", <<"root", "libexec", "state", "marker", "log">>)
  \o Each("write", <<"daemon", "client", "plist", "state">>)
  \o <<Cmd("snapshot", "interfaces"), Cmd("bootstrap", "service"), Cmd("kickstart", "service"),
       Cmd("await", "socket"), Cmd("identify", "interface"), Cmd("write", "protected"), Cmd("write", "public"),
       Cmd("verify", "all")>>

Reverse(s) == [i \in DOMAIN s |-> s[Len(s) + 1 - i]]

RollbackSteps(t) ==
  (IF t.booted THEN <<Cmd("bootout", "service")>> ELSE <<>>)
  \o Each("rm", <<"socket", "daemon", "client", "plist", "state", "protected", "public", "logs">>)
  \o Each("rmdir", Reverse(t.created))

UninstallSteps(m) ==
  <<Cmd("bootout", "service")>>
  \o Each("rm", <<"socket", "daemon", "client", "plist", "state", "protected", "public", "logs">>)
  \o Each("rmdir", (IF m.helper THEN <<>> ELSE <<"libexec", "root">>) \o <<"state", "marker", "log">>)

\* PlanUninstall: nothing but our own entries, and nobody using the socket.
UninstallPlanned(m) ==
  /\ ReadInstalled(m) \/ Recoverable(m)
  /\ ~m.users
  /\ {"root", "libexec", "log"} \subseteq m.dirs
  /\ "logs" \in m.files

RestartSteps(m) ==
  (IF m.loaded THEN <<>> ELSE <<Cmd("bootstrap", "service")>>)
  \o <<Cmd("kickstart", "service"), Cmd("await", "socket"), Cmd("identify", "interface"),
       Cmd("write", "protected"), Cmd("write", "public"), Cmd("verify", "all")>>

\* --- the commands ---------------------------------------------------------
Contents(m, dir) ==
  CASE dir = "root" -> m.dirs \cap {"libexec"}
    [] dir = "libexec" -> ((m.files \cup m.torn) \cap {"daemon", "client"}) \cup (IF m.helper THEN {"helper"} ELSE {})
    [] dir = "state" -> ((m.files \cup m.torn) \cap {"state"}) \cup ({m.protected} \ {NoName})
    [] dir = "marker" -> {m.public} \ {NoName}
    [] dir = "log" -> m.files \cap {"logs"}

CanRun(m, s) ==
  CASE s.do = "write" ->
         CASE s.on \in {"daemon", "client"} -> "libexec" \in m.dirs
           [] s.on \in {"state", "protected"} -> "state" \in m.dirs
           [] s.on = "public" -> "marker" \in m.dirs
           [] OTHER -> TRUE
    [] s.do = "bootstrap" -> ~m.loaded
    [] s.do \in {"kickstart", "bootout"} -> m.loaded
    [] s.do = "await" -> Accepting(m)
    [] s.do = "verify" -> ReadInstalled(m)
    [] s.do = "choose" -> FALSE
    [] s.do = "rmdir" -> s.on \in m.dirs /\ Contents(m, s.on) = {}
    [] OTHER -> TRUE

\* The daemon comes up under a name, or stays down when the subnet is taken.
Started(m, name) == [m EXCEPT !.bridge = name, !.socket = @ \/ name # NoName, !.users = FALSE,
                              !.files = @ \cup {"logs"}, !.dirs = @ \cup {"log"},
                              !.logmode = @ /\ "log" \in m.dirs]

RanFile(m, s, name) ==
  IF s.do = "write"
  THEN CASE s.on = "protected" -> [m EXCEPT !.protected = name]
         [] s.on = "public" -> [m EXCEPT !.public = name]
         [] OTHER -> [m EXCEPT !.files = @ \cup {s.on}, !.torn = @ \ {s.on}]
  ELSE CASE s.on = "protected" -> [m EXCEPT !.protected = NoName]
         [] s.on = "public" -> [m EXCEPT !.public = NoName]
         [] s.on = "socket" -> [m EXCEPT !.socket = FALSE]
         [] OTHER -> [m EXCEPT !.files = @ \ {s.on}, !.torn = @ \ {s.on}]

\* The Mac after a command that succeeds.
Ran(m, s, name) ==
  CASE s.do \in {"write", "rm"} -> {RanFile(m, s, name)}
    [] s.do = "mkdir" -> {[m EXCEPT !.dirs = @ \cup {s.on}, !.logmode = @ \/ s.on = "log"]}
    [] s.do = "rmdir" -> {[m EXCEPT !.dirs = @ \ {s.on}]}
    [] s.do = "chmod" -> {[m EXCEPT !.logmode = TRUE]}
    [] s.do = "bootstrap" -> {Started([m EXCEPT !.loaded = TRUE], n) : n \in BSDNames \cup {NoName}}
    [] s.do = "kickstart" -> {Started(m, n) : n \in BSDNames \cup {NoName}}
    [] s.do = "bootout" -> {[m EXCEPT !.loaded = FALSE, !.bridge = NoName, !.users = FALSE]}
    [] OTHER -> {m}

\* What the command remembers of it: the directories it created, the
\* interfaces of before, that the service was loaded, the new interface.
Noted(t, m, s) ==
  LET rest == [t EXCEPT !.steps = Tail(@)]
  IN CASE s.do = "mkdir" /\ s.on \notin m.dirs -> [rest EXCEPT !.created = Append(@, s.on)]
       [] s.do = "snapshot" -> [rest EXCEPT !.seen = {m.bridge} \ {NoName}]
       [] s.do = "bootstrap" -> [rest EXCEPT !.booted = TRUE]
       [] s.do = "identify" -> [rest EXCEPT !.name = m.bridge]
       [] OTHER -> rest

\* Nothing is left of an installation.
Clean(m) ==
  /\ m.files = {} /\ m.torn = {} /\ ~m.socket /\ ~m.loaded /\ m.protected = NoName /\ m.public = NoName
  /\ m.dirs = IF m.helper THEN {"root", "libexec"} ELSE {}

Init ==
  /\ mac \in {FreshMac(helper) : helper \in BOOLEAN}
  /\ task = NoTask
  /\ outcome = "none"

Install ==
  /\ Resting /\ FreshAccepted(mac)
  /\ task' = [NoTask EXCEPT !.kind = "install", !.steps = InstallSteps, !.stale = mac.loaded]
  /\ outcome' = "none" /\ UNCHANGED mac

Uninstall ==
  /\ Resting /\ UninstallPlanned(mac)
  /\ task' = [NoTask EXCEPT !.kind = "uninstall", !.steps = UninstallSteps(mac)]
  /\ outcome' = "none" /\ UNCHANGED mac

\* A repair begins with the preflight that asks for it and says whether to
\* restart the service.  What readInstalled reads and the log directory are not
\* changed by others until the repair gets to them.
Repair(restart) ==
  /\ Resting /\ ReadInstalled(mac)
  /\ LET log == IF "log" \notin mac.dirs THEN <<Cmd("mkdir", "log")>>
                ELSE IF mac.logmode THEN <<>> ELSE <<Cmd("chmod", "log")>>
     IN task' = [NoTask EXCEPT !.kind = "repair",
                               !.steps = log \o <<Cmd("choose", IF restart THEN "restart" ELSE "reuse")>>]
  /\ outcome' = "none" /\ UNCHANGED mac

\* After the log directory it looks at the interfaces and the socket, and
\* restarts a service that is not up under its recorded name then.
Usable(m) == m.bridge = m.public /\ Accepting(m)
Choose ==
  /\ ~Resting /\ task.steps # <<>> /\ Head(task.steps).do = "choose"
  /\ task' = [task EXCEPT !.seen = {mac.bridge} \ {NoName, mac.public},
                          !.steps = IF Head(task.steps).on = "reuse" /\ Usable(mac) THEN <<>>
                                    ELSE RestartSteps(mac)]
  /\ UNCHANGED <<mac, outcome>>

Step ==
  /\ ~Resting /\ task.steps # <<>>
  /\ LET s == Head(task.steps)
     IN /\ CanRun(mac, s)
        /\ s.do = "identify" => mac.bridge \in BSDNames \ task.seen
        /\ mac' \in Ran(mac, s, task.name)
        /\ task' = Noted(task, mac, s)
  /\ UNCHANGED outcome

Finish ==
  /\ ~Resting /\ task.steps = <<>>
  /\ outcome' = CASE task.kind = "install" -> "installed" [] task.kind = "uninstall" -> "removed"
                  [] task.kind = "repair" -> "repaired"
                  [] task.kind = "rollback" -> IF task.clean THEN "rolledback" ELSE "failed"
  /\ task' = NoTask
  /\ UNCHANGED mac

\* A failing install is rolled back; the rollback itself goes on past failures.
Fail ==
  /\ ~Resting /\ task.steps # <<>>
  /\ CASE task.kind = "install" ->
            task' = [task EXCEPT !.kind = "rollback", !.steps = RollbackSteps(task)] /\ UNCHANGED outcome
       [] task.kind = "rollback" ->
            task' = [task EXCEPT !.steps = Tail(@), !.clean = FALSE] /\ UNCHANGED outcome
       [] OTHER -> task' = NoTask /\ outcome' = "failed"
  /\ UNCHANGED mac

TornFile(m, path) ==
  IF path \in {"protected", "public"} THEN m
  ELSE [m EXCEPT !.files = @ \ {path}, !.torn = @ \cup {path}]

\* farrow is killed between two commands or while a file is written.
Kill ==
  /\ ~Resting
  /\ \/ UNCHANGED mac
     \/ /\ task.steps # <<>> /\ Head(task.steps).do = "write"
        /\ CanRun(mac, Head(task.steps))
        /\ mac' = TornFile(mac, Head(task.steps).on)
  /\ task' = NoTask /\ outcome' = "none"

\* The machine restarts; launchd loads the plist it finds and starts the daemon.
Reboot ==
  /\ LET off == [mac EXCEPT !.loaded = "plist" \in mac.files, !.bridge = NoName, !.socket = FALSE, !.users = FALSE]
     IN IF Runnable(off) THEN mac' \in {Started(off, n) : n \in BSDNames \cup {NoName}} ELSE mac' = off
  /\ task' = NoTask /\ outcome' = "none"

\* launchd restarts a daemon that died or could not get the subnet.
Respawn ==
  /\ Runnable(mac)
  /\ mac' \in {Started(mac, n) : n \in BSDNames \cup {NoName}}
  /\ UNCHANGED <<task, outcome>>

\* A VM is attached to the socket, or shut down.
Use ==
  /\ Resting \/ task.kind = "repair"
  /\ mac.users \/ Accepting(mac)
  /\ mac' = [mac EXCEPT !.users = ~@]
  /\ UNCHANGED <<task, outcome>>

\* `farrow hosts` installs its helper below /opt/farrow/libexec.
InstallHelper ==
  /\ ~mac.helper
  /\ mac' = [mac EXCEPT !.helper = TRUE, !.dirs = @ \cup {"root", "libexec"}]
  /\ UNCHANGED <<task, outcome>>

\* Somebody clears /var/log; launchd makes the directory again, with mode 0744.
ClearLogs ==
  /\ Resting /\ "log" \in mac.dirs
  /\ mac' = [mac EXCEPT !.dirs = @ \ {"log"}, !.files = @ \ {"logs"}]
  /\ UNCHANGED <<task, outcome>>

\* The steps of a command once it runs, and what happens around it; who starts
\* the commands is said in HostNetwork.
Progress == Step \/ Choose \/ Finish \/ Fail \/ Kill
Surroundings == Reboot \/ Respawn \/ Use \/ InstallHelper \/ ClearLogs
=============================================================================
