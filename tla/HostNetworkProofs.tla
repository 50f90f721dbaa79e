------------------------- MODULE HostNetworkProofs --------------------------
(***************************************************************************)
(* The private network of a host, for any hosts, interface names, routes   *)
(* and configurations of other software.  A command of farrow is a list of *)
(* privileged steps that shrinks from the front and is cut short anywhere, *)
(* so the invariant never says at which step a command is.  It says, for   *)
(* each thing the command is to bring about, that it is there or that a    *)
(* step which brings it about is still to come (`Secured`), and of which   *)
(* steps the list has one only after another (`Ordered`); both survive the *)
(* removal of the first step.                                              *)
(***************************************************************************)
EXTENDS HostNetwork, SequenceTheorems, FiniteSetTheorems, TLAPS

-----------------------------------------------------------------------------
(* Lists of steps.                                                         *)

Steps(s) == {s[i] : i \in DOMAIN s}

\* No step of A comes after one of B.
Ordered(s, A, B) == \A i, k \in DOMAIN s : s[i] \in B /\ s[k] \in A => k < i

\* A step of `by` is still to come, or the goal is reached and no step that
\* would undo it is left.
Secured(s, by, undo, goal) == Steps(s) \cap by # {} \/ (goal /\ Steps(s) \cap undo = {})

-----------------------------------------------------------------------------
(* The invariant of the Linux host.                                        *)

\* Shorthands for the steps of a plan.
Own == {"public", "netdev", "network"}
Toggle(on) == IF on THEN "enable" ELSE "disable"
Untoggle(on) == IF on THEN "disable" ELSE "enable"
Switch(on) == IF on THEN "start" ELSE "stop"
Unswitch(on) == IF on THEN "stop" ELSE "start"

InstallSteps(nm) ==
  {L!Do("mkdir", "qemu"), L!Do("mkdir", "state"), L!Do("write", "manifest"), L!Do("write", "conf"),
   L!Do("await", "bridge"), L!Do("override", "helper"), L!Do("smoke", "helper")}
  \cup IF nm
       THEN {L!Do("mkdir", "farrow"), L!Do("write", "public"), L!Do("add", "connection"), L!Do("up", "connection")}
       ELSE {L!Do("write", "netdev"), L!Do("write", "network"), L!Do("start", "service"),
             L!Do("reload", "service"), L!Do("enable", "service")}

RemovalSteps(nm) ==
  {L!Do("remove", "override"), L!Do("chown", "helper"), L!Do("chmod", "helper"), L!Do("restore", "conf"),
   L!Do("unlink", "conf"), L!Do("unlink", "manifest"), L!Do("rmdir", "state"), L!Do("rmdir", "qemu")}
  \cup IF nm
       THEN {L!Do("delete", "connection"), L!Do("unlink", "public"), L!Do("rmdir", "farrow")}
       ELSE {L!Do("delete", "bridge"), L!Do("unlink", "netdev"), L!Do("unlink", "network"), L!Do("reload", "service"),
             L!Do("enable", "service"), L!Do("disable", "service"), L!Do("start", "service"), L!Do("stop", "service"),
             L!Do("enable", "others"), L!Do("disable", "others"), L!Do("start", "others"), L!Do("stop", "others")}

Prestates ==
  [conf : L!Conf, helper : L!Helper, service : L!Unit, others : L!Unit, dirs : SUBSET L!Dirs,
   link : {FALSE}, connection : {FALSE}, own : {{}}]

LinuxTyped ==
  /\ host \in L!HostStates
  /\ before \in Prestates /\ "state" \notin before.dirs /\ before.helper.override = "none"
  /\ ~before.conf.exists => before.conf = L!NoConf
  /\ \/ job = L!NoJob
     \/ /\ job \in [kind : {"install"}, manifest : L!Manifests, steps : Seq(InstallSteps(host.nm))]
     \/ /\ job \in [kind : {"uninstall", "rollback"}, manifest : L!Manifests, steps : Seq(RemovalSteps(host.nm))]

\* What can be on this host at all.
Shaped ==
  /\ L!OwnPaths(host) \subseteq L!OwnFiles(host.nm)
  /\ ~host.nm => ~host.connection
  /\ ~host.conf.exists => host.conf = L!NoConf
  /\ host.helper.override \in {"none", "ours"}
  /\ host.helper.override = "ours" => host.helper.mode = "scoped"
  /\ host.nm => host.service.active = host.service.enabled /\ host.others.active = host.others.enabled

\* Without a manifest nothing that needs one is there.
Owned == host.manifest.is = "none" => L!OwnPaths(host) = {} /\ host.helper.override = "none"

\* The record m tells the host before farrow from what farrow made of it.
Faithful(m) ==
  /\ m.nm = host.nm
  /\ m.conf.exists /\ m.conf.block = "ours"
  /\ m.original = before.conf
  /\ m.helper = before.helper.mode
  /\ m.created = {"qemu", "farrow"} \ before.dirs
  /\ m.service = before.service /\ m.others = before.others
  /\ ~m.override => host.helper = before.helper /\ (host.family = "debian" => before.helper.mode = "scoped")
  /\ before.dirs \subseteq host.dirs
  /\ host.dirs \subseteq before.dirs \cup {"state", "qemu"} \cup IF host.nm THEN {"farrow"} ELSE {}
  /\ host.nm => host.service = before.service /\ host.others = before.others

Recorded ==
  /\ host.manifest.is = "manifest" => Faithful(host.manifest) /\ "state" \in host.dirs
  /\ job # L!NoJob => Faithful(job.manifest) /\ report = "none"
  /\ job # L!NoJob /\ host.manifest.is = "manifest" => host.manifest.override = job.manifest.override

\* An install: what it places and starts, for the checks of later commands.
HelperSettled == before.helper.mode # "scoped" => HelperVerified
Installing ==
  LET s == job.steps
  IN job.kind = "install" =>
       /\ Ordered(s, {L!Do("mkdir", "state")}, {L!Do("write", "manifest")})
       /\ Ordered(s, {L!Do("write", "manifest")},
                  {L!Do("write", p) : p \in Own} \cup {L!Do("override", "helper")})
       /\ Secured(s, {L!Do("write", "manifest")}, {}, host.manifest.is = "manifest")
       /\ L!Do("override", "helper") \in Steps(s) => job.manifest.override /\ host.family = "debian"
       /\ Secured(s, {L!Do("mkdir", "state")}, {}, "state" \in host.dirs)
       /\ Secured(s, {L!Do("write", "conf")}, {}, host.conf.exists /\ host.conf.block = "ours")
       /\ \A p \in L!OwnFiles(host.nm) : Secured(s, {L!Do("write", p)}, {}, p \in host.files)
       /\ Secured(s, {L!Do("await", "bridge")}, {}, host.link)
       /\ ~host.nm => Secured(s, {L!Do("start", "service")}, {}, host.service.active)
       /\ Secured(s, {L!Do("override", "helper")}, {}, HelperSettled)

\* A removal: the order of what it gives back, and that it gives it back.
RemovalOrdered(s) ==
  /\ Ordered(s, {L!Do("remove", "override")}, {L!Do("chown", "helper"), L!Do("chmod", "helper")})
  /\ Ordered(s, {L!Do("chown", "helper")}, {L!Do("chmod", "helper")})
  /\ Ordered(s, {L!Do("unlink", "netdev")},
             {L!Do("reload", "service"), L!Do("start", "service"), L!Do("start", "others")})
  /\ Ordered(s, {L!Do("unlink", p) : p \in Own} \cup {L!Do("remove", "override")}, {L!Do("unlink", "manifest")})

UnitsOrdered(s, m) ==
  /\ Ordered(s, {L!Do(Untoggle(m.service.enabled), "service")}, {L!Do(Toggle(m.service.enabled), "service")})
  /\ Ordered(s, {L!Do(Untoggle(m.others.enabled), "others"), L!Do("enable", "service"), L!Do("disable", "service")},
             {L!Do(Toggle(m.others.enabled), "others")})
  /\ Ordered(s, {L!Do(Unswitch(m.service.active), "service")}, {L!Do(Switch(m.service.active), "service")})
  /\ Ordered(s, {L!Do(Unswitch(m.others.active), "others"), L!Do("start", "service")},
             {L!Do(Switch(m.others.active), "others")})

UnitsRestored(s, m) ==
  /\ Secured(s, {L!Do(Toggle(m.service.enabled), "service")}, {L!Do(Untoggle(m.service.enabled), "service")},
             host.service.enabled = m.service.enabled)
  /\ Secured(s, {L!Do(Toggle(m.others.enabled), "others")},
             {L!Do(Untoggle(m.others.enabled), "others"), L!Do("enable", "service"), L!Do("disable", "service")},
             host.others.enabled = m.others.enabled)
  /\ Secured(s, {L!Do(Switch(m.service.active), "service")}, {L!Do(Unswitch(m.service.active), "service")},
             host.service.active = m.service.active)
  /\ Secured(s, {L!Do(Switch(m.others.active), "others")},
             {L!Do(Unswitch(m.others.active), "others"), L!Do("start", "service")},
             host.others.active = m.others.active)

Removing ==
  LET s == job.steps
      m == job.manifest
  IN job.kind \in {"uninstall", "rollback"} =>
       /\ RemovalOrdered(s)
       /\ L!Do("unlink", "conf") \in Steps(s) => m.original = L!NoConf
       /\ \A d \in before.dirs : L!Do("rmdir", d) \notin Steps(s)
       /\ Steps(s) \cap {L!Do("remove", "override"), L!Do("chown", "helper"), L!Do("chmod", "helper")} # {}
            => m.override
       /\ Secured(s, {L!Do("restore", "conf"), L!Do("unlink", "conf")}, {}, host.conf = m.original)
       /\ Secured(s, {L!Do("remove", "override")}, {}, host.helper.override = "none")
       /\ Secured(s, {L!Do("chmod", "helper")}, {L!Do("chown", "helper")}, host.helper.mode = m.helper)
       /\ \A d \in m.created : Secured(s, {L!Do("rmdir", d)}, {}, d \notin host.dirs)
       /\ \A p \in Own : Secured(s, {L!Do("unlink", p)}, {}, p \notin L!OwnPaths(host))
       /\ Secured(s, {L!Do("delete", "bridge"), L!Do("delete", "connection")}, {}, ~host.link)
       /\ Secured(s, {L!Do("delete", "connection")}, {}, ~host.connection)
       /\ ~host.nm => UnitsOrdered(s, m) /\ UnitsRestored(s, m)

\* What stands as long as an installation counts as installed.
Standing ==
  L!Idle /\ report = "installed" =>
    /\ host.manifest.is = "manifest" /\ L!OwnFiles(host.nm) \subseteq host.files
    /\ host.conf.exists /\ host.conf.block = "ours" /\ "state" \in host.dirs
    /\ host.link /\ (~host.nm => host.service.active)
    /\ HelperSettled

LinuxInv == LinuxTyped /\ Shaped /\ Owned /\ Recorded /\ Installing /\ Removing /\ Standing

-----------------------------------------------------------------------------
(* The invariant of the Mac.                                               *)

Names == BSDNames \cup {NoName}
Pinned == {"daemon", "client", "plist", "state"}
MacFiles == Pinned \cup {"logs"}
MacDirs == {"root", "libexec", "state", "marker", "log"}

MacWrites == {D!Cmd("write", p) : p \in Pinned \cup {"protected", "public"}}
Choices == {D!Cmd("choose", "restart"), D!Cmd("choose", "reuse")}
Placing ==
  MacWrites \cup {D!Cmd("mkdir", d) : d \in MacDirs}
  \cup {D!Cmd("snapshot", "interfaces"), D!Cmd("bootstrap", "service"), D!Cmd("kickstart", "service"),
        D!Cmd("await", "socket"), D!Cmd("identify", "interface"), D!Cmd("verify", "all"), D!Cmd("chmod", "log")}
  \cup Choices

Clearing ==
  {D!Cmd("rm", p) : p \in MacFiles \cup {"socket", "protected", "public"}}
  \cup {D!Cmd("rmdir", d) : d \in MacDirs} \cup {D!Cmd("bootout", "service")}

Macs ==
  [files : SUBSET MacFiles, torn : SUBSET MacFiles, protected : Names, public : Names, dirs : SUBSET MacDirs,
   helper : BOOLEAN, logmode : BOOLEAN, loaded : BOOLEAN, bridge : Names, socket : BOOLEAN, users : BOOLEAN]

Tasks ==
  [kind : {"none", "install", "repair", "uninstall", "rollback"}, steps : Seq(Placing \cup Clearing),
   created : Seq(MacDirs), seen : SUBSET BSDNames, booted : BOOLEAN, clean : BOOLEAN, name : Names,
   stale : BOOLEAN]

MacTyped ==
  /\ mac \in Macs /\ task \in Tasks
  /\ task.kind \in {"install", "repair"} => task.steps \in Seq(Placing)
  /\ task.kind \in {"uninstall", "rollback"} => task.steps \in Seq(Clearing)

\* The hosts helper keeps the directories it shares, and they are nested.
MacShaped ==
  /\ mac.helper => "libexec" \in mac.dirs
  /\ "libexec" \in mac.dirs => "root" \in mac.dirs

Shared(m, d) == m.helper /\ d \in {"root", "libexec"}

\* An install or repair ends with the check of what it wrote.
MacVerified ==
  task.kind \in {"install", "repair"} =>
    /\ Ordered(task.steps, MacWrites, {D!Cmd("verify", "all")})
    /\ Secured(task.steps, {D!Cmd("verify", "all")}, MacWrites, D!ReadInstalled(mac))
    /\ D!Cmd("mkdir", "libexec") \in Steps(task.steps) => task.kind = "install"

\* Until a repair has chosen whether to restart the service, only the log
\* directory is before it.
LogPlans(c) == {<<c>>, <<D!Cmd("mkdir", "log"), c>>, <<D!Cmd("chmod", "log"), c>>}
MacChoosing ==
  /\ task.kind \in {"install", "repair"}
  /\ Steps(task.steps) \cap Choices # {}
  => task.kind = "repair" /\ \E c \in Choices : task.steps \in LogPlans(c)

\* An install knows what its rollback has to take away.
MacInstalling ==
  task.kind = "install" =>
    /\ Ordered(task.steps, {D!Cmd("mkdir", "root")}, {D!Cmd("mkdir", "libexec")})
    /\ Secured(task.steps, {D!Cmd("mkdir", "root")}, {}, "root" \in mac.dirs)
    /\ Ordered(task.steps, {D!Cmd("mkdir", "log")}, {D!Cmd("bootstrap", "service")})
    /\ Secured(task.steps, {D!Cmd("mkdir", "log")}, {}, "log" \in mac.dirs)
    /\ ~task.stale => /\ mac.loaded => task.booted
                      /\ task.booted => "log" \in Steps(task.created)
                      /\ \A d \in mac.dirs : d \in Steps(task.created) \/ Shared(mac, d)

\* A removal has a step left for all that is still there; the service, which
\* makes its log and its socket again, goes first.
Leftovers(m, s) ==
  LET remake == {D!Cmd("rm", "logs"), D!Cmd("rm", "socket"), D!Cmd("rmdir", "log")}
  IN /\ Ordered(s, {D!Cmd("bootout", "service")}, remake)
     /\ D!Cmd("bootout", "service") \in Steps(s) => remake \subseteq Steps(s)
     /\ m.loaded => D!Cmd("bootout", "service") \in Steps(s)
     /\ \A f \in m.files \cup m.torn : D!Cmd("rm", f) \in Steps(s)
     /\ m.socket => D!Cmd("rm", "socket") \in Steps(s)
     /\ m.protected # NoName => D!Cmd("rm", "protected") \in Steps(s)
     /\ m.public # NoName => D!Cmd("rm", "public") \in Steps(s)
     /\ \A d \in m.dirs : D!Cmd("rmdir", d) \in Steps(s) \/ Shared(m, d)

MacRemoving ==
  /\ task.kind = "uninstall" \/ (task.kind = "rollback" /\ task.clean)
  /\ ~task.stale
  => Leftovers(mac, task.steps)

MacStanding ==
  /\ D!Resting /\ outcome \in {"installed", "repaired"} => D!ReadInstalled(mac)
  /\ ~D!Resting => outcome = "none"

MacInv == MacTyped /\ MacShaped /\ MacVerified /\ MacChoosing /\ MacInstalling /\ MacRemoving /\ MacStanding

-----------------------------------------------------------------------------
(* Lemmas on lists of steps.                                               *)

LEMMA TailSteps ==
    ASSUME NEW T, NEW s \in Seq(T), s # <<>>
    PROVE  /\ Steps(s) = {Head(s)} \cup Steps(Tail(s))
           /\ Head(s) \in T /\ Tail(s) \in Seq(T)
  <1>1. Len(s) \in Nat \ {0} /\ DOMAIN s = 1 .. Len(s) /\ Head(s) = s[1] /\ Head(s) \in T
    BY EmptySeq
  <1>2. /\ Tail(s) \in Seq(T) /\ Len(Tail(s)) = Len(s) - 1 /\ DOMAIN Tail(s) = 1 .. Len(s) - 1
        /\ \A i \in DOMAIN Tail(s) : Tail(s)[i] = s[i + 1]
    BY <1>1, HeadTailProperties
  <1>3. \A i \in DOMAIN s : i = 1 \/ (i - 1 \in DOMAIN Tail(s) /\ Tail(s)[i - 1] = s[i])
    BY <1>1, <1>2
  <1>4. \A i \in DOMAIN Tail(s) : i + 1 \in DOMAIN s /\ s[i + 1] = Tail(s)[i]
    BY <1>1, <1>2
  <1>5. ASSUME NEW x \in Steps(s) PROVE x \in {Head(s)} \cup Steps(Tail(s))
    BY <1>1, <1>3, <1>5 DEF Steps
  <1>6. ASSUME NEW x \in {Head(s)} \cup Steps(Tail(s)) PROVE x \in Steps(s)
    BY <1>1, <1>4, <1>6 DEF Steps
  <1> QED
    BY <1>1, <1>2, <1>5, <1>6

LEMMA TailOrdered ==
    ASSUME NEW T, NEW s \in Seq(T), s # <<>>, NEW A, NEW B, Ordered(s, A, B)
    PROVE  /\ Ordered(Tail(s), A, B)
           /\ Head(s) \in B => Steps(s) \cap A = {}
  <1>1. Len(s) \in Nat \ {0} /\ DOMAIN s = 1 .. Len(s) /\ Head(s) = s[1]
    BY EmptySeq
  <1>2. /\ Len(Tail(s)) = Len(s) - 1 /\ DOMAIN Tail(s) = 1 .. Len(s) - 1
        /\ \A i \in DOMAIN Tail(s) : Tail(s)[i] = s[i + 1]
    BY <1>1, HeadTailProperties
  <1>3. \A i \in DOMAIN Tail(s) : i \in Int /\ i + 1 \in DOMAIN s
    BY <1>1, <1>2
  <1>4. Ordered(Tail(s), A, B)
    BY <1>2, <1>3 DEF Ordered
  <1>5. ASSUME Head(s) \in B, NEW k \in DOMAIN s, s[k] \in A PROVE FALSE
    <2>1. k < 1
      BY <1>1, <1>5 DEF Ordered
    <2> QED
      BY <1>1, <2>1
  <1> QED
    BY <1>4, <1>5 DEF Steps

LEMMA CatSteps ==
    ASSUME NEW T, NEW s \in Seq(T), NEW t \in Seq(T)
    PROVE  s \o t \in Seq(T) /\ Steps(s \o t) = Steps(s) \cup Steps(t)
  <1>1. /\ s \o t \in Seq(T) /\ Len(s) \in Nat /\ Len(t) \in Nat /\ Len(s \o t) = Len(s) + Len(t)
        /\ DOMAIN s = 1 .. Len(s) /\ DOMAIN t = 1 .. Len(t) /\ DOMAIN (s \o t) = 1 .. Len(s) + Len(t)
        /\ \A i \in 1 .. Len(s) + Len(t) : (s \o t)[i] = IF i <= Len(s) THEN s[i] ELSE t[i - Len(s)]
    OBVIOUS
  <1>2. \A i \in DOMAIN s : i \in DOMAIN (s \o t) /\ (s \o t)[i] = s[i]
    BY <1>1
  <1>3. \A i \in DOMAIN t : i + Len(s) \in DOMAIN (s \o t) /\ (s \o t)[i + Len(s)] = t[i]
    BY <1>1
  <1>4. \A i \in DOMAIN (s \o t) : \/ i \in DOMAIN s /\ (s \o t)[i] = s[i]
                                   \/ i - Len(s) \in DOMAIN t /\ (s \o t)[i] = t[i - Len(s)]
    BY <1>1
  <1>5. ASSUME NEW x \in Steps(s \o t) PROVE x \in Steps(s) \cup Steps(t)
    BY <1>4, <1>5 DEF Steps
  <1>6. ASSUME NEW x \in Steps(s) \cup Steps(t) PROVE x \in Steps(s \o t)
    BY <1>2, <1>3, <1>6 DEF Steps
  <1> QED
    BY <1>1, <1>5, <1>6

LEMMA CatOrdered ==
    ASSUME NEW T, NEW s \in Seq(T), NEW t \in Seq(T), NEW A, NEW B,
           Ordered(s, A, B), Ordered(t, A, B), Steps(s) \cap B = {} \/ Steps(t) \cap A = {}
    PROVE  Ordered(s \o t, A, B)
  <1>1. /\ Len(s) \in Nat /\ Len(t) \in Nat
        /\ DOMAIN s = 1 .. Len(s) /\ DOMAIN t = 1 .. Len(t) /\ DOMAIN (s \o t) = 1 .. Len(s) + Len(t)
        /\ \A i \in 1 .. Len(s) + Len(t) : (s \o t)[i] = IF i <= Len(s) THEN s[i] ELSE t[i - Len(s)]
    OBVIOUS
  <1> SUFFICES ASSUME NEW i \in DOMAIN (s \o t), NEW k \in DOMAIN (s \o t), (s \o t)[i] \in B, (s \o t)[k] \in A
               PROVE  k < i
    BY DEF Ordered
  <1>2. CASE i <= Len(s) /\ k <= Len(s)
    BY <1>1, <1>2 DEF Ordered
  <1>3. CASE i > Len(s) /\ k > Len(s)
    BY <1>1, <1>3 DEF Ordered
  <1>4. CASE i > Len(s) /\ k <= Len(s)
    BY <1>1, <1>4
  <1>5. CASE i <= Len(s) /\ k > Len(s)
    BY <1>1, <1>5 DEF Steps
  <1> QED
    BY <1>1, <1>2, <1>3, <1>4, <1>5

\* Short lists.
LEMMA ShortSteps ==
    ASSUME NEW T
    PROVE  /\ <<>> \in Seq(T) /\ Steps(<<>>) = {}
           /\ \A a \in T : <<a>> \in Seq(T) /\ Steps(<<a>>) = {a}
           /\ \A a \in T, b \in T : <<a, b>> \in Seq(T) /\ Steps(<<a, b>>) = {a, b}
           /\ \A a \in T, b \in T, c \in T : <<a, b, c>> \in Seq(T) /\ Steps(<<a, b, c>>) = {a, b, c}
  BY DEF Steps

LEMMA ShortOrdered ==
    ASSUME NEW A, NEW B
    PROVE  /\ Ordered(<<>>, A, B)
           /\ \A a : ~(a \in A /\ a \in B) => Ordered(<<a>>, A, B)
           /\ \A a, b : ~(a \in A /\ a \in B) /\ ~(b \in A /\ b \in B) /\ ~(a \in B /\ b \in A)
                => Ordered(<<a, b>>, A, B)
  BY DEF Ordered

-----------------------------------------------------------------------------
(* Changes of a host, field by field.                                      *)

Fields == {"family", "nm", "service", "others", "conf", "files", "torn", "dirs", "manifest", "helper",
           "link", "connection", "attached", "configs"}

\* e is h but for the fields F.
Differ(h, e, F) == e = [f \in Fields |-> e[f]] /\ \A f \in Fields \ F : e[f] = h[f]

LEMMA HostFields ==
    ASSUME NEW h \in L!HostStates
    PROVE  /\ DOMAIN h = Fields
           /\ h.family \in {"debian", "rpm"} /\ h.nm \in BOOLEAN
           /\ h.service \in L!Unit /\ h.others \in L!Unit /\ h.conf \in L!Conf
           /\ h.files \subseteq L!Files /\ h.torn \subseteq L!Files /\ h.dirs \subseteq L!Dirs
           /\ h.manifest \in L!Manifests \cup {L!NoManifest, L!TornManifest} /\ h.helper \in L!Helper
           /\ h.link \in BOOLEAN /\ h.connection \in BOOLEAN /\ h.attached \in BOOLEAN
           /\ h.configs \subseteq Configs
  BY DEF L!HostStates, Fields

LEMMA DifferFields ==
    ASSUME NEW h, NEW e, NEW F, Differ(h, e, F)
    PROVE  /\ "family" \in F \/ e.family = h.family
           /\ "nm" \in F \/ e.nm = h.nm
           /\ "service" \in F \/ e.service = h.service
           /\ "others" \in F \/ e.others = h.others
           /\ "conf" \in F \/ e.conf = h.conf
           /\ "files" \in F \/ e.files = h.files
           /\ "torn" \in F \/ e.torn = h.torn
           /\ "dirs" \in F \/ e.dirs = h.dirs
           /\ "manifest" \in F \/ e.manifest = h.manifest
           /\ "helper" \in F \/ e.helper = h.helper
           /\ "link" \in F \/ e.link = h.link
           /\ "connection" \in F \/ e.connection = h.connection
           /\ "attached" \in F \/ e.attached = h.attached
           /\ "configs" \in F \/ e.configs = h.configs
  BY DEF Differ, Fields

LEMMA OneField ==
    ASSUME NEW h \in L!HostStates, NEW f \in Fields, NEW v
    PROVE  Differ(h, [h EXCEPT ![f] = v], {f}) /\ [h EXCEPT ![f] = v][f] = v
  BY HostFields DEF Differ

LEMMA HostFromFields ==
    ASSUME NEW h \in L!HostStates, NEW e, NEW F, Differ(h, e, F),
           "family" \notin F, "nm" \notin F,
           "service" \in F => e.service \in L!Unit, "others" \in F => e.others \in L!Unit, 
           "conf" \in F => e.conf \in L!Conf, "files" \in F => e.files \subseteq L!Files,
           "torn" \in F => e.torn \subseteq L!Files, "dirs" \in F => e.dirs \subseteq L!Dirs,
           "manifest" \in F => e.manifest \in L!Manifests \cup {L!NoManifest, L!TornManifest},
           "helper" \in F => e.helper \in L!Helper,
           "link" \in F => e.link \in BOOLEAN, "connection" \in F => e.connection \in BOOLEAN,
           "attached" \in F => e.attached \in BOOLEAN, "configs" \in F => e.configs \subseteq Configs
    PROVE  e \in L!HostStates
  <1>1. e = [family |-> e.family, nm |-> e.nm, service |-> e.service, others |-> e.others, conf |-> e.conf,
             files |-> e.files, torn |-> e.torn, dirs |-> e.dirs, manifest |-> e.manifest, helper |-> e.helper,
             link |-> e.link, connection |-> e.connection, attached |-> e.attached, configs |-> e.configs]
    BY DEF Fields, Differ
  <1> QED
    BY <1>1, HostFields, DifferFields DEF L!HostStates

LEMMA DoIs == \A a, b : L!Do(a, b).do = a /\ L!Do(a, b).on = b
  BY DEF L!Do

LEMMA InstallCases ==
    ASSUME NEW nm \in BOOLEAN, NEW s \in InstallSteps(nm)
    PROVE  /\ s = L!Do(s.do, s.on)
           /\ \/ s.do = "mkdir" /\ (s.on \in {"qemu", "state"} \/ (s.on = "farrow" /\ nm))
              \/ s.do = "write" /\ s.on = "manifest"
              \/ s.do = "write" /\ s.on = "conf"
              \/ s.do = "write" /\ s.on \in L!OwnFiles(nm)
              \/ s.do \in {"await", "smoke"}
              \/ s.do = "override" /\ s.on = "helper"
              \/ s.do = "add" /\ nm
              \/ s.do = "up" /\ s.on = "connection" /\ nm
              \/ s.do \in {"start", "enable"} /\ s.on = "service" /\ ~nm
              \/ s.do = "reload" /\ ~nm
  <1>1. CASE nm
    <2>1. s \in {L!Do("mkdir", "qemu"), L!Do("mkdir", "state"), L!Do("write", "manifest"), L!Do("write", "conf"),
                L!Do("await", "bridge"), L!Do("override", "helper"), L!Do("smoke", "helper"),
                L!Do("mkdir", "farrow"), L!Do("write", "public"), L!Do("add", "connection"), L!Do("up", "connection")}
      BY <1>1 DEF InstallSteps
    <2>2. L!OwnFiles(nm) = {"public"}
      BY <1>1 DEF L!OwnFiles
    <2>3. s = L!Do(s.do, s.on)
      BY <2>1, DoIs
    <2>4. /\ s.do = "mkdir" => s.on \in {"qemu", "state", "farrow"}
          /\ s.do = "write" => s.on \in {"manifest", "conf", "public"}
          /\ s.do = "override" => s.on = "helper"
          /\ s.do = "up" => s.on = "connection"
          /\ s.do \in {"mkdir", "write", "await", "smoke", "override", "add", "up"}
      BY <2>1, DoIs
    <2> QED
      BY <1>1, <2>2, <2>3, <2>4
  <1>2. CASE ~nm
    <2>1. s \in {L!Do("mkdir", "qemu"), L!Do("mkdir", "state"), L!Do("write", "manifest"), L!Do("write", "conf"),
                L!Do("await", "bridge"), L!Do("override", "helper"), L!Do("smoke", "helper"),
                L!Do("write", "netdev"), L!Do("write", "network"), L!Do("start", "service"),
                L!Do("reload", "service"), L!Do("enable", "service")}
      BY <1>2 DEF InstallSteps
    <2>2. L!OwnFiles(nm) = {"netdev", "network"}
      BY <1>2 DEF L!OwnFiles
    <2>3. s = L!Do(s.do, s.on)
      BY <2>1, DoIs
    <2>4. /\ s.do = "mkdir" => s.on \in {"qemu", "state"}
          /\ s.do = "write" => s.on \in {"manifest", "conf", "netdev", "network"}
          /\ s.do = "override" => s.on = "helper"
          /\ s.do \in {"start", "enable"} => s.on = "service"
          /\ s.do \in {"mkdir", "write", "await", "smoke", "override", "start", "enable", "reload"}
      BY <2>1, DoIs
    <2>5. s.do = "write" => s.on \in {"manifest", "conf"} \/ s.on \in L!OwnFiles(nm)
      BY <2>2, <2>4

    <2> QED
      BY <1>2, <2>3, <2>4, <2>5
  <1> QED
    BY <1>1, <1>2

InstallTable(h, m, s, e) ==
  /\ e \in L!HostStates
  /\ e.family = h.family /\ e.nm = h.nm
  /\ e.manifest = IF s = L!Do("write", "manifest") THEN m ELSE h.manifest
  /\ e.conf = IF s = L!Do("write", "conf") THEN m.conf ELSE h.conf
  /\ \A p : p \in e.files <=> p \in h.files \/ (p \in Own /\ s = L!Do("write", p))
  /\ e.torn \subseteq h.torn
  /\ \A d : d \in e.dirs <=> d \in h.dirs \/ s = L!Do("mkdir", d)
  /\ e.helper = IF s = L!Do("override", "helper") THEN [override |-> "ours", mode |-> "scoped"] ELSE h.helper
  /\ h.link \/ s = L!Do("up", "connection") => e.link
  /\ ~h.nm => e.connection = h.connection
  /\ h.nm => e.service = h.service /\ e.others = h.others
  /\ h.service.active \/ s = L!Do("start", "service") => e.service.active

LEMMA InstallEffect ==
    ASSUME NEW h \in L!HostStates, NEW m \in L!Manifests, NEW s \in InstallSteps(h.nm)
    PROVE  InstallTable(h, m, s, L!Done(h, s, m))
  <1> DEFINE e == L!Done(h, s, m)
  <1> SUFFICES InstallTable(h, m, s, e)
    OBVIOUS
  <1>0. h.nm \in BOOLEAN
    BY DEF L!HostStates
  <1>a. \A a, b : s = L!Do(a, b) <=> s.do = a /\ s.on = b
    BY <1>0, InstallCases, DoIs
  <1>1. CASE s.do = "mkdir"
    <2>0. s.on \in {"qemu", "state", "farrow"}
      BY <1>0, <1>1, InstallCases
    <2>1. e = [h EXCEPT !.dirs = @ \cup {s.on}]
      BY <1>1 DEF L!Done
    <2>4. s.on \in L!Dirs
      BY <2>0 DEF L!Dirs
    <2>2. Differ(h, e, {"dirs"}) /\ e.dirs = h.dirs \cup {s.on}
      BY <2>1, OneField DEF Fields
    <2> HIDE DEF e
    <2>3. e \in L!HostStates
      BY <2>4, <2>2, HostFromFields, HostFields
    <2> QED
      BY <1>a, <1>1, <2>2, <2>3, DifferFields DEF InstallTable
  <1>2. CASE s.do = "write" /\ s.on = "manifest"
    <2>1. e = [h EXCEPT !.manifest = m]
      BY <1>2 DEF L!Done, L!Written
    <2>2. Differ(h, e, {"manifest"}) /\ e.manifest = m
      BY <2>1, OneField DEF Fields
    <2> HIDE DEF e
    <2>3. e \in L!HostStates
      BY <2>2, HostFromFields
    <2> QED
      BY <1>a, <1>2, <2>2, <2>3, DifferFields DEF InstallTable, Own
  <1>3. CASE s.do = "write" /\ s.on = "conf"
    <2>1. e = [h EXCEPT !.conf = m.conf] /\ m.conf \in L!Conf
      BY <1>3 DEF L!Done, L!Written, L!Manifests
    <2>2. Differ(h, e, {"conf"}) /\ e.conf = m.conf
      BY <2>1, OneField DEF Fields
    <2> HIDE DEF e
    <2>3. e \in L!HostStates
      BY <2>1, <2>2, HostFromFields
    <2> QED
      BY <1>a, <1>3, <2>2, <2>3, DifferFields DEF InstallTable, Own
  <1>4. CASE s.do = "write" /\ s.on \in L!OwnFiles(h.nm)
    <2>1. e = [h EXCEPT !.files = @ \cup {s.on}, !.torn = @ \ {s.on}] /\ s.on \in Own
      BY <1>4 DEF L!Done, L!Written, L!OwnFiles, Own
    <2> HIDE DEF e
    <2>2. Differ(h, e, {"files", "torn"}) /\ e.files = h.files \cup {s.on} /\ e.torn = h.torn \ {s.on}
      BY <2>1, HostFields DEF Differ, Fields
    <2> HIDE DEF e
    <2>5. s.on \in L!Files
      BY <2>1 DEF Own, L!Files
    <2>3. e.files \subseteq L!Files /\ e.torn \subseteq L!Files
      BY <2>5, <2>2, HostFields
    <2>4. e \in L!HostStates
      BY <2>2, <2>3, HostFromFields
    <2> QED
      BY <1>a, <1>4, <2>1, <2>2, <2>4, DifferFields DEF InstallTable, Own
  <1>5. CASE s.do \in {"await", "smoke"}
    <2>1. e = h
      BY <1>5 DEF L!Done
    <2> QED
      BY <1>a, <1>5, <2>1 DEF InstallTable
  <1>6. CASE s.do = "override" /\ s.on = "helper"
    <2>1. e = [h EXCEPT !.helper = [override |-> "ours", mode |-> "scoped"]]
      BY <1>6 DEF L!Done
    <2>2. Differ(h, e, {"helper"}) /\ e.helper = [override |-> "ours", mode |-> "scoped"]
      BY <2>1, OneField DEF Fields
    <2> HIDE DEF e
    <2>5. [override |-> "ours", mode |-> "scoped"] \in L!Helper
      BY DEF L!Helper, L!Modes
    <2>3. e.helper \in L!Helper
      BY <2>2, <2>5
    <2>4. e \in L!HostStates
      BY <2>2, <2>3, HostFromFields
    <2> QED
      BY <1>a, <1>6, <2>2, <2>4, DifferFields DEF InstallTable
  <1>7. CASE s.do = "add" /\ h.nm
    <2>1. e = [h EXCEPT !.connection = TRUE]
      BY <1>7 DEF L!Done
    <2>2. Differ(h, e, {"connection"}) /\ e.connection = TRUE
      BY <2>1, OneField DEF Fields
    <2> HIDE DEF e
    <2>3. e \in L!HostStates
      BY <2>2, HostFromFields
    <2>4. e.family = h.family /\ e.nm = h.nm /\ e.manifest = h.manifest /\ e.conf = h.conf /\ e.files = h.files
          /\ e.torn = h.torn /\ e.dirs = h.dirs /\ e.helper = h.helper /\ e.service = h.service /\ e.others = h.others
      BY <2>2, DifferFields
    <2>5. h.link => e.link
      BY <2>2, DifferFields
    <2>6. \A a, b : s = L!Do(a, b) => a = "add"
      BY <1>a, <1>7
    <2> QED
      BY <1>7, <2>3, <2>4, <2>5, <2>6 DEF InstallTable
  <1>8. CASE s.do = "up" /\ s.on = "connection" /\ h.nm
    <2>1. e = [h EXCEPT !.link = TRUE]
      BY <1>8 DEF L!Done
    <2>2. Differ(h, e, {"link"}) /\ e.link = TRUE
      BY <2>1, OneField DEF Fields
    <2> HIDE DEF e
    <2>3. e \in L!HostStates
      BY <2>2, HostFromFields
    <2>4. e.family = h.family /\ e.nm = h.nm /\ e.manifest = h.manifest /\ e.conf = h.conf /\ e.files = h.files
          /\ e.torn = h.torn /\ e.dirs = h.dirs /\ e.helper = h.helper /\ e.service = h.service /\ e.others = h.others
      BY <2>2, DifferFields
    <2>5. \A a, b : s = L!Do(a, b) => a = "up"
      BY <1>a, <1>8
    <2> QED
      BY <1>8, <2>2, <2>3, <2>4, <2>5 DEF InstallTable
  <1>9. CASE s.do = "start" /\ s.on = "service" /\ ~h.nm
    <2> DEFINE f == L!Both(h, "active", TRUE)
               S == [h.service EXCEPT !.active = TRUE]
               O == [h.others EXCEPT !.active = TRUE]
               v == f.link \/ L!BridgeUp(f)
    <2>1. f = [h EXCEPT !.service = S, !.others = O] /\ e = [f EXCEPT !.link = v]
      BY <1>9 DEF L!Done, L!Both
    <2>2. S \in L!Unit /\ S.active /\ O \in L!Unit
      BY HostFields DEF L!Unit
    <2>3. v \in BOOLEAN /\ (f.link => v)
      OBVIOUS
    <2> HIDE DEF f, S, O, v, e
    <2>4. Differ(h, f, {"service", "others"}) /\ f.service = S /\ f.others = O
      BY <2>1, HostFields DEF Differ, Fields
    <2>5. f \in L!HostStates
      BY <2>2, <2>4, HostFromFields
    <2>6. Differ(f, e, {"link"}) /\ e.link = v
      BY <2>1, <2>5, OneField, ZenonT(30) DEF Fields
    <2>7. e \in L!HostStates
      BY <2>3, <2>5, <2>6, HostFromFields
    <2>8. f.family = h.family /\ f.nm = h.nm /\ f.manifest = h.manifest /\ f.conf = h.conf /\ f.files = h.files
          /\ f.torn = h.torn /\ f.dirs = h.dirs /\ f.helper = h.helper /\ f.link = h.link
      BY <2>4, DifferFields
    <2>9. e.family = f.family /\ e.nm = f.nm /\ e.manifest = f.manifest /\ e.conf = f.conf /\ e.files = f.files
          /\ e.torn = f.torn /\ e.dirs = f.dirs /\ e.helper = f.helper /\ e.service = f.service
          /\ e.connection = h.connection
      BY <2>4, <2>6, DifferFields
    <2>10. \A a, b : s = L!Do(a, b) => a = "start"
      BY <1>a, <1>9
    <2>11. h.link => e.link
      BY <2>3, <2>6, <2>8
    <2>12. e.service.active
      BY <2>2, <2>4, <2>9
    <2> QED
      BY <1>9, <2>7, <2>8, <2>9, <2>10, <2>11, <2>12 DEF InstallTable
  <1>10. CASE s.do = "reload" /\ ~h.nm
    <2> DEFINE v == h.link \/ L!BridgeUp(h)
    <2>1. e = [h EXCEPT !.link = v]
      BY <1>10 DEF L!Done
    <2>2. v \in BOOLEAN /\ (h.link => v)
      OBVIOUS
    <2> HIDE DEF v, e
    <2>3. Differ(h, e, {"link"}) /\ e.link = v
      BY <2>1, OneField DEF Fields
    <2>4. e \in L!HostStates
      BY <2>2, <2>3, HostFromFields
    <2>5. e.family = h.family /\ e.nm = h.nm /\ e.manifest = h.manifest /\ e.conf = h.conf /\ e.files = h.files
          /\ e.torn = h.torn /\ e.dirs = h.dirs /\ e.helper = h.helper /\ e.service = h.service /\ e.others = h.others
          /\ e.connection = h.connection
      BY <2>3, DifferFields
    <2>6. \A a, b : s = L!Do(a, b) => a = "reload"
      BY <1>a, <1>10
    <2>7. h.link => e.link
      BY <2>2, <2>3
    <2> QED
      BY <1>10, <2>4, <2>5, <2>6, <2>7 DEF InstallTable
  <1>11. CASE s.do = "enable" /\ s.on = "service" /\ ~h.nm
    <2> DEFINE S == [h.service EXCEPT !.enabled = TRUE]
               O == [h.others EXCEPT !.enabled = TRUE]
    <2>1. e = [h EXCEPT !.service = S, !.others = O]
      BY <1>11 DEF L!Done, L!Both
    <2>2. S \in L!Unit /\ S.active = h.service.active /\ O \in L!Unit
      BY HostFields DEF L!Unit
    <2> HIDE DEF S, O
    <2> HIDE DEF e
    <2>3. Differ(h, e, {"service", "others"}) /\ e.service = S /\ e.others = O
      BY <2>1, HostFields DEF Differ, Fields
    <2> HIDE DEF e
    <2>4. e \in L!HostStates
      BY <2>2, <2>3, HostFromFields
    <2> QED
      BY <1>a, <1>11, <2>2, <2>3, <2>4, DifferFields DEF InstallTable
  <1> QED
    BY <1>0, <1>1, <1>2, <1>3, <1>4, <1>5, <1>6, <1>7, <1>8, <1>9, <1>10, <1>11, InstallCases

LEMMA RemovalCases ==
    ASSUME NEW nm \in BOOLEAN, NEW s \in RemovalSteps(nm)
    PROVE  /\ s = L!Do(s.do, s.on)
           /\ \/ s.do = "rmdir" /\ s.on \in {"qemu", "state", "farrow"}
              \/ s.do = "unlink" /\ s.on = "manifest"
              \/ s.do = "unlink" /\ s.on = "conf"
              \/ s.do = "unlink" /\ s.on \in Own
              \/ s.do = "restore" /\ s.on = "conf"
              \/ s.do = "delete" /\ s.on = "bridge" /\ ~nm
              \/ s.do = "delete" /\ s.on = "connection" /\ nm
              \/ s.do = "reload" /\ s.on = "service" /\ ~nm
              \/ s.do = "remove" /\ s.on = "override"
              \/ s.do = "chown" /\ s.on = "helper"
              \/ s.do = "chmod" /\ s.on = "helper"
              \/ s.do \in {"enable", "disable"} /\ s.on = "service" /\ ~nm
              \/ s.do \in {"enable", "disable"} /\ s.on = "others" /\ ~nm
              \/ s.do = "start" /\ s.on = "service" /\ ~nm
              \/ s.do = "start" /\ s.on = "others" /\ ~nm
              \/ s.do = "stop" /\ s.on = "service" /\ ~nm
              \/ s.do = "stop" /\ s.on = "others" /\ ~nm
  <1>1. CASE nm
    <2>1. s \in {L!Do("remove", "override"), L!Do("chown", "helper"), L!Do("chmod", "helper"), L!Do("restore", "conf"),
                L!Do("unlink", "conf"), L!Do("unlink", "manifest"), L!Do("rmdir", "state"), L!Do("rmdir", "qemu"),
                L!Do("delete", "connection"), L!Do("unlink", "public"), L!Do("rmdir", "farrow")}
      BY <1>1 DEF RemovalSteps
    <2> QED
      BY <1>1, <2>1, DoIs DEF Own
  <1>2. CASE ~nm
    <2>1. s \in {L!Do("remove", "override"), L!Do("chown", "helper"), L!Do("chmod", "helper"), L!Do("restore", "conf"),
                L!Do("unlink", "conf"), L!Do("unlink", "manifest"), L!Do("rmdir", "state"), L!Do("rmdir", "qemu"),
                L!Do("delete", "bridge"), L!Do("unlink", "netdev"), L!Do("unlink", "network"),
                L!Do("reload", "service"), L!Do("enable", "service"), L!Do("disable", "service"),
                L!Do("start", "service"), L!Do("stop", "service"), L!Do("enable", "others"),
                L!Do("disable", "others"), L!Do("start", "others"), L!Do("stop", "others")}
      BY <1>2 DEF RemovalSteps
    <2> QED
      BY <1>2, <2>1, DoIs DEF Own
  <1> QED
    BY <1>1, <1>2

\* What a step of a removal does to each part of the host.
UnitsTable(h, s, e) ==
  /\ s = L!Do("enable", "service") => e.service.enabled /\ e.others.enabled
  /\ s = L!Do("disable", "service") => ~e.service.enabled /\ ~e.others.enabled
  /\ s = L!Do("enable", "others") => e.others.enabled
  /\ s = L!Do("disable", "others") => ~e.others.enabled
  /\ s = L!Do("start", "service") => e.service.active /\ e.others.active
  /\ s = L!Do("stop", "service") => ~e.service.active
  /\ s = L!Do("start", "others") => e.others.active
  /\ s = L!Do("stop", "others") => ~e.others.active
  /\ s \notin {L!Do(a, "service") : a \in {"enable", "disable"}} => e.service.enabled = h.service.enabled
  /\ s \notin {L!Do(a, u) : a \in {"enable", "disable"}, u \in {"service", "others"}}
       => e.others.enabled = h.others.enabled
  /\ s \notin {L!Do(a, "service") : a \in {"start", "stop"}} => e.service.active = h.service.active
  /\ s \notin {L!Do(a, "others") : a \in {"start", "stop"}} \cup {L!Do("start", "service")}
       => e.others.active = h.others.active

RemovalTable(h, m, s, e) ==
  /\ e \in L!HostStates
  /\ e.family = h.family /\ e.nm = h.nm
  /\ e.manifest = IF s = L!Do("unlink", "manifest") THEN L!NoManifest ELSE h.manifest
  /\ e.conf = IF s = L!Do("restore", "conf") THEN m.original
              ELSE IF s = L!Do("unlink", "conf") THEN L!NoConf ELSE h.conf
  /\ \A p \in Own : /\ p \in e.files <=> p \in h.files /\ s # L!Do("unlink", p)
                    /\ p \in e.torn <=> p \in h.torn /\ s # L!Do("unlink", p)
  /\ \A d : d \in e.dirs <=> d \in h.dirs /\ s # L!Do("rmdir", d)
  /\ e.helper.override = IF s = L!Do("remove", "override") THEN "none" ELSE h.helper.override
  /\ e.helper.mode = IF s = L!Do("chown", "helper") THEN "half"
                     ELSE IF s = L!Do("chmod", "helper") THEN m.helper ELSE h.helper.mode
  /\ s = L!Do("delete", "connection") => ~e.connection
  /\ s # L!Do("delete", "connection") => e.connection = h.connection
  /\ s.do = "delete" => ~e.link
  /\ e.link /\ ~h.link => "netdev" \in h.files /\ s.do \in {"reload", "start"}
  /\ h.nm => e.service = h.service /\ e.others = h.others
  /\ ~h.nm => UnitsTable(h, s, e)

LEMMA RemovalEffect ==
    ASSUME NEW h \in L!HostStates, NEW m \in L!Manifests, NEW s \in RemovalSteps(h.nm)
    PROVE  RemovalTable(h, m, s, L!Done(h, s, m))
  <1> DEFINE e == L!Done(h, s, m)
  <1> SUFFICES RemovalTable(h, m, s, e)
    OBVIOUS
  <1>0. h.nm \in BOOLEAN /\ m.original \in L!Conf /\ m.helper \in L!Modes
    BY DEF L!HostStates, L!Manifests
  <1>a. \A a, b : s = L!Do(a, b) <=> s.do = a /\ s.on = b
    BY <1>0, RemovalCases, DoIs

  <1>1. CASE s.do = "rmdir"
    <2>1. e = [h EXCEPT !.dirs = @ \ {s.on}]
      BY <1>1 DEF L!Done
    <2> HIDE DEF e
    <2>3. Differ(h, e, {"dirs"}) /\ e.dirs = h.dirs \ {s.on}
      BY <2>1, OneField DEF Fields
    <2>4. e \in L!HostStates
      BY <1>0, <2>3, HostFields, HostFromFields
    <2>5. e.family = h.family /\ e.nm = h.nm /\ e.service = h.service /\ e.others = h.others
          /\ e.conf = h.conf /\ e.files = h.files /\ e.torn = h.torn /\ e.manifest = h.manifest
          /\ e.helper = h.helper /\ e.link = h.link /\ e.connection = h.connection
      BY <2>3, DifferFields
    <2>6. \A a, b : s = L!Do(a, b) => a = "rmdir" /\ b = s.on
      BY <1>a, <1>1
    <2> QED
      BY <1>a, <1>1, <2>3, <2>4, <2>5, <2>6 DEF RemovalTable, UnitsTable, Own
  <1>2. CASE s.do = "unlink" /\ s.on = "manifest"
    <2>1. e = [h EXCEPT !.manifest = L!NoManifest]
      BY <1>2 DEF L!Done, L!Unlinked
    <2> HIDE DEF e
    <2>3. Differ(h, e, {"manifest"}) /\ e.manifest = L!NoManifest
      BY <2>1, OneField DEF Fields
    <2>4. e \in L!HostStates
      BY <1>0, <2>3, HostFields, HostFromFields
    <2>5. e.family = h.family /\ e.nm = h.nm /\ e.service = h.service /\ e.others = h.others
          /\ e.conf = h.conf /\ e.files = h.files /\ e.torn = h.torn /\ e.dirs = h.dirs
          /\ e.helper = h.helper /\ e.link = h.link /\ e.connection = h.connection
      BY <2>3, DifferFields
    <2>6. \A a, b : s = L!Do(a, b) => a = "unlink" /\ b = "manifest"
      BY <1>a, <1>2
    <2> QED
      BY <1>a, <1>2, <2>3, <2>4, <2>5, <2>6 DEF RemovalTable, UnitsTable, Own
  <1>3. CASE s.do = "unlink" /\ s.on = "conf"
    <2>1. e = [h EXCEPT !.conf = L!NoConf]
      BY <1>3 DEF L!Done, L!Unlinked
    <2>2. L!NoConf \in L!Conf
      BY <1>3, <1>0, HostFields DEF L!NoConf, L!Conf
    <2> HIDE DEF e
    <2>3. Differ(h, e, {"conf"}) /\ e.conf = L!NoConf
      BY <2>1, OneField DEF Fields
    <2>4. e \in L!HostStates
      BY <1>0, <2>2, <2>3, HostFields, HostFromFields
    <2>5. e.family = h.family /\ e.nm = h.nm /\ e.service = h.service /\ e.others = h.others
          /\ e.files = h.files /\ e.torn = h.torn /\ e.dirs = h.dirs /\ e.manifest = h.manifest
          /\ e.helper = h.helper /\ e.link = h.link /\ e.connection = h.connection
      BY <2>3, DifferFields
    <2>6. \A a, b : s = L!Do(a, b) => a = "unlink" /\ b = "conf"
      BY <1>a, <1>3
    <2> QED
      BY <1>a, <1>3, <2>2, <2>3, <2>4, <2>5, <2>6 DEF RemovalTable, UnitsTable, Own
  <1>4. CASE s.do = "unlink" /\ s.on \in Own
    <2>1. e = [h EXCEPT !.files = @ \ {s.on}, !.torn = @ \ {s.on}]
      BY <1>4 DEF L!Done, L!Unlinked, Own
    <2>2. h.files \ {s.on} \subseteq L!Files /\ h.torn \ {s.on} \subseteq L!Files
      BY <1>4, <1>0, HostFields
    <2> HIDE DEF e
    <2>3. Differ(h, e, {"files", "torn"}) /\ e.files = h.files \ {s.on} /\ e.torn = h.torn \ {s.on}
      BY <2>1, HostFields DEF Differ, Fields
    <2>4. e \in L!HostStates
      BY <1>0, <2>2, <2>3, HostFields, HostFromFields
    <2>5. e.family = h.family /\ e.nm = h.nm /\ e.service = h.service /\ e.others = h.others
          /\ e.conf = h.conf /\ e.dirs = h.dirs /\ e.manifest = h.manifest /\ e.helper = h.helper
          /\ e.link = h.link /\ e.connection = h.connection
      BY <2>3, DifferFields
    <2>6. \A a, b : s = L!Do(a, b) => a = "unlink" /\ b = s.on
      BY <1>a, <1>4
    <2> QED
      BY <1>a, <1>4, <2>2, <2>3, <2>4, <2>5, <2>6 DEF RemovalTable, UnitsTable, Own
  <1>5. CASE s.do = "restore" /\ s.on = "conf"
    <2>1. e = [h EXCEPT !.conf = m.original]
      BY <1>5 DEF L!Done
    <2> HIDE DEF e
    <2>3. Differ(h, e, {"conf"}) /\ e.conf = m.original
      BY <2>1, OneField DEF Fields
    <2>4. e \in L!HostStates
      BY <1>0, <2>3, HostFields, HostFromFields
    <2>5. e.family = h.family /\ e.nm = h.nm /\ e.service = h.service /\ e.others = h.others
          /\ e.files = h.files /\ e.torn = h.torn /\ e.dirs = h.dirs /\ e.manifest = h.manifest
          /\ e.helper = h.helper /\ e.link = h.link /\ e.connection = h.connection
      BY <2>3, DifferFields
    <2>6. \A a, b : s = L!Do(a, b) => a = "restore" /\ b = "conf"
      BY <1>a, <1>5
    <2> QED
      BY <1>a, <1>5, <2>3, <2>4, <2>5, <2>6 DEF RemovalTable, UnitsTable, Own
  <1>6. CASE s.do = "remove" /\ s.on = "override"
    <2> DEFINE H == [h.helper EXCEPT !.override = "none"]
    <2>1. e = [h EXCEPT !.helper = H]
      BY <1>6 DEF L!Done
    <2>2. H \in L!Helper /\ H.override = "none" /\ H.mode = h.helper.mode
      BY <1>6, <1>0, HostFields DEF L!Helper
    <2> HIDE DEF e, H
    <2>3. Differ(h, e, {"helper"}) /\ e.helper = H
      BY <2>1, OneField DEF Fields
    <2>4. e \in L!HostStates
      BY <1>0, <2>2, <2>3, HostFields, HostFromFields
    <2>5. e.family = h.family /\ e.nm = h.nm /\ e.service = h.service /\ e.others = h.others
          /\ e.conf = h.conf /\ e.files = h.files /\ e.torn = h.torn /\ e.dirs = h.dirs
          /\ e.manifest = h.manifest /\ e.link = h.link /\ e.connection = h.connection
      BY <2>3, DifferFields
    <2>6. \A a, b : s = L!Do(a, b) => a = "remove" /\ b = "override"
      BY <1>a, <1>6
    <2> QED
      BY <1>a, <1>6, <2>2, <2>3, <2>4, <2>5, <2>6 DEF RemovalTable, UnitsTable, Own
  <1>7. CASE s.do = "chown" /\ s.on = "helper"
    <2> DEFINE H == [h.helper EXCEPT !.mode = "half"]
    <2>1. e = [h EXCEPT !.helper = H]
      BY <1>7 DEF L!Done
    <2>2. H \in L!Helper /\ H.override = h.helper.override /\ H.mode = "half"
      BY <1>7, <1>0, HostFields DEF L!Helper, L!Modes
    <2> HIDE DEF e, H
    <2>3. Differ(h, e, {"helper"}) /\ e.helper = H
      BY <2>1, OneField DEF Fields
    <2>4. e \in L!HostStates
      BY <1>0, <2>2, <2>3, HostFields, HostFromFields
    <2>5. e.family = h.family /\ e.nm = h.nm /\ e.service = h.service /\ e.others = h.others
          /\ e.conf = h.conf /\ e.files = h.files /\ e.torn = h.torn /\ e.dirs = h.dirs
          /\ e.manifest = h.manifest /\ e.link = h.link /\ e.connection = h.connection
      BY <2>3, DifferFields
    <2>6. \A a, b : s = L!Do(a, b) => a = "chown" /\ b = "helper"
      BY <1>a, <1>7
    <2> QED
      BY <1>a, <1>7, <2>2, <2>3, <2>4, <2>5, <2>6 DEF RemovalTable, UnitsTable, Own
  <1>8. CASE s.do = "chmod" /\ s.on = "helper"
    <2> DEFINE H == [h.helper EXCEPT !.mode = m.helper]
    <2>1. e = [h EXCEPT !.helper = H]
      BY <1>8 DEF L!Done
    <2>2. H \in L!Helper /\ H.override = h.helper.override /\ H.mode = m.helper
      BY <1>8, <1>0, HostFields DEF L!Helper
    <2> HIDE DEF e, H
    <2>3. Differ(h, e, {"helper"}) /\ e.helper = H
      BY <2>1, OneField DEF Fields
    <2>4. e \in L!HostStates
      BY <1>0, <2>2, <2>3, HostFields, HostFromFields
    <2>5. e.family = h.family /\ e.nm = h.nm /\ e.service = h.service /\ e.others = h.others
          /\ e.conf = h.conf /\ e.files = h.files /\ e.torn = h.torn /\ e.dirs = h.dirs
          /\ e.manifest = h.manifest /\ e.link = h.link /\ e.connection = h.connection
      BY <2>3, DifferFields
    <2>6. \A a, b : s = L!Do(a, b) => a = "chmod" /\ b = "helper"
      BY <1>a, <1>8
    <2> QED
      BY <1>a, <1>8, <2>2, <2>3, <2>4, <2>5, <2>6 DEF RemovalTable, UnitsTable, Own
  <1>9. CASE s.do = "stop" /\ s.on = "service" /\ ~h.nm
    <2> DEFINE S == [h.service EXCEPT !.active = FALSE]
    <2>1. e = [h EXCEPT !.service = S]
      BY <1>9 DEF L!Done
    <2>2. S \in L!Unit /\ ~S.active /\ S.enabled = h.service.enabled
      BY <1>9, <1>0, HostFields DEF L!Unit
    <2> HIDE DEF e, S
    <2>3. Differ(h, e, {"service"}) /\ e.service = S
      BY <2>1, OneField DEF Fields
    <2>4. e \in L!HostStates
      BY <1>0, <2>2, <2>3, HostFields, HostFromFields
    <2>5. e.family = h.family /\ e.nm = h.nm /\ e.others = h.others /\ e.conf = h.conf
          /\ e.files = h.files /\ e.torn = h.torn /\ e.dirs = h.dirs /\ e.manifest = h.manifest
          /\ e.helper = h.helper /\ e.link = h.link /\ e.connection = h.connection
      BY <2>3, DifferFields
    <2>6. \A a, b : s = L!Do(a, b) => a = "stop" /\ b = "service"
      BY <1>a, <1>9
    <2> QED
      BY <1>a, <1>9, <2>2, <2>3, <2>4, <2>5, <2>6 DEF RemovalTable, UnitsTable, Own
  <1>10. CASE s.do = "stop" /\ s.on = "others" /\ ~h.nm
    <2> DEFINE O == [h.others EXCEPT !.active = FALSE]
    <2>1. e = [h EXCEPT !.others = O]
      BY <1>10 DEF L!Done
    <2>2. O \in L!Unit /\ ~O.active /\ O.enabled = h.others.enabled
      BY <1>10, <1>0, HostFields DEF L!Unit
    <2> HIDE DEF e, O
    <2>3. Differ(h, e, {"others"}) /\ e.others = O
      BY <2>1, OneField DEF Fields
    <2>4. e \in L!HostStates
      BY <1>0, <2>2, <2>3, HostFields, HostFromFields
    <2>5. e.family = h.family /\ e.nm = h.nm /\ e.service = h.service /\ e.conf = h.conf
          /\ e.files = h.files /\ e.torn = h.torn /\ e.dirs = h.dirs /\ e.manifest = h.manifest
          /\ e.helper = h.helper /\ e.link = h.link /\ e.connection = h.connection
      BY <2>3, DifferFields
    <2>6. \A a, b : s = L!Do(a, b) => a = "stop" /\ b = "others"
      BY <1>a, <1>10
    <2> QED
      BY <1>a, <1>10, <2>2, <2>3, <2>4, <2>5, <2>6 DEF RemovalTable, UnitsTable, Own
  <1>11. CASE s.do = "enable" /\ s.on = "service" /\ ~h.nm
    <2> DEFINE S == [h.service EXCEPT !.enabled = TRUE]
               O == [h.others EXCEPT !.enabled = TRUE]
    <2>1. e = [h EXCEPT !.service = S, !.others = O]
      BY <1>11 DEF L!Done, L!Both
    <2>2. S \in L!Unit /\ S.active = h.service.active /\ S.enabled
          /\ O \in L!Unit /\ O.active = h.others.active /\ O.enabled
      BY <1>11, <1>0, HostFields DEF L!Unit
    <2> HIDE DEF e, S, O
    <2>3. Differ(h, e, {"service", "others"}) /\ e.service = S /\ e.others = O
      BY <2>1, HostFields DEF Differ, Fields
    <2>4. e \in L!HostStates
      BY <1>0, <2>2, <2>3, HostFields, HostFromFields
    <2>5. e.family = h.family /\ e.nm = h.nm /\ e.conf = h.conf /\ e.files = h.files /\ e.torn = h.torn
          /\ e.dirs = h.dirs /\ e.manifest = h.manifest /\ e.helper = h.helper /\ e.link = h.link
          /\ e.connection = h.connection
      BY <2>3, DifferFields
    <2>6. \A a, b : s = L!Do(a, b) => a = "enable" /\ b = "service"
      BY <1>a, <1>11
    <2> QED
      BY <1>a, <1>11, <2>2, <2>3, <2>4, <2>5, <2>6 DEF RemovalTable, UnitsTable, Own
  <1>12. CASE s.do = "enable" /\ s.on = "others" /\ ~h.nm
    <2> DEFINE O == [h.others EXCEPT !.enabled = TRUE]
    <2>1. e = [h EXCEPT !.others = O]
      BY <1>12 DEF L!Done
    <2>2. O \in L!Unit /\ O.active = h.others.active /\ O.enabled
      BY <1>12, <1>0, HostFields DEF L!Unit
    <2> HIDE DEF e, O
    <2>3. Differ(h, e, {"others"}) /\ e.others = O
      BY <2>1, OneField DEF Fields
    <2>4. e \in L!HostStates
      BY <1>0, <2>2, <2>3, HostFields, HostFromFields
    <2>5. e.family = h.family /\ e.nm = h.nm /\ e.service = h.service /\ e.conf = h.conf
          /\ e.files = h.files /\ e.torn = h.torn /\ e.dirs = h.dirs /\ e.manifest = h.manifest
          /\ e.helper = h.helper /\ e.link = h.link /\ e.connection = h.connection
      BY <2>3, DifferFields
    <2>6. \A a, b : s = L!Do(a, b) => a = "enable" /\ b = "others"
      BY <1>a, <1>12
    <2> QED
      BY <1>a, <1>12, <2>2, <2>3, <2>4, <2>5, <2>6 DEF RemovalTable, UnitsTable, Own
  <1>13. CASE s.do = "disable" /\ s.on = "service" /\ ~h.nm
    <2> DEFINE S == [h.service EXCEPT !.enabled = FALSE]
               O == [h.others EXCEPT !.enabled = FALSE]
    <2>1. e = [h EXCEPT !.service = S, !.others = O]
      BY <1>13 DEF L!Done, L!Both
    <2>2. S \in L!Unit /\ S.active = h.service.active /\ ~S.enabled
          /\ O \in L!Unit /\ O.active = h.others.active /\ ~O.enabled
      BY <1>13, <1>0, HostFields DEF L!Unit
    <2> HIDE DEF e, S, O
    <2>3. Differ(h, e, {"service", "others"}) /\ e.service = S /\ e.others = O
      BY <2>1, HostFields DEF Differ, Fields
    <2>4. e \in L!HostStates
      BY <1>0, <2>2, <2>3, HostFields, HostFromFields
    <2>5. e.family = h.family /\ e.nm = h.nm /\ e.conf = h.conf /\ e.files = h.files /\ e.torn = h.torn
          /\ e.dirs = h.dirs /\ e.manifest = h.manifest /\ e.helper = h.helper /\ e.link = h.link
          /\ e.connection = h.connection
      BY <2>3, DifferFields
    <2>6. \A a, b : s = L!Do(a, b) => a = "disable" /\ b = "service"
      BY <1>a, <1>13
    <2> QED
      BY <1>a, <1>13, <2>2, <2>3, <2>4, <2>5, <2>6 DEF RemovalTable, UnitsTable, Own
  <1>14. CASE s.do = "disable" /\ s.on = "others" /\ ~h.nm
    <2> DEFINE O == [h.others EXCEPT !.enabled = FALSE]
    <2>1. e = [h EXCEPT !.others = O]
      BY <1>14 DEF L!Done
    <2>2. O \in L!Unit /\ O.active = h.others.active /\ ~O.enabled
      BY <1>14, <1>0, HostFields DEF L!Unit
    <2> HIDE DEF e, O
    <2>3. Differ(h, e, {"others"}) /\ e.others = O
      BY <2>1, OneField DEF Fields
    <2>4. e \in L!HostStates
      BY <1>0, <2>2, <2>3, HostFields, HostFromFields
    <2>5. e.family = h.family /\ e.nm = h.nm /\ e.service = h.service /\ e.conf = h.conf
          /\ e.files = h.files /\ e.torn = h.torn /\ e.dirs = h.dirs /\ e.manifest = h.manifest
          /\ e.helper = h.helper /\ e.link = h.link /\ e.connection = h.connection
      BY <2>3, DifferFields
    <2>6. \A a, b : s = L!Do(a, b) => a = "disable" /\ b = "others"
      BY <1>a, <1>14
    <2> QED
      BY <1>a, <1>14, <2>2, <2>3, <2>4, <2>5, <2>6 DEF RemovalTable, UnitsTable, Own
  <1>15. CASE s.do = "delete" /\ s.on = "bridge" /\ ~h.nm
    <2>1. e = [h EXCEPT !.link = FALSE, !.attached = FALSE, !.connection = h.connection]
      BY <1>15 DEF L!Done
    <2> HIDE DEF e
    <2>3. Differ(h, e, {"link", "attached", "connection"}) /\ e.link = FALSE
          /\ e.attached = FALSE /\ e.connection = h.connection
      BY <2>1, HostFields DEF Differ, Fields
    <2>4. e \in L!HostStates
      BY <1>0, <2>3, HostFields, HostFromFields
    <2>5. e.family = h.family /\ e.nm = h.nm /\ e.service = h.service /\ e.others = h.others
          /\ e.conf = h.conf /\ e.files = h.files /\ e.torn = h.torn /\ e.dirs = h.dirs
          /\ e.manifest = h.manifest /\ e.helper = h.helper
      BY <2>3, DifferFields
    <2>6. \A a, b : s = L!Do(a, b) => a = "delete" /\ b = "bridge"
      BY <1>a, <1>15
    <2> QED
      BY <1>a, <1>15, <2>3, <2>4, <2>5, <2>6 DEF RemovalTable, UnitsTable, Own
  <1>16. CASE s.do = "delete" /\ s.on = "connection" /\ h.nm
    <2>1. e = [h EXCEPT !.link = FALSE, !.attached = FALSE, !.connection = FALSE]
      BY <1>16 DEF L!Done
    <2> HIDE DEF e
    <2>3. Differ(h, e, {"link", "attached", "connection"}) /\ e.link = FALSE
          /\ e.attached = FALSE /\ e.connection = FALSE
      BY <2>1, HostFields DEF Differ, Fields
    <2>4. e \in L!HostStates
      BY <1>0, <2>3, HostFields, HostFromFields
    <2>5. e.family = h.family /\ e.nm = h.nm /\ e.service = h.service /\ e.others = h.others
          /\ e.conf = h.conf /\ e.files = h.files /\ e.torn = h.torn /\ e.dirs = h.dirs
          /\ e.manifest = h.manifest /\ e.helper = h.helper
      BY <2>3, DifferFields
    <2>6. \A a, b : s = L!Do(a, b) => a = "delete" /\ b = "connection"
      BY <1>a, <1>16
    <2> QED
      BY <1>a, <1>16, <2>3, <2>4, <2>5, <2>6 DEF RemovalTable, UnitsTable, Own
  <1>17. CASE s.do = "reload" /\ ~h.nm
    <2> DEFINE v == h.link \/ L!BridgeUp(h)
    <2>1. e = [h EXCEPT !.link = v]
      BY <1>17 DEF L!Done
    <2>2. v \in BOOLEAN /\ (h.link => v) /\ (v => h.link \/ "netdev" \in h.files)
      BY <1>17, <1>0, HostFields DEF L!BridgeUp
    <2> HIDE DEF e, v
    <2>3. Differ(h, e, {"link"}) /\ e.link = v
      BY <2>1, OneField DEF Fields
    <2>4. e \in L!HostStates
      BY <1>0, <2>2, <2>3, HostFields, HostFromFields
    <2>5. e.family = h.family /\ e.nm = h.nm /\ e.service = h.service /\ e.others = h.others
          /\ e.conf = h.conf /\ e.files = h.files /\ e.torn = h.torn /\ e.dirs = h.dirs
          /\ e.manifest = h.manifest /\ e.helper = h.helper /\ e.connection = h.connection
      BY <2>3, DifferFields
    <2>6. \A a, b : s = L!Do(a, b) => a = "reload" /\ b = s.on
      BY <1>a, <1>17
    <2> QED
      BY <1>a, <1>17, <2>2, <2>3, <2>4, <2>5, <2>6 DEF RemovalTable, UnitsTable, Own
  <1>18. CASE s.do = "start" /\ s.on = "service" /\ ~h.nm
    <2> DEFINE f == L!Both(h, "active", TRUE)
               S == [h.service EXCEPT !.active = TRUE]
               O == [h.others EXCEPT !.active = TRUE]
               v == f.link \/ L!BridgeUp(f)
    <2>1. f = [h EXCEPT !.service = S, !.others = O] /\ e = [f EXCEPT !.link = v]
      BY <1>18 DEF L!Done, L!Both
    <2>2. S \in L!Unit /\ S.active /\ S.enabled = h.service.enabled
          /\ O \in L!Unit /\ O.active /\ O.enabled = h.others.enabled
      BY HostFields DEF L!Unit
    <2>3. v \in BOOLEAN /\ (f.link => v) /\ (v => f.link \/ "netdev" \in f.files)
      BY DEF L!BridgeUp
    <2> HIDE DEF f, S, O, v, e
    <2>4. Differ(h, f, {"service", "others"}) /\ f.service = S /\ f.others = O
      BY <2>1, HostFields DEF Differ, Fields
    <2>5. f \in L!HostStates
      BY <2>2, <2>4, HostFromFields
    <2>6. Differ(f, e, {"link"}) /\ e.link = v
      BY <2>1, <2>5, OneField, ZenonT(30) DEF Fields
    <2>7. e \in L!HostStates
      BY <2>3, <2>5, <2>6, HostFromFields
    <2>8. f.family = h.family /\ f.nm = h.nm /\ f.conf = h.conf /\ f.files = h.files /\ f.torn = h.torn
          /\ f.dirs = h.dirs /\ f.manifest = h.manifest /\ f.helper = h.helper /\ f.link = h.link
          /\ f.connection = h.connection
      BY <2>4, DifferFields
    <2>9. e.family = f.family /\ e.nm = f.nm /\ e.service = f.service /\ e.others = f.others
          /\ e.conf = f.conf /\ e.files = f.files /\ e.torn = f.torn /\ e.dirs = f.dirs
          /\ e.manifest = f.manifest /\ e.helper = f.helper /\ e.connection = f.connection
      BY <2>6, DifferFields
    <2>10. \A a, b : s = L!Do(a, b) => a = "start" /\ b = "service"
      BY <1>a, <1>18
    <2>11. e.link /\ ~h.link => "netdev" \in h.files
      BY <2>3, <2>6, <2>8
    <2>12. UnitsTable(h, s, e)
      BY <1>a, <1>18, <2>2, <2>4, <2>8, <2>9, <2>10 DEF UnitsTable
    <2> QED
      BY <1>18, <2>7, <2>8, <2>9, <2>10, <2>11, <2>12 DEF RemovalTable
  <1>19. CASE s.do = "start" /\ s.on = "others" /\ ~h.nm
    <2> DEFINE f == [h EXCEPT !.others.active = TRUE]
               O == [h.others EXCEPT !.active = TRUE]
               v == f.link \/ L!BridgeUp(f)
    <2>1. f = [h EXCEPT !.others = O] /\ e = [f EXCEPT !.link = v]
      BY <1>19 DEF L!Done, L!Both
    <2>2. O \in L!Unit /\ O.active /\ O.enabled = h.others.enabled
      BY HostFields DEF L!Unit
    <2>3. v \in BOOLEAN /\ (f.link => v) /\ (v => f.link \/ "netdev" \in f.files)
      BY DEF L!BridgeUp
    <2> HIDE DEF f, O, v, e
    <2>4. Differ(h, f, {"others"}) /\ f.others = O
      BY <2>1, HostFields DEF Differ, Fields
    <2>5. f \in L!HostStates
      BY <2>2, <2>4, HostFromFields
    <2>6. Differ(f, e, {"link"}) /\ e.link = v
      BY <2>1, <2>5, OneField, ZenonT(30) DEF Fields
    <2>7. e \in L!HostStates
      BY <2>3, <2>5, <2>6, HostFromFields
    <2>8. f.family = h.family /\ f.nm = h.nm /\ f.service = h.service /\ f.conf = h.conf
          /\ f.files = h.files /\ f.torn = h.torn /\ f.dirs = h.dirs /\ f.manifest = h.manifest
          /\ f.helper = h.helper /\ f.link = h.link /\ f.connection = h.connection
      BY <2>4, DifferFields
    <2>9. e.family = f.family /\ e.nm = f.nm /\ e.service = f.service /\ e.others = f.others
          /\ e.conf = f.conf /\ e.files = f.files /\ e.torn = f.torn /\ e.dirs = f.dirs
          /\ e.manifest = f.manifest /\ e.helper = f.helper /\ e.connection = f.connection
      BY <2>6, DifferFields
    <2>10. \A a, b : s = L!Do(a, b) => a = "start" /\ b = "others"
      BY <1>a, <1>19
    <2>11. e.link /\ ~h.link => "netdev" \in h.files
      BY <2>3, <2>6, <2>8
    <2>12. UnitsTable(h, s, e)
      BY <1>a, <1>19, <2>2, <2>4, <2>8, <2>9, <2>10 DEF UnitsTable
    <2> QED
      BY <1>19, <2>7, <2>8, <2>9, <2>10, <2>11, <2>12 DEF RemovalTable
  <1> QED
    BY <1>0, RemovalCases, <1>1, <1>2, <1>3, <1>4, <1>5, <1>6, <1>7, <1>8,
       <1>9, <1>10, <1>11, <1>12, <1>13, <1>14, <1>15, <1>16, <1>17, <1>18, <1>19

-----------------------------------------------------------------------------
(* Plans.                                                                  *)

LEMMA DoEqual == \A a, b, c, d : L!Do(a, b) = L!Do(c, d) => a = c /\ b = d
  BY DoIs

\* No order to keep where one of the two is missing.
LEMMA OrderedApart ==
    ASSUME NEW s, NEW A, NEW B, Steps(s) \cap A = {} \/ Steps(s) \cap B = {}
    PROVE  Ordered(s, A, B)
  BY DEF Ordered, Steps

LEMMA InstallPlan ==
    ASSUME NEW h \in L!HostStates
    PROVE  LET s == L!PlacingSteps(h) \o L!ActivatingSteps(h)
           IN /\ s \in Seq(InstallSteps(h.nm))
              /\ Ordered(s, {L!Do("mkdir", "state")}, {L!Do("write", "manifest")})
              /\ Ordered(s, {L!Do("write", "manifest")},
                            {L!Do("write", p) : p \in Own} \cup {L!Do("override", "helper")})
              /\ {L!Do("mkdir", "state"), L!Do("write", "manifest"), L!Do("write", "conf"),
                  L!Do("await", "bridge")} \subseteq Steps(s)
              /\ \A p \in L!OwnFiles(h.nm) : L!Do("write", p) \in Steps(s)
              /\ ~h.nm /\ ~h.service.active => L!Do("start", "service") \in Steps(s)
              /\ L!Do("override", "helper") \in Steps(s) <=> L!HelperNeedsOverride(h)
  <1> DEFINE T == InstallSteps(h.nm)
             p1 == L!DoIf("qemu" \notin h.dirs, "mkdir", "qemu")
             p2 == L!DoIf(h.nm /\ "farrow" \notin h.dirs, "mkdir", "farrow")
             p3 == <<L!Do("mkdir", "state"), L!Do("write", "manifest")>>
             p4 == IF h.nm THEN <<L!Do("write", "public"), L!Do("write", "conf")>>
                   ELSE <<L!Do("write", "conf"), L!Do("write", "netdev"), L!Do("write", "network")>>
             a1 == IF h.nm
                   THEN L!DoIf(~h.connection, "add", "connection") \o <<L!Do("up", "connection")>>
                   ELSE L!DoIf(~h.service.active, "start", "service")
                        \o <<L!Do("reload", "service"), L!Do("await", "bridge")>>
             a2 == L!DoIf(L!HelperNeedsOverride(h), "override", "helper")
             a3 == <<L!Do("await", "bridge"), L!Do("smoke", "helper")>>
             a4 == L!DoIf(~h.nm /\ ~h.service.enabled, "enable", "service")
             A1 == {L!Do("mkdir", "state")}
             B1 == {L!Do("write", "manifest")}
             A2 == {L!Do("write", "manifest")}
             B2 == {L!Do("write", p) : p \in Own} \cup {L!Do("override", "helper")}
  <1>0. h.nm \in BOOLEAN /\ h.connection \in BOOLEAN /\ h.service.active \in BOOLEAN /\ h.service.enabled \in BOOLEAN
        /\ L!HelperNeedsOverride(h) \in BOOLEAN
    BY HostFields DEF L!Unit, L!HelperNeedsOverride
  <1>t. /\ {L!Do("mkdir", "qemu"), L!Do("mkdir", "state"), L!Do("write", "manifest"), L!Do("write", "conf"),
            L!Do("await", "bridge"), L!Do("override", "helper"), L!Do("smoke", "helper")} \subseteq T
        /\ h.nm => {L!Do("mkdir", "farrow"), L!Do("write", "public"), L!Do("add", "connection"),
                    L!Do("up", "connection")} \subseteq T
        /\ ~h.nm => {L!Do("write", "netdev"), L!Do("write", "network"), L!Do("start", "service"),
                     L!Do("reload", "service"), L!Do("enable", "service")} \subseteq T
    BY DEF InstallSteps
  <1>p1. p1 \in Seq(T) /\ Steps(p1) \subseteq {L!Do("mkdir", "qemu")}
    <2>1. CASE "qemu" \notin h.dirs
      BY <1>t, <2>1, ShortSteps DEF L!DoIf
    <2>2. CASE "qemu" \in h.dirs
      BY <2>2, ShortSteps DEF L!DoIf
    <2> QED
      BY <2>1, <2>2
  <1>p2. p2 \in Seq(T) /\ Steps(p2) \subseteq {L!Do("mkdir", "farrow")}
    <2>1. CASE h.nm /\ "farrow" \notin h.dirs
      BY <1>t, <2>1, ShortSteps DEF L!DoIf
    <2>2. CASE ~(h.nm /\ "farrow" \notin h.dirs)
      BY <2>2, ShortSteps DEF L!DoIf
    <2> QED
      BY <2>1, <2>2
  <1>p3. p3 \in Seq(T) /\ Steps(p3) = {L!Do("mkdir", "state"), L!Do("write", "manifest")}
    BY <1>t, ShortSteps
  <1>p4. /\ p4 \in Seq(T) /\ L!Do("write", "conf") \in Steps(p4)
         /\ \A p \in L!OwnFiles(h.nm) : L!Do("write", p) \in Steps(p4)
         /\ Steps(p4) \subseteq {L!Do("write", p) : p \in Own \cup {"conf"}}
    <2>1. CASE h.nm
      <3>0. p4 = <<L!Do("write", "public"), L!Do("write", "conf")>>
        BY <2>1
      <3> HIDE DEF p4, T
      <3>1. p4 \in Seq(T) /\ Steps(p4) = {L!Do("write", "public"), L!Do("write", "conf")}
        BY <1>t, <2>1, <3>0, ShortSteps
      <3> QED
        BY <2>1, <3>1 DEF L!OwnFiles, Own
    <2>2. CASE ~h.nm
      <3>1. p4 \in Seq(T) /\ Steps(p4) = {L!Do("write", "conf"), L!Do("write", "netdev"), L!Do("write", "network")}
        BY <1>t, <2>2, ShortSteps
      <3> QED
        BY <2>2, <3>1 DEF L!OwnFiles, Own
    <2> QED
      BY <1>0, <2>1, <2>2
  <1>a1. /\ a1 \in Seq(T)
         /\ Steps(a1) \subseteq {L!Do("add", "connection"), L!Do("up", "connection"), L!Do("start", "service"),
                                L!Do("reload", "service"), L!Do("await", "bridge")}
         /\ ~h.nm /\ ~h.service.active => L!Do("start", "service") \in Steps(a1)
    <2>1. CASE h.nm
      <3> DEFINE x == L!DoIf(~h.connection, "add", "connection")
                 y == <<L!Do("up", "connection")>>
      <3>1. x \in Seq(T) /\ Steps(x) \subseteq {L!Do("add", "connection")}
        <4>1. CASE ~h.connection
          BY <1>t, <2>1, <4>1, ShortSteps DEF L!DoIf
        <4>2. CASE h.connection
          BY <4>2, ShortSteps DEF L!DoIf
        <4> QED
          BY <4>1, <4>2
      <3>2. y \in Seq(T) /\ Steps(y) = {L!Do("up", "connection")}
        BY <1>t, <2>1, ShortSteps
      <3> HIDE DEF x, y, T
      <3>3. x \o y \in Seq(T) /\ Steps(x \o y) = Steps(x) \cup Steps(y)
        BY <3>1, <3>2, CatSteps
      <3>4. a1 = x \o y
        BY <2>1 DEF x, y
      <3> HIDE DEF a1
      <3> QED
        BY <2>1, <3>1, <3>2, <3>3, <3>4
    <2>2. CASE ~h.nm
      <3> DEFINE x == L!DoIf(~h.service.active, "start", "service")
                 y == <<L!Do("reload", "service"), L!Do("await", "bridge")>>
      <3>1. /\ x \in Seq(T) /\ Steps(x) \subseteq {L!Do("start", "service")}
            /\ ~h.service.active => L!Do("start", "service") \in Steps(x)
        <4>1. CASE ~h.service.active
          BY <1>t, <2>2, <4>1, ShortSteps DEF L!DoIf
        <4>2. CASE h.service.active
          BY <4>2, ShortSteps DEF L!DoIf
        <4> QED
          BY <4>1, <4>2
      <3>2. y \in Seq(T) /\ Steps(y) = {L!Do("reload", "service"), L!Do("await", "bridge")}
        BY <1>t, <2>2, ShortSteps
      <3> HIDE DEF x, y, T
      <3>3. x \o y \in Seq(T) /\ Steps(x \o y) = Steps(x) \cup Steps(y)
        BY <3>1, <3>2, CatSteps
      <3>4. a1 = x \o y
        BY <2>2 DEF x, y
      <3> HIDE DEF a1
      <3> QED
        BY <2>2, <3>1, <3>2, <3>3, <3>4
    <2> QED
      BY <1>0, <2>1, <2>2
  <1>a2. /\ a2 \in Seq(T) /\ Steps(a2) \subseteq {L!Do("override", "helper")}
         /\ L!Do("override", "helper") \in Steps(a2) <=> L!HelperNeedsOverride(h)
    <2>1. CASE L!HelperNeedsOverride(h)
      BY <1>t, <2>1, ShortSteps DEF L!DoIf
    <2>2. CASE ~L!HelperNeedsOverride(h)
      BY <2>2, ShortSteps DEF L!DoIf
    <2> QED
      BY <2>1, <2>2
  <1>a3. a3 \in Seq(T) /\ Steps(a3) = {L!Do("await", "bridge"), L!Do("smoke", "helper")}
    BY <1>t, ShortSteps
  <1>a4. a4 \in Seq(T) /\ Steps(a4) \subseteq {L!Do("enable", "service")}
    <2>1. CASE ~h.nm /\ ~h.service.enabled
      BY <1>t, <2>1, ShortSteps DEF L!DoIf
    <2>2. CASE ~(~h.nm /\ ~h.service.enabled)
      BY <2>2, ShortSteps DEF L!DoIf
    <2> QED
      BY <2>1, <2>2
  <1>s. L!PlacingSteps(h) = ((p1 \o p2) \o p3) \o p4 /\ L!ActivatingSteps(h) = ((a1 \o a2) \o a3) \o a4
    BY DEF L!PlacingSteps, L!ActivatingSteps
  <1> HIDE DEF T, p1, p2, p3, p4, a1, a2, a3, a4
  <1> DEFINE q1 == p1 \o p2
             q2 == q1 \o p3
             q3 == q2 \o p4
             c1 == a1 \o a2
             c2 == c1 \o a3
             c3 == c2 \o a4
  <1>1. q1 \in Seq(T) /\ Steps(q1) = Steps(p1) \cup Steps(p2)
    BY <1>p1, <1>p2, CatSteps
  <1>2. q2 \in Seq(T) /\ Steps(q2) = Steps(q1) \cup Steps(p3)
    <2> HIDE DEF q1
    <2> QED
      BY <1>1, <1>p3, CatSteps
  <1>3. q3 \in Seq(T) /\ Steps(q3) = Steps(q2) \cup Steps(p4)
    <2> HIDE DEF q1, q2
    <2> QED
      BY <1>2, <1>p4, CatSteps
  <1>4. c1 \in Seq(T) /\ Steps(c1) = Steps(a1) \cup Steps(a2)
    BY <1>a1, <1>a2, CatSteps
  <1>5. c2 \in Seq(T) /\ Steps(c2) = Steps(c1) \cup Steps(a3)
    <2> HIDE DEF c1
    <2> QED
      BY <1>4, <1>a3, CatSteps
  <1>6. c3 \in Seq(T) /\ Steps(c3) = Steps(c2) \cup Steps(a4)
    <2> HIDE DEF c1, c2
    <2> QED
      BY <1>5, <1>a4, CatSteps
  <1> HIDE DEF q1, q2, q3, c1, c2, c3
  <1>c. Steps(c3) \subseteq {L!Do("add", "connection"), L!Do("up", "connection"), L!Do("start", "service"),
                           L!Do("reload", "service"), L!Do("await", "bridge"), L!Do("override", "helper"),
                           L!Do("smoke", "helper"), L!Do("enable", "service")}
    BY <1>4, <1>5, <1>6, <1>a1, <1>a2, <1>a3, <1>a4
  <1>7. Ordered(q3 \o c3, A1, B1)
    <2>1. Ordered(q1, A1, B1) /\ Steps(q1) \cap B1 = {}
      BY <1>1, <1>p1, <1>p2, DoEqual, OrderedApart
    <2>2. Ordered(p3, A1, B1)
      BY DoEqual, ShortOrdered DEF p3
    <2>3. Ordered(q2, A1, B1)
      BY <1>1, <1>p3, <2>1, <2>2, CatOrdered DEF q2
    <2>4. Ordered(p4, A1, B1) /\ Steps(p4) \cap A1 = {}
      BY <1>p4, DoEqual, OrderedApart
    <2>5. Ordered(q3, A1, B1)
      BY <1>2, <1>p4, <2>3, <2>4, CatOrdered DEF q3
    <2>6. Ordered(c3, A1, B1) /\ Steps(c3) \cap A1 = {}
      BY <1>c, DoEqual, OrderedApart
    <2> QED
      BY <1>3, <1>6, <2>5, <2>6, CatOrdered
  <1>8. Ordered(q3 \o c3, A2, B2)
    <2>1. Ordered(q2, A2, B2) /\ Steps(q2) \cap B2 = {}
      <3>1. Steps(q2) \subseteq {L!Do("mkdir", "qemu"), L!Do("mkdir", "farrow"), L!Do("mkdir", "state"),
                                L!Do("write", "manifest")}
        BY <1>1, <1>2, <1>p1, <1>p2, <1>p3
      <3>2. Steps(q2) \cap B2 = {}
        BY <3>1, DoEqual DEF Own
      <3> QED
        BY <3>2, OrderedApart
    <2>2. Ordered(p4, A2, B2) /\ Steps(p4) \cap A2 = {}
      BY <1>p4, DoEqual, OrderedApart DEF Own
    <2>3. Ordered(q3, A2, B2)
      BY <1>2, <1>p4, <2>1, <2>2, CatOrdered DEF q3
    <2>4. Ordered(c3, A2, B2) /\ Steps(c3) \cap A2 = {}
      BY <1>c, DoEqual, OrderedApart
    <2> QED
      BY <1>3, <1>6, <2>3, <2>4, CatOrdered
  <1>9. q3 \o c3 \in Seq(T) /\ Steps(q3 \o c3) = Steps(q3) \cup Steps(c3)
    BY <1>3, <1>6, CatSteps
  <1>10. L!PlacingSteps(h) \o L!ActivatingSteps(h) = q3 \o c3
    BY <1>s DEF q1, q2, q3, c1, c2, c3
  <1>11. {L!Do("mkdir", "state"), L!Do("write", "manifest"), L!Do("write", "conf"), L!Do("await", "bridge")}
           \subseteq Steps(q3 \o c3)
    BY <1>9, <1>2, <1>3, <1>5, <1>6, <1>p3, <1>p4, <1>a3
  <1>12. \A p \in L!OwnFiles(h.nm) : L!Do("write", p) \in Steps(q3 \o c3)
    BY <1>9, <1>3, <1>p4
  <1>13. ~h.nm /\ ~h.service.active => L!Do("start", "service") \in Steps(q3 \o c3)
    BY <1>9, <1>4, <1>5, <1>6, <1>a1
  <1>14. L!Do("override", "helper") \in Steps(q3) => FALSE
    BY <1>1, <1>2, <1>3, <1>p1, <1>p2, <1>p3, <1>p4, DoEqual
  <1>15. L!Do("override", "helper") \in Steps(c3) <=> L!HelperNeedsOverride(h)
    <2>1. L!Do("override", "helper") \in Steps(c3) <=> L!Do("override", "helper") \in Steps(a2)
      <3>1. /\ L!Do("override", "helper") \notin Steps(a1)
            /\ L!Do("override", "helper") \notin Steps(a3)
            /\ L!Do("override", "helper") \notin Steps(a4)
        BY <1>a1, <1>a3, <1>a4, DoEqual
      <3> QED
        BY <1>4, <1>5, <1>6, <3>1
    <2> QED
      BY <2>1, <1>a2
  <1> QED
    BY <1>7, <1>8, <1>9, <1>10, <1>11, <1>12, <1>13, <1>14, <1>15 DEF T

LEMMA ShortListSteps ==
    ASSUME NEW T, NEW a \in T, NEW b \in T, NEW c \in T, NEW d \in T
    PROVE  <<a, b, c, d>> \in Seq(T) /\ Steps(<<a, b, c, d>>) = {a, b, c, d}
  BY DEF Steps

LEMMA TripleOrdered ==
    ASSUME NEW A, NEW B, NEW a, NEW b, NEW c,
           ~(a \in A /\ a \in B), ~(b \in A /\ b \in B), ~(c \in A /\ c \in B),
           ~(a \in B /\ b \in A), ~(a \in B /\ c \in A), ~(b \in B /\ c \in A)
    PROVE  Ordered(<<a, b, c>>, A, B)
  BY DEF Ordered

\* A part that has nothing to do with an order keeps it.
LEMMA CatApart ==
    ASSUME NEW T, NEW s \in Seq(T), NEW t \in Seq(T), NEW A, NEW B
    PROVE  /\ Ordered(s, A, B) /\ Steps(t) \cap A = {} => Ordered(s \o t, A, B)
           /\ Ordered(t, A, B) /\ Steps(s) \cap B = {} => Ordered(s \o t, A, B)
  <1>1. ASSUME Ordered(s, A, B), Steps(t) \cap A = {} PROVE Ordered(s \o t, A, B)
    BY <1>1, OrderedApart, CatOrdered
  <1>2. ASSUME Ordered(t, A, B), Steps(s) \cap B = {} PROVE Ordered(s \o t, A, B)
    BY <1>2, OrderedApart, CatOrdered
  <1> QED
    BY <1>1, <1>2

LEMMA HelperPart ==
    ASSUME NEW T, {L!Do("remove", "override"), L!Do("chown", "helper"), L!Do("chmod", "helper")} \subseteq T, NEW m
    PROVE  LET s == L!HelperSteps(m)
           IN /\ s \in Seq(T)
              /\ Steps(s) = IF m.override THEN {L!Do("remove", "override"), L!Do("chown", "helper"),
                                                L!Do("chmod", "helper")} ELSE {}
              /\ Ordered(s, {L!Do("remove", "override")}, {L!Do("chown", "helper"), L!Do("chmod", "helper")})
              /\ Ordered(s, {L!Do("chown", "helper")}, {L!Do("chmod", "helper")})
  <1>1. CASE m.override
    <2>1. L!HelperSteps(m) = <<L!Do("remove", "override"), L!Do("chown", "helper"), L!Do("chmod", "helper")>>
      BY <1>1 DEF L!HelperSteps
    <2>2. Ordered(L!HelperSteps(m), {L!Do("chown", "helper")}, {L!Do("chmod", "helper")})
      BY <2>1, DoEqual, TripleOrdered
    <2>3. Ordered(L!HelperSteps(m), {L!Do("remove", "override")}, {L!Do("chown", "helper"), L!Do("chmod", "helper")})
      BY <2>1, DoEqual, TripleOrdered
    <2> QED
      BY <1>1, <2>1, <2>2, <2>3, ShortSteps
  <1>2. CASE ~m.override
    <2>1. L!HelperSteps(m) = <<>>
      BY <1>2 DEF L!HelperSteps
    <2> QED
      BY <1>2, <2>1, ShortSteps, ShortOrdered
  <1> QED
    BY <1>1, <1>2

LEMMA ConfPart ==
    ASSUME NEW T, {L!Do("restore", "conf"), L!Do("unlink", "conf")} \subseteq T, NEW m
    PROVE  LET s == L!ConfStep(m)
           IN /\ s \in Seq(T)
              /\ Steps(s) = IF m.original.exists THEN {L!Do("restore", "conf")} ELSE {L!Do("unlink", "conf")}
  <1>1. CASE m.original.exists
    <2>1. L!ConfStep(m) = <<L!Do("restore", "conf")>>
      BY <1>1 DEF L!ConfStep
    <2> QED
      BY <1>1, <2>1, ShortSteps
  <1>2. CASE ~m.original.exists
    <2>1. L!ConfStep(m) = <<L!Do("unlink", "conf")>>
      BY <1>2 DEF L!ConfStep
    <2> QED
      BY <1>2, <2>1, ShortSteps
  <1> QED
    BY <1>1, <1>2

LEMMA DirPart ==
    ASSUME NEW T, {L!Do("rmdir", "state"), L!Do("rmdir", "qemu")} \subseteq T, NEW m,
           m.nm => L!Do("rmdir", "farrow") \in T
    PROVE  LET s == L!DirSteps(m)
           IN /\ s \in Seq(T)
              /\ \A d : L!Do("rmdir", d) \in Steps(s) <=> \/ d = "state"
                                                          \/ d = "qemu" /\ "qemu" \in m.created
                                                          \/ d = "farrow" /\ m.nm /\ "farrow" \in m.created
              /\ Steps(s) \subseteq {L!Do("rmdir", "state"), L!Do("rmdir", "qemu"), L!Do("rmdir", "farrow")}
  <1> DEFINE x == <<L!Do("rmdir", "state")>>
             y == L!DoIf(m.nm /\ "farrow" \in m.created, "rmdir", "farrow")
             z == L!DoIf("qemu" \in m.created, "rmdir", "qemu")
  <1>1. x \in Seq(T) /\ Steps(x) = {L!Do("rmdir", "state")}
    BY ShortSteps
  <1>2. /\ y \in Seq(T) /\ Steps(y) \subseteq {L!Do("rmdir", "farrow")}
        /\ L!Do("rmdir", "farrow") \in Steps(y) <=> m.nm /\ "farrow" \in m.created
    <2>1. CASE m.nm /\ "farrow" \in m.created
      BY <2>1, ShortSteps DEF L!DoIf
    <2>2. CASE ~(m.nm /\ "farrow" \in m.created)
      BY <2>2, ShortSteps DEF L!DoIf
    <2> QED
      BY <2>1, <2>2
  <1>3. /\ z \in Seq(T) /\ Steps(z) \subseteq {L!Do("rmdir", "qemu")}
        /\ L!Do("rmdir", "qemu") \in Steps(z) <=> "qemu" \in m.created
    <2>1. CASE "qemu" \in m.created
      BY <2>1, ShortSteps DEF L!DoIf
    <2>2. CASE "qemu" \notin m.created
      BY <2>2, ShortSteps DEF L!DoIf
    <2> QED
      BY <2>1, <2>2
  <1>4. L!DirSteps(m) = (x \o y) \o z
    BY DEF L!DirSteps
  <1> HIDE DEF x, y, z
  <1> DEFINE u == x \o y
  <1>5. u \in Seq(T) /\ Steps(u) = Steps(x) \cup Steps(y)
    BY <1>1, <1>2, CatSteps
  <1> HIDE DEF u
  <1>6. u \o z \in Seq(T) /\ Steps(u \o z) = Steps(u) \cup Steps(z)
    BY <1>3, <1>5, CatSteps
  <1>7. L!DirSteps(m) = u \o z
    BY <1>4 DEF u
  <1>8. ASSUME NEW d
        PROVE  L!Do("rmdir", d) \in Steps(u \o z) <=> \/ d = "state"
                                                      \/ d = "qemu" /\ "qemu" \in m.created
                                                      \/ d = "farrow" /\ m.nm /\ "farrow" \in m.created
    <2>1. L!Do("rmdir", d) \in Steps(x) <=> d = "state"
      BY <1>1, DoEqual
    <2>2. L!Do("rmdir", d) \in Steps(y) <=> d = "farrow" /\ m.nm /\ "farrow" \in m.created
      BY <1>2, DoEqual
    <2>3. L!Do("rmdir", d) \in Steps(z) <=> d = "qemu" /\ "qemu" \in m.created
      BY <1>3, DoEqual
    <2> QED
      BY <1>5, <1>6, <2>1, <2>2, <2>3
  <1> QED
    BY <1>1, <1>2, <1>3, <1>5, <1>6, <1>7, <1>8

LEMMA Switches ==
    ASSUME NEW on \in BOOLEAN
    PROVE  /\ {Toggle(on), Untoggle(on)} = {"enable", "disable"} /\ Toggle(on) # Untoggle(on)
           /\ {Switch(on), Unswitch(on)} = {"start", "stop"} /\ Switch(on) # Unswitch(on)
           /\ on => Toggle(on) = "enable" /\ Switch(on) = "start"
           /\ ~on => Toggle(on) = "disable" /\ Switch(on) = "stop"
  BY DEF Toggle, Untoggle, Switch, Unswitch

LEMMA UnitPart ==
    ASSUME NEW T, {L!Do("enable", "service"), L!Do("disable", "service"), L!Do("start", "service"),
                   L!Do("stop", "service"), L!Do("enable", "others"), L!Do("disable", "others"),
                   L!Do("start", "others"), L!Do("stop", "others")} \subseteq T,
           NEW m \in L!Manifests
    PROVE  LET s == L!UnitSteps(m)
           IN /\ s \in Seq(T)
              /\ Steps(s) \subseteq {L!Do(a, u) : a \in {"enable", "disable", "start", "stop"},
                                                  u \in {"service", "others"}}
              /\ {L!Do(Toggle(m.service.enabled), "service"), L!Do(Toggle(m.others.enabled), "others"),
                  L!Do(Switch(m.service.active), "service"), L!Do(Switch(m.others.active), "others")} \subseteq Steps(s)
              /\ UnitsOrdered(s, m)
  <1> DEFINE se == m.service.enabled
             oe == m.others.enabled
             sa == m.service.active
             oa == m.others.active
             x == <<L!Do("disable", "service")>>
             y == L!DoIf(se, "enable", "service")
             z == <<L!Do(Toggle(oe), "others"), L!Do(Switch(sa), "service"), L!Do(Switch(oa), "others")>>
             u == x \o y
             A1 == {L!Do(Untoggle(se), "service")}
             B1 == {L!Do(Toggle(se), "service")}
             A2 == {L!Do(Untoggle(oe), "others"), L!Do("enable", "service"), L!Do("disable", "service")}
             B2 == {L!Do(Toggle(oe), "others")}
             A3 == {L!Do(Unswitch(sa), "service")}
             B3 == {L!Do(Switch(sa), "service")}
             A4 == {L!Do(Unswitch(oa), "others"), L!Do("start", "service")}
             B4 == {L!Do(Switch(oa), "others")}
  <1>1. se \in BOOLEAN /\ oe \in BOOLEAN /\ sa \in BOOLEAN /\ oa \in BOOLEAN
    BY DEF L!Manifests, L!Unit
  <1>2. L!UnitSteps(m) = u \o z
    BY DEF L!UnitSteps, Toggle, Switch
  <1> HIDE DEF se, oe, sa, oa
  <1>3. /\ Toggle(se) \in {"enable", "disable"} /\ Untoggle(se) \in {"enable", "disable"} /\ Toggle(se) # Untoggle(se)
        /\ Toggle(oe) \in {"enable", "disable"} /\ Untoggle(oe) \in {"enable", "disable"} /\ Toggle(oe) # Untoggle(oe)
        /\ Switch(sa) \in {"start", "stop"} /\ Unswitch(sa) \in {"start", "stop"} /\ Switch(sa) # Unswitch(sa)
        /\ Switch(oa) \in {"start", "stop"} /\ Unswitch(oa) \in {"start", "stop"} /\ Switch(oa) # Unswitch(oa)
        /\ (se => Toggle(se) = "enable") /\ (~se => Toggle(se) = "disable")
    BY <1>1, Switches
  <1>4. x \in Seq(T) /\ Steps(x) = {L!Do("disable", "service")}
    BY ShortSteps
  <1>5. y \in Seq(T) /\ Steps(y) = IF se THEN {L!Do("enable", "service")} ELSE {}
    <2>1. CASE se
      BY <2>1, ShortSteps DEF L!DoIf
    <2>2. CASE ~se
      BY <2>2, ShortSteps DEF L!DoIf
    <2> QED
      BY <2>1, <2>2
  <1>6. z \in Seq(T)
        /\ Steps(z) = {L!Do(Toggle(oe), "others"), L!Do(Switch(sa), "service"), L!Do(Switch(oa), "others")}
    <2>1. L!Do(Toggle(oe), "others") \in T /\ L!Do(Switch(sa), "service") \in T /\ L!Do(Switch(oa), "others") \in T
      BY <1>3
    <2> QED
      BY <2>1, ShortSteps
  <1>7. Ordered(z, A4, B4)
    <2>1. /\ L!Do(Toggle(oe), "others") \notin A4 \cup B4 /\ L!Do(Switch(sa), "service") \notin B4
          /\ L!Do(Switch(oa), "others") \notin A4
      BY <1>3, DoEqual
    <2> HIDE DEF A4, B4
    <2> QED
      BY <2>1, TripleOrdered
  <1>8. u \in Seq(T) /\ Steps(u) = Steps(x) \cup Steps(y)
    BY <1>4, <1>5, CatSteps, ZenonT(30)
  <1>9. Ordered(u, A1, B1)
    <2>1. CASE se
      <3>1. Steps(x) \cap B1 = {} /\ Steps(y) \cap A1 = {}
        <4>1. Toggle(se) = "enable" /\ Untoggle(se) # "enable" /\ Steps(y) = {L!Do("enable", "service")}
          BY <1>3, <1>5, <2>1
        <4>2. Steps(x) \cap B1 = {}
          BY <1>4, <4>1, DoEqual
        <4>3. Steps(y) \cap A1 = {}
          BY <4>1, DoEqual
        <4> QED
          BY <4>2, <4>3
      <3> HIDE DEF A1, B1, x, y
      <3> QED
        BY <1>4, <1>5, <3>1, OrderedApart, CatOrdered
    <2>2. CASE ~se
      <3>1. Steps(u) \cap A1 = {}
        BY <1>3, <1>4, <1>5, <1>8, <2>2, DoEqual
      <3> QED
        BY <3>1, OrderedApart
    <2> QED
      BY <2>1, <2>2
  <1>10. Steps(u) \subseteq {L!Do("disable", "service"), L!Do("enable", "service")}
    BY <1>4, <1>5, <1>8
  <1> HIDE DEF x, y, z, u
  <1>11. Ordered(u \o z, A1, B1)
    <2>1. Steps(z) \cap A1 = {}
      BY <1>3, <1>6, DoEqual
    <2> QED
      BY <1>6, <1>8, <1>9, <2>1, CatApart
  <1>12. Ordered(u \o z, A2, B2)
    <2>1. Steps(u) \cap B2 = {} /\ Steps(z) \cap A2 = {}
      BY <1>3, <1>6, <1>10, DoEqual
    <2> QED
      BY <1>6, <1>8, <2>1, OrderedApart, CatOrdered
  <1>13. Ordered(u \o z, A3, B3)
    <2>1. Steps(u) \cap B3 = {} /\ Steps(z) \cap A3 = {}
      BY <1>3, <1>6, <1>10, DoEqual
    <2> QED
      BY <1>6, <1>8, <2>1, OrderedApart, CatOrdered
  <1>14. Ordered(u \o z, A4, B4)
    <2>1. Steps(u) \cap B4 = {}
      BY <1>3, <1>10, DoEqual
    <2> QED
      BY <1>6, <1>7, <1>8, <2>1, CatApart
  <1>15. UnitsOrdered(u \o z, m)
    BY <1>11, <1>12, <1>13, <1>14 DEF UnitsOrdered, se, oe, sa, oa
  <1>16. u \o z \in Seq(T) /\ Steps(u \o z) = Steps(u) \cup Steps(z)
    BY <1>6, <1>8, CatSteps
  <1>17. L!Do(Toggle(se), "service") \in Steps(u)
    BY <1>3, <1>4, <1>5, <1>8
  <1>18. Steps(u \o z) \subseteq {L!Do(a, b) : a \in {"enable", "disable", "start", "stop"}, b \in {"service", "others"}}
    BY <1>3, <1>6, <1>10, <1>16
  <1> QED
    BY <1>2, <1>6, <1>15, <1>16, <1>17, <1>18 DEF se, oe, sa, oa

RemovalPlanned(s, m) ==
  /\ s \in Seq(RemovalSteps(m.nm))
  /\ RemovalOrdered(s)
  /\ L!Do("unlink", "conf") \in Steps(s) => ~m.original.exists
  /\ L!Do("restore", "conf") \in Steps(s) \/ L!Do("unlink", "conf") \in Steps(s)
  /\ m.override => L!Do("remove", "override") \in Steps(s) /\ L!Do("chmod", "helper") \in Steps(s)
  /\ ~m.override => Steps(s) \cap {L!Do("remove", "override"), L!Do("chown", "helper"), L!Do("chmod", "helper")} = {}
  /\ \A d : L!Do("rmdir", d) \in Steps(s) => d = "state" \/ d \in m.created
  /\ \A d \in m.created : L!Do("rmdir", d) \in Steps(s) \/ (d = "farrow" /\ ~m.nm)
  /\ \A p \in L!OwnFiles(m.nm) : L!Do("unlink", p) \in Steps(s)
  /\ IF m.nm THEN L!Do("delete", "connection") \in Steps(s) ELSE L!Do("delete", "bridge") \in Steps(s)
  /\ ~m.nm => /\ UnitsOrdered(s, m)
              /\ {L!Do(Toggle(m.service.enabled), "service"), L!Do(Toggle(m.others.enabled), "others"),
                  L!Do(Switch(m.service.active), "service"), L!Do(Switch(m.others.active), "others")} \subseteq Steps(s)

LEMMA RemovalPlanNM ==
    ASSUME NEW m \in L!Manifests, m.nm
    PROVE  RemovalPlanned(L!RemovingSteps(m), m)
  <1> DEFINE T == RemovalSteps(m.nm)
             N == <<L!Do("delete", "connection")>>
             H == L!HelperSteps(m)
             C == L!ConfStep(m)
             P == <<L!Do("unlink", "public")>>
             F == IF m.original.exists THEN C \o P ELSE P \o C
             M == <<L!Do("unlink", "manifest")>>
             R == L!DirSteps(m)
             A0 == {L!Do("remove", "override")}
             B0 == {L!Do("chown", "helper"), L!Do("chmod", "helper")}
             A1 == {L!Do("chown", "helper")}
             B1 == {L!Do("chmod", "helper")}
             A2 == {L!Do("unlink", "netdev")}
             B2 == {L!Do("reload", "service"), L!Do("start", "service"), L!Do("start", "others")}
             A3 == {L!Do("unlink", p) : p \in Own} \cup {L!Do("remove", "override")}
             B3 == {L!Do("unlink", "manifest")}
  <1>t. {L!Do("remove", "override"), L!Do("chown", "helper"), L!Do("chmod", "helper"), L!Do("restore", "conf"),
         L!Do("unlink", "conf"), L!Do("unlink", "manifest"), L!Do("rmdir", "state"), L!Do("rmdir", "qemu"),
         L!Do("delete", "connection"), L!Do("unlink", "public"), L!Do("rmdir", "farrow")} \subseteq T
    BY DEF RemovalSteps
  <1>c. m.created \subseteq {"qemu", "farrow"}
    BY DEF L!Manifests
  <1>e. L!RemovingSteps(m) = (((N \o H) \o F) \o M) \o R
    BY DEF L!RemovingSteps
  <1> HIDE DEF T
  <1>1. N \in Seq(T) /\ Steps(N) = {L!Do("delete", "connection")}
    BY <1>t, ShortSteps
  <1>2. /\ H \in Seq(T)
        /\ Steps(H) = IF m.override THEN {L!Do("remove", "override"), L!Do("chown", "helper"), L!Do("chmod", "helper")}
                      ELSE {}
        /\ Ordered(H, A0, B0) /\ Ordered(H, A1, B1)
    BY <1>t, HelperPart
  <1>3. /\ C \in Seq(T)
        /\ Steps(C) = IF m.original.exists THEN {L!Do("restore", "conf")} ELSE {L!Do("unlink", "conf")}
    BY <1>t, ConfPart
  <1>4. P \in Seq(T) /\ Steps(P) = {L!Do("unlink", "public")}
    BY <1>t, ShortSteps
  <1>5. M \in Seq(T) /\ Steps(M) = {L!Do("unlink", "manifest")}
    BY <1>t, ShortSteps
  <1>6. /\ R \in Seq(T)
        /\ \A d : L!Do("rmdir", d) \in Steps(R) <=> \/ d = "state"
                                                    \/ d = "qemu" /\ "qemu" \in m.created
                                                    \/ d = "farrow" /\ m.nm /\ "farrow" \in m.created
        /\ Steps(R) \subseteq {L!Do("rmdir", "state"), L!Do("rmdir", "qemu"), L!Do("rmdir", "farrow")}
    BY <1>t, DirPart
  <1> HIDE DEF N, H, C, P, M, R
  <1>7. F \in Seq(T) /\ Steps(F) = Steps(C) \cup Steps(P)
    <2>1. C \o P \in Seq(T) /\ P \o C \in Seq(T) /\ Steps(C \o P) = Steps(C) \cup Steps(P)
          /\ Steps(P \o C) = Steps(P) \cup Steps(C)
      BY <1>3, <1>4, CatSteps
    <2>2. F = C \o P \/ F = P \o C
      OBVIOUS
    <2> QED
      BY <2>1, <2>2
  <1> HIDE DEF F
  <1> DEFINE X1 == N \o H
             X2 == X1 \o F
             X3 == X2 \o M
             X4 == X3 \o R
  <1>8. X1 \in Seq(T) /\ Steps(X1) = Steps(N) \cup Steps(H)
    BY <1>1, <1>2, CatSteps
  <1>9. X2 \in Seq(T) /\ Steps(X2) = Steps(X1) \cup Steps(F)
    <2> HIDE DEF X1
    <2> QED
      BY <1>7, <1>8, CatSteps
  <1>10. X3 \in Seq(T) /\ Steps(X3) = Steps(X2) \cup Steps(M)
    <2> HIDE DEF X1, X2
    <2> QED
      BY <1>5, <1>9, CatSteps
  <1>11. X4 \in Seq(T) /\ Steps(X4) = Steps(X3) \cup Steps(R)
    <2> HIDE DEF X1, X2, X3
    <2> QED
      BY <1>6, <1>10, CatSteps
  <1> HIDE DEF X1, X2, X3, X4
  <1>12. Steps(H) \subseteq {L!Do("remove", "override"), L!Do("chown", "helper"), L!Do("chmod", "helper")}
    BY <1>2
  <1>13. Steps(F) \subseteq {L!Do("restore", "conf"), L!Do("unlink", "conf"), L!Do("unlink", "public")}
    BY <1>3, <1>4, <1>7
  <1>0. Ordered(X4, A0, B0)
    <2>1. Steps(N) \cap B0 = {} /\ Steps(F) \cap A0 = {} /\ Steps(M) \cap A0 = {} /\ Steps(R) \cap A0 = {}
      BY <1>1, <1>5, <1>6, <1>13, DoEqual
    <2>2. Ordered(X1, A0, B0)
      BY <1>1, <1>2, <2>1, CatApart DEF X1
    <2>3. Ordered(X2, A0, B0)
      BY <1>7, <1>8, <2>1, <2>2, CatApart DEF X2
    <2>4. Ordered(X3, A0, B0)
      BY <1>5, <1>9, <2>1, <2>3, CatApart DEF X3
    <2> QED
      BY <1>6, <1>10, <2>1, <2>4, CatApart DEF X4
  <1>14. Ordered(X4, A1, B1)
    <2>1. Steps(N) \cap B1 = {} /\ Steps(F) \cap A1 = {} /\ Steps(M) \cap A1 = {} /\ Steps(R) \cap A1 = {}
      BY <1>1, <1>5, <1>6, <1>13, DoEqual
    <2>2. Ordered(X1, A1, B1)
      BY <1>1, <1>2, <2>1, CatApart DEF X1
    <2>3. Ordered(X2, A1, B1)
      BY <1>7, <1>8, <2>1, <2>2, CatApart DEF X2
    <2>4. Ordered(X3, A1, B1)
      BY <1>5, <1>9, <2>1, <2>3, CatApart DEF X3
    <2> QED
      BY <1>6, <1>10, <2>1, <2>4, CatApart DEF X4
  <1>15. Ordered(X4, A2, B2)
    <2>1. Steps(X4) \subseteq {L!Do("delete", "connection"), L!Do("remove", "override"), L!Do("chown", "helper"),
                              L!Do("chmod", "helper"), L!Do("restore", "conf"), L!Do("unlink", "conf"),
                              L!Do("unlink", "public"), L!Do("unlink", "manifest"), L!Do("rmdir", "state"),
                              L!Do("rmdir", "qemu"), L!Do("rmdir", "farrow")}
      BY <1>1, <1>5, <1>6, <1>8, <1>9, <1>10, <1>11, <1>12, <1>13
    <2>2. Steps(X4) \cap A2 = {}
      BY <2>1, DoEqual
    <2> QED
      BY <2>2, OrderedApart
  <1>16. Ordered(X4, A3, B3)
    <2>1. Steps(X2) \cap B3 = {} /\ Steps(M) \cap A3 = {} /\ Steps(R) \cap A3 = {}
      <3>1. Steps(X2) \subseteq {L!Do("delete", "connection"), L!Do("remove", "override"), L!Do("chown", "helper"),
                                L!Do("chmod", "helper"), L!Do("restore", "conf"), L!Do("unlink", "conf"),
                                L!Do("unlink", "public")}
        BY <1>1, <1>8, <1>9, <1>12, <1>13
      <3>2. Steps(X2) \cap B3 = {}
        BY <3>1, DoEqual
      <3>3. Steps(M) \cap A3 = {}
        BY <1>5, DoEqual DEF Own
      <3>4. Steps(R) \cap A3 = {}
        BY <1>6, DoEqual
      <3> QED
        BY <3>2, <3>3, <3>4
    <2>2. Ordered(X3, A3, B3)
      BY <1>5, <1>9, <2>1, OrderedApart, CatOrdered DEF X3
    <2> QED
      BY <1>6, <1>10, <2>1, <2>2, CatApart DEF X4
  <1>17. \A d : L!Do("rmdir", d) \in Steps(X4) <=> L!Do("rmdir", d) \in Steps(R)
    <2>1. ASSUME NEW d PROVE L!Do("rmdir", d) \notin Steps(X3)
      <3>1. L!Do("rmdir", d) \notin Steps(N) /\ L!Do("rmdir", d) \notin Steps(M)
        BY <1>1, <1>5, DoEqual
      <3>2. L!Do("rmdir", d) \notin Steps(H) /\ L!Do("rmdir", d) \notin Steps(F)
        BY <1>12, <1>13, DoEqual
      <3> QED
        BY <1>8, <1>9, <1>10, <3>1, <3>2
    <2> QED
      BY <1>11, <2>1
  <1>18. L!Do("unlink", "conf") \in Steps(X4) => ~m.original.exists
    <2>1. L!Do("unlink", "conf") \notin Steps(N) /\ L!Do("unlink", "conf") \notin Steps(H)
          /\ L!Do("unlink", "conf") \notin Steps(P)
          /\ L!Do("unlink", "conf") \notin Steps(M) /\ L!Do("unlink", "conf") \notin Steps(R)
      <3>1. L!Do("unlink", "conf") \notin Steps(N)
        BY <1>1, DoEqual
      <3>2. L!Do("unlink", "conf") \notin Steps(H)
        BY <1>12, DoEqual
      <3>3. L!Do("unlink", "conf") \notin Steps(P)
        BY <1>4, DoEqual
      <3>4. L!Do("unlink", "conf") \notin Steps(M)
        BY <1>5, DoEqual
      <3>5. L!Do("unlink", "conf") \notin Steps(R)
        BY <1>6, DoEqual
      <3> QED
        BY <3>1, <3>2, <3>3, <3>4, <3>5
    <2>2. L!Do("unlink", "conf") \in Steps(C) => ~m.original.exists
      BY <1>3, DoEqual
    <2> QED
      BY <2>1, <2>2, <1>7, <1>8, <1>9, <1>10, <1>11
  <1>19. L!Do("restore", "conf") \in Steps(X4) \/ L!Do("unlink", "conf") \in Steps(X4)
    BY <1>3, <1>7, <1>9, <1>10, <1>11
  <1>20. m.override => L!Do("remove", "override") \in Steps(X4) /\ L!Do("chmod", "helper") \in Steps(X4)
    BY <1>2, <1>8, <1>9, <1>10, <1>11
  <1>21. ASSUME ~m.override
         PROVE  Steps(X4) \cap {L!Do("remove", "override"), L!Do("chown", "helper"), L!Do("chmod", "helper")} = {}
    <2>1. Steps(X4) \subseteq {L!Do("delete", "connection"), L!Do("restore", "conf"), L!Do("unlink", "conf"),
                              L!Do("unlink", "public"), L!Do("unlink", "manifest"), L!Do("rmdir", "state"),
                              L!Do("rmdir", "qemu"), L!Do("rmdir", "farrow")}
      BY <1>1, <1>2, <1>5, <1>6, <1>8, <1>9, <1>10, <1>11, <1>13, <1>21
    <2> QED
      BY <2>1, DoEqual
  <1>22. L!OwnFiles(m.nm) = {"public"} /\ L!Do("unlink", "public") \in Steps(X4)
    BY <1>4, <1>7, <1>9, <1>10, <1>11 DEF L!OwnFiles
  <1>23. L!Do("delete", "connection") \in Steps(X4)
    BY <1>1, <1>8, <1>9, <1>10, <1>11
  <1>24. L!RemovingSteps(m) = X4
    BY <1>e DEF X1, X2, X3, X4
  <1>25. RemovalOrdered(X4)
    BY <1>0, <1>14, <1>15, <1>16 DEF RemovalOrdered
  <1> QED
    BY <1>c, <1>6, <1>11, <1>17, <1>18, <1>19, <1>20, <1>21, <1>22, <1>23, <1>24, <1>25 DEF RemovalPlanned, T

LEMMA RemovalPlanNetworkd ==
    ASSUME NEW m \in L!Manifests, ~m.nm
    PROVE  RemovalPlanned(L!RemovingSteps(m), m)
  <1> DEFINE T == RemovalSteps(m.nm)
             N == <<L!Do("delete", "bridge"), L!Do("unlink", "netdev"), L!Do("unlink", "network"),
                    L!Do("reload", "service")>>
             H == L!HelperSteps(m)
             C == L!ConfStep(m)
             U == L!UnitSteps(m)
             M == <<L!Do("unlink", "manifest")>>
             R == L!DirSteps(m)
             Unts == {L!Do(a, u) : a \in {"enable", "disable", "start", "stop"}, u \in {"service", "others"}}
             A0 == {L!Do("remove", "override")}
             B0 == {L!Do("chown", "helper"), L!Do("chmod", "helper")}
             A1 == {L!Do("chown", "helper")}
             B1 == {L!Do("chmod", "helper")}
             A2 == {L!Do("unlink", "netdev")}
             B2 == {L!Do("reload", "service"), L!Do("start", "service"), L!Do("start", "others")}
             A3 == {L!Do("unlink", p) : p \in Own} \cup {L!Do("remove", "override")}
             B3 == {L!Do("unlink", "manifest")}
  <1>t. {L!Do("remove", "override"), L!Do("chown", "helper"), L!Do("chmod", "helper"), L!Do("restore", "conf"),
         L!Do("unlink", "conf"), L!Do("unlink", "manifest"), L!Do("rmdir", "state"), L!Do("rmdir", "qemu"),
         L!Do("delete", "bridge"), L!Do("unlink", "netdev"), L!Do("unlink", "network"), L!Do("reload", "service"),
         L!Do("enable", "service"), L!Do("disable", "service"), L!Do("start", "service"), L!Do("stop", "service"),
         L!Do("enable", "others"), L!Do("disable", "others"), L!Do("start", "others"),
         L!Do("stop", "others")} \subseteq T
    BY DEF RemovalSteps
  <1>c. m.created \subseteq {"qemu", "farrow"}
    BY DEF L!Manifests
  <1>e. L!RemovingSteps(m) = ((((N \o H) \o C) \o U) \o M) \o R
    BY DEF L!RemovingSteps
  <1> HIDE DEF T
  <1>1. /\ N \in Seq(T)
        /\ Steps(N) = {L!Do("delete", "bridge"), L!Do("unlink", "netdev"), L!Do("unlink", "network"),
                       L!Do("reload", "service")}
    BY <1>t, ShortListSteps
  <1>2. /\ H \in Seq(T)
        /\ Steps(H) = IF m.override THEN {L!Do("remove", "override"), L!Do("chown", "helper"), L!Do("chmod", "helper")}
                      ELSE {}
        /\ Ordered(H, A0, B0) /\ Ordered(H, A1, B1)
    BY <1>t, HelperPart
  <1>3. /\ C \in Seq(T)
        /\ Steps(C) = IF m.original.exists THEN {L!Do("restore", "conf")} ELSE {L!Do("unlink", "conf")}
    BY <1>t, ConfPart
  <1>4. /\ U \in Seq(T) /\ Steps(U) \subseteq Unts
        /\ {L!Do(Toggle(m.service.enabled), "service"), L!Do(Toggle(m.others.enabled), "others"),
            L!Do(Switch(m.service.active), "service"), L!Do(Switch(m.others.active), "others")} \subseteq Steps(U)
        /\ UnitsOrdered(U, m)
    BY <1>t, UnitPart
  <1>5. M \in Seq(T) /\ Steps(M) = {L!Do("unlink", "manifest")}
    BY <1>t, ShortSteps
  <1>6. /\ R \in Seq(T)
        /\ \A d : L!Do("rmdir", d) \in Steps(R) <=> \/ d = "state"
                                                    \/ d = "qemu" /\ "qemu" \in m.created
                                                    \/ d = "farrow" /\ m.nm /\ "farrow" \in m.created
        /\ Steps(R) \subseteq {L!Do("rmdir", "state"), L!Do("rmdir", "qemu"), L!Do("rmdir", "farrow")}
    BY <1>t, DirPart
  <1>7. Ordered(N, A2, B2)
    BY DoEqual DEF Ordered
  <1> HIDE DEF N, H, C, U, M, R
  <1> DEFINE X1 == N \o H
             X2 == X1 \o C
             X3 == X2 \o U
             X4 == X3 \o M
             X5 == X4 \o R
  <1>8. X1 \in Seq(T) /\ Steps(X1) = Steps(N) \cup Steps(H)
    BY <1>1, <1>2, CatSteps
  <1>9. X2 \in Seq(T) /\ Steps(X2) = Steps(X1) \cup Steps(C)
    <2> HIDE DEF X1
    <2> QED
      BY <1>3, <1>8, CatSteps
  <1>10. X3 \in Seq(T) /\ Steps(X3) = Steps(X2) \cup Steps(U)
    <2> HIDE DEF X1, X2
    <2> QED
      BY <1>4, <1>9, CatSteps
  <1>11. X4 \in Seq(T) /\ Steps(X4) = Steps(X3) \cup Steps(M)
    <2> HIDE DEF X1, X2, X3
    <2> QED
      BY <1>5, <1>10, CatSteps
  <1>12. X5 \in Seq(T) /\ Steps(X5) = Steps(X4) \cup Steps(R)
    <2> HIDE DEF X1, X2, X3, X4
    <2> QED
      BY <1>6, <1>11, CatSteps
  <1> HIDE DEF X1, X2, X3, X4, X5
  <1>13. Steps(H) \subseteq {L!Do("remove", "override"), L!Do("chown", "helper"), L!Do("chmod", "helper")}
    BY <1>2
  <1>14. Steps(C) \subseteq {L!Do("restore", "conf"), L!Do("unlink", "conf")}
    BY <1>3
  \* An order of which only one part has both sides, or of which the earlier
  \* parts have only the first.
  <1>a. ASSUME NEW A, NEW B, Steps(N) \cap B = {} \/ Ordered(N, A, B), Steps(H) \cap A = {} \/ Steps(N) \cap B = {},
               Ordered(H, A, B), Ordered(C, A, B), Ordered(U, A, B), Ordered(M, A, B), Ordered(R, A, B),
               Steps(C) \cap A = {} \/ Steps(X1) \cap B = {}, Steps(U) \cap A = {} \/ Steps(X2) \cap B = {},
               Steps(M) \cap A = {} \/ Steps(X3) \cap B = {}, Steps(R) \cap A = {} \/ Steps(X4) \cap B = {}
        PROVE  Ordered(X5, A, B)
    <2>1. Ordered(X1, A, B)
      BY <1>1, <1>2, <1>a, OrderedApart, CatOrdered DEF X1
    <2>2. Ordered(X2, A, B)
      BY <1>3, <1>8, <1>a, <2>1, CatOrdered DEF X2
    <2>3. Ordered(X3, A, B)
      BY <1>4, <1>9, <1>a, <2>2, CatOrdered DEF X3
    <2>4. Ordered(X4, A, B)
      BY <1>5, <1>10, <1>a, <2>3, CatOrdered DEF X4
    <2> QED
      BY <1>6, <1>11, <1>a, <2>4, CatOrdered DEF X5
  <1>0. Ordered(X5, A0, B0)
    <2>1. Steps(N) \cap B0 = {}
      BY <1>1, DoEqual
    <2>2. Steps(C) \cap A0 = {} /\ Steps(U) \cap A0 = {} /\ Steps(M) \cap A0 = {} /\ Steps(R) \cap A0 = {}
      BY <1>4, <1>5, <1>6, <1>14, DoEqual
    <2> HIDE DEF A0, B0
    <2> QED
      BY <1>a, <1>2, <2>1, <2>2, OrderedApart
  <1>15. Ordered(X5, A1, B1)
    <2>1. Steps(N) \cap B1 = {}
      BY <1>1, DoEqual
    <2>2. Steps(C) \cap A1 = {} /\ Steps(U) \cap A1 = {} /\ Steps(M) \cap A1 = {} /\ Steps(R) \cap A1 = {}
      BY <1>4, <1>5, <1>6, <1>14, DoEqual
    <2> HIDE DEF A1, B1
    <2> QED
      BY <1>a, <1>2, <2>1, <2>2, OrderedApart
  <1>16. Ordered(X5, A2, B2)
    <2>1. Steps(H) \cap A2 = {}
      BY <1>13, DoEqual
    <2>2. Steps(C) \cap A2 = {} /\ Steps(U) \cap A2 = {}
      BY <1>4, <1>14, DoEqual
    <2>3. Steps(M) \cap A2 = {}
      BY <1>5, DoEqual
    <2>4. Steps(R) \cap A2 = {}
      BY <1>6, DoEqual
    <2> HIDE DEF A2, B2
    <2> QED
      BY <1>a, <1>7, <2>1, <2>2, <2>3, <2>4, OrderedApart
  <1>17. Ordered(X5, A3, B3)
    <2>1. Steps(N) \cap B3 = {}
      BY <1>1, DoEqual
    <2>2. Steps(H) \cap B3 = {} /\ Steps(C) \cap B3 = {}
      BY <1>13, <1>14, DoEqual
    <2>3. Steps(U) \cap B3 = {} /\ Steps(U) \cap A3 = {}
      BY <1>4, DoEqual
    <2>4. Steps(M) \cap A3 = {} /\ Steps(R) \cap A3 = {}
      BY <1>5, <1>6, DoEqual DEF Own
    <2>5. Steps(X1) \cap B3 = {} /\ Steps(X2) \cap B3 = {}
      BY <1>8, <1>9, <2>1, <2>2
    <2> HIDE DEF A3, B3
    <2> QED
      BY <1>a, <2>1, <2>2, <2>3, <2>4, <2>5, OrderedApart
  <1>18. ASSUME NEW A, A \subseteq Unts, NEW B, B \subseteq Unts, Ordered(U, A, B) PROVE Ordered(X5, A, B)
    <2>1. Steps(N) \cap Unts = {}
      BY <1>1, DoEqual
    <2>2. Steps(H) \cap Unts = {} /\ Steps(C) \cap Unts = {} /\ Steps(M) \cap Unts = {} /\ Steps(R) \cap Unts = {}
      BY <1>5, <1>6, <1>13, <1>14, DoEqual
    <2> HIDE DEF Unts
    <2>3. Steps(X1) \cap B = {} /\ Steps(X2) \cap B = {}
      BY <1>8, <1>9, <1>18, <2>1, <2>2
    <2>4. Steps(H) \cap A = {} /\ Steps(C) \cap A = {} /\ Steps(M) \cap A = {} /\ Steps(R) \cap A = {}
          /\ Steps(N) \cap B = {}
      BY <1>18, <2>1, <2>2
    <2> QED
      BY <1>a, <1>18, <2>3, <2>4, OrderedApart
  <1>19. UnitsOrdered(X5, m)
    <2>1. m.service.enabled \in BOOLEAN /\ m.others.enabled \in BOOLEAN /\ m.service.active \in BOOLEAN
          /\ m.others.active \in BOOLEAN
      BY DEF L!Manifests, L!Unit
    <2>2. /\ Toggle(m.service.enabled) \in {"enable", "disable"} /\ Untoggle(m.service.enabled) \in {"enable", "disable"}
          /\ Toggle(m.others.enabled) \in {"enable", "disable"} /\ Untoggle(m.others.enabled) \in {"enable", "disable"}
          /\ Switch(m.service.active) \in {"start", "stop"} /\ Unswitch(m.service.active) \in {"start", "stop"}
          /\ Switch(m.others.active) \in {"start", "stop"} /\ Unswitch(m.others.active) \in {"start", "stop"}
      BY <2>1, Switches
    <2>3. {L!Do(Untoggle(m.service.enabled), "service")} \subseteq Unts
          /\ {L!Do(Toggle(m.service.enabled), "service")} \subseteq Unts
      BY <2>2
    <2>4. {L!Do(Untoggle(m.others.enabled), "others"), L!Do("enable", "service"), L!Do("disable", "service")}
            \subseteq Unts
          /\ {L!Do(Toggle(m.others.enabled), "others")} \subseteq Unts
      BY <2>2
    <2>5. {L!Do(Unswitch(m.service.active), "service")} \subseteq Unts
          /\ {L!Do(Switch(m.service.active), "service")} \subseteq Unts
      BY <2>2
    <2>6. {L!Do(Unswitch(m.others.active), "others"), L!Do("start", "service")} \subseteq Unts
          /\ {L!Do(Switch(m.others.active), "others")} \subseteq Unts
      BY <2>2
    <2> HIDE DEF Unts
    <2> QED
      BY <1>4, <1>18, <2>3, <2>4, <2>5, <2>6 DEF UnitsOrdered
  <1>20. \A d : L!Do("rmdir", d) \in Steps(X5) <=> L!Do("rmdir", d) \in Steps(R)
    <2>1. ASSUME NEW d PROVE L!Do("rmdir", d) \notin Steps(X4)
      <3>1. L!Do("rmdir", d) \notin Steps(N) /\ L!Do("rmdir", d) \notin Steps(M)
        BY <1>1, <1>5, DoEqual
      <3>2. L!Do("rmdir", d) \notin Steps(H) /\ L!Do("rmdir", d) \notin Steps(C)
        BY <1>13, <1>14, DoEqual
      <3>3. L!Do("rmdir", d) \notin Steps(U)
        BY <1>4, DoEqual
      <3> QED
        BY <1>8, <1>9, <1>10, <1>11, <3>1, <3>2, <3>3
    <2> QED
      BY <1>12, <2>1
  <1>21. L!Do("unlink", "conf") \in Steps(X5) => ~m.original.exists
    <2>1. L!Do("unlink", "conf") \notin Steps(N) /\ L!Do("unlink", "conf") \notin Steps(M)
      BY <1>1, <1>5, DoEqual
    <2>2. L!Do("unlink", "conf") \notin Steps(H) /\ L!Do("unlink", "conf") \notin Steps(U)
          /\ L!Do("unlink", "conf") \notin Steps(R)
      BY <1>4, <1>6, <1>13, DoEqual
    <2>3. L!Do("unlink", "conf") \in Steps(C) => ~m.original.exists
      BY <1>3, DoEqual
    <2> QED
      BY <2>1, <2>2, <2>3, <1>8, <1>9, <1>10, <1>11, <1>12
  <1>22. L!Do("restore", "conf") \in Steps(X5) \/ L!Do("unlink", "conf") \in Steps(X5)
    BY <1>3, <1>9, <1>10, <1>11, <1>12
  <1>23. m.override => L!Do("remove", "override") \in Steps(X5) /\ L!Do("chmod", "helper") \in Steps(X5)
    BY <1>2, <1>8, <1>9, <1>10, <1>11, <1>12
  <1>24. ASSUME ~m.override
         PROVE  Steps(X5) \cap {L!Do("remove", "override"), L!Do("chown", "helper"), L!Do("chmod", "helper")} = {}
    <2> DEFINE G == {L!Do("remove", "override"), L!Do("chown", "helper"), L!Do("chmod", "helper")}
    <2>1. Steps(H) \cap G = {}
      BY <1>2, <1>24
    <2>2. Steps(N) \cap G = {} /\ Steps(C) \cap G = {}
      BY <1>1, <1>14, DoEqual
    <2>3. Steps(U) \cap G = {}
      BY <1>4, DoEqual
    <2>4. Steps(M) \cap G = {} /\ Steps(R) \cap G = {}
      BY <1>5, <1>6, DoEqual
    <2> HIDE DEF G
    <2>5. Steps(X5) \cap G = {}
      BY <1>8, <1>9, <1>10, <1>11, <1>12, <2>1, <2>2, <2>3, <2>4
    <2> QED
      BY <2>5 DEF G
  <1>25. /\ L!OwnFiles(m.nm) = {"netdev", "network"}
         /\ L!Do("unlink", "netdev") \in Steps(X5) /\ L!Do("unlink", "network") \in Steps(X5)
    BY <1>1, <1>8, <1>9, <1>10, <1>11, <1>12 DEF L!OwnFiles
  <1>26. L!Do("delete", "bridge") \in Steps(X5)
    BY <1>1, <1>8, <1>9, <1>10, <1>11, <1>12
  <1>27. {L!Do(Toggle(m.service.enabled), "service"), L!Do(Toggle(m.others.enabled), "others"),
          L!Do(Switch(m.service.active), "service"), L!Do(Switch(m.others.active), "others")} \subseteq Steps(X5)
    BY <1>4, <1>10, <1>11, <1>12
  <1>28. L!RemovingSteps(m) = X5
    BY <1>e DEF X1, X2, X3, X4, X5
  <1>29. RemovalOrdered(X5)
    BY <1>0, <1>15, <1>16, <1>17 DEF RemovalOrdered
  <1>30. /\ \A d : L!Do("rmdir", d) \in Steps(X5) => d = "state" \/ d \in m.created
         /\ \A d \in m.created : L!Do("rmdir", d) \in Steps(X5) \/ (d = "farrow" /\ ~m.nm)
    BY <1>c, <1>6, <1>20
  <1> QED
    BY <1>12, <1>19, <1>21, <1>22, <1>23, <1>24, <1>25, <1>26, <1>27, <1>28, <1>29, <1>30 DEF RemovalPlanned, T

LEMMA RemovalPlan ==
    ASSUME NEW m \in L!Manifests
    PROVE  RemovalPlanned(L!RemovingSteps(m), m)
  BY RemovalPlanNM, RemovalPlanNetworkd

-----------------------------------------------------------------------------
(* The Linux host.                                                         *)

LEMMA JobKinds ==
    ASSUME LinuxTyped
    PROVE  /\ L!Idle <=> job = L!NoJob
           /\ job # L!NoJob => job.manifest \in L!Manifests /\ job.kind \in {"install", "uninstall", "rollback"}
           /\ job.kind = "install" => job # L!NoJob /\ job.steps \in Seq(InstallSteps(host.nm))
           /\ job.kind \in {"uninstall", "rollback"} => job # L!NoJob /\ job.steps \in Seq(RemovalSteps(host.nm))
  <1>1. CASE job = L!NoJob
    BY <1>1 DEF L!Idle, L!NoJob
  <1>2. CASE job \in [kind : {"install"}, manifest : L!Manifests, steps : Seq(InstallSteps(host.nm))]
    BY <1>2 DEF L!Idle, L!NoJob
  <1>3. CASE job \in [kind : {"uninstall", "rollback"}, manifest : L!Manifests, steps : Seq(RemovalSteps(host.nm))]
    BY <1>3 DEF L!Idle, L!NoJob
  <1> QED
    BY <1>1, <1>2, <1>3 DEF LinuxTyped

LEMMA PrestateFields ==
    ASSUME NEW h \in L!HostStates
    PROVE  LET b == L!Prestate(h)
           IN /\ b.conf = h.conf /\ b.helper = h.helper /\ b.service = h.service /\ b.others = h.others
              /\ b.dirs = h.dirs \ {"state"} /\ b.link = h.link /\ b.connection = h.connection
              /\ b.own = L!OwnPaths(h)
              /\ ~h.link /\ ~h.connection /\ L!OwnPaths(h) = {} => b \in Prestates
  <1>1. h.conf \in L!Conf /\ h.helper \in L!Helper /\ h.service \in L!Unit /\ h.others \in L!Unit
        /\ h.dirs \ {"state"} \in SUBSET L!Dirs /\ h.link \in BOOLEAN /\ h.connection \in BOOLEAN
    BY HostFields
  <1>2. ASSUME ~h.link, ~h.connection, L!OwnPaths(h) = {}
        PROVE  L!Prestate(h) \in Prestates
    <2>1. h.link = FALSE /\ h.connection = FALSE
      BY <1>1, <1>2
    <2> QED
      BY <1>1, <1>2, <2>1 DEF L!Prestate, Prestates
  <1> QED
    BY <1>2 DEF L!Prestate

LEMMA LinuxInit ==
    ASSUME Init
    PROVE  LinuxInv
  <1>1. host \in Hosts /\ job = L!NoJob /\ before = L!Prestate(host) /\ report = "none"
    BY DEF Init, L!Init
  <1>2. /\ host \in L!HostStates
        /\ host.manifest.is = "none" /\ ~host.link /\ ~host.connection
        /\ L!OwnPaths(host) = {} /\ "state" \notin host.dirs /\ host.helper.override = "none"
        /\ ~host.conf.exists => host.conf = L!NoConf
        /\ host.nm => host.service.active = host.service.enabled /\ host.others.active = host.others.enabled
    BY <1>1, HostsAssumption
  <1>3. before \in Prestates /\ "state" \notin before.dirs /\ before.conf = host.conf /\ before.helper = host.helper
    BY <1>1, <1>2, PrestateFields
  <1>4. LinuxTyped
    BY <1>1, <1>2, <1>3 DEF LinuxTyped
  <1>5. Shaped
    BY <1>2 DEF Shaped
  <1>6. Owned
    BY <1>2 DEF Owned
  <1>7. job.kind = "none"
    BY <1>1 DEF L!NoJob
  <1> QED
    BY <1>1, <1>2, <1>4, <1>5, <1>6, <1>7 DEF LinuxInv, Recorded, Installing, Removing, Standing

\* The record of an install.
LEMMA InstallRecord ==
    ASSUME LinuxInv, L!InstallAccepted(host), L!Discoverable(host)
    PROVE  LET m == L!Manifest(host)
               b == IF L!Installed THEN before ELSE L!Prestate(host)
           IN /\ m \in L!Manifests /\ m.is = "manifest" /\ m.nm = host.nm
              /\ m.conf.exists /\ m.conf.block = "ours"
              /\ m.original = b.conf /\ m.helper = b.helper.mode /\ m.created = {"qemu", "farrow"} \ b.dirs
              /\ m.service = b.service /\ m.others = b.others
              /\ ~m.override => host.helper = b.helper /\ (host.family = "debian" => b.helper.mode = "scoped")
              /\ b.dirs \subseteq host.dirs
              /\ host.dirs \subseteq b.dirs \cup {"state", "qemu"} \cup IF host.nm THEN {"farrow"} ELSE {}
              /\ host.nm => host.service = b.service /\ host.others = b.others
              /\ L!Installed => host.manifest.override = m.override
              /\ L!HelperNeedsOverride(host) => m.override
              /\ b \in Prestates /\ "state" \notin b.dirs /\ b.helper.override = "none"
              /\ ~b.conf.exists => b.conf = L!NoConf
  <1> DEFINE C == L!Reconciled(host.conf)
  <1>1. /\ host \in L!HostStates /\ host.conf \in L!Conf /\ host.helper \in L!Helper /\ host.service \in L!Unit
        /\ host.others \in L!Unit /\ host.nm \in BOOLEAN /\ host.family \in {"debian", "rpm"}
        /\ host.manifest \in L!Manifests \cup {L!NoManifest, L!TornManifest}
        /\ host.link \in BOOLEAN /\ host.connection \in BOOLEAN
    BY HostFields DEF LinuxInv, LinuxTyped
  <1>2. C \in L!Conf /\ C.exists /\ C.block = "ours"
    BY <1>1 DEF L!Reconciled, L!Conf
  <1> HIDE DEF C
  <1>3. CASE L!Installed
    <2> DEFINE r == host.manifest
               m == [r EXCEPT !.conf = C]
    <2>1. L!Manifest(host) = m
      BY <1>3 DEF L!Manifest, L!Installed, C
    <2>2. r \in L!Manifests
      BY <1>1, <1>3 DEF L!Installed, L!NoManifest, L!TornManifest
    <2>3. Faithful(r) /\ "state" \in host.dirs
      BY <1>3 DEF LinuxInv, Recorded, L!Installed
    <2> HIDE DEF r
    <2>4. /\ m \in L!Manifests /\ m.is = "manifest" /\ m.nm = r.nm /\ m.conf = C /\ m.original = r.original
          /\ m.helper = r.helper /\ m.created = r.created /\ m.service = r.service /\ m.others = r.others
          /\ m.override = r.override
      BY <1>2, <2>2 DEF L!Manifests
    <2> HIDE DEF m
    <2>5. ASSUME L!HelperNeedsOverride(host) PROVE r.override
      BY <2>3, <2>5 DEF Faithful, L!HelperNeedsOverride
    <2>6. /\ before \in Prestates /\ "state" \notin before.dirs /\ before.helper.override = "none"
          /\ ~before.conf.exists => before.conf = L!NoConf
      BY DEF LinuxInv, LinuxTyped
    <2>7. r.override = host.manifest.override
      BY DEF r
    <2> QED
      BY <1>2, <1>3, <2>1, <2>3, <2>4, <2>5, <2>6, <2>7 DEF Faithful
  <1>4. CASE ~L!Installed
    <2> DEFINE b == L!Prestate(host)
               o == L!HelperNeedsOverride(host)
               m == [is |-> "manifest", nm |-> host.nm, conf |-> C, original |-> host.conf,
                     helper |-> host.helper.mode, override |-> o,
                     created |-> {"qemu", "farrow"} \ host.dirs, service |-> host.service, others |-> host.others]
    <2>1. L!Manifest(host) = m
      BY <1>4 DEF L!Manifest, L!Installed, C
    <2>2. host.manifest.is = "none" /\ "state" \notin host.dirs /\ L!OwnPaths(host) = {}
      BY <1>4 DEF L!Discoverable, L!Installed
    <2>3. ~host.link /\ ~host.connection
      BY <1>4 DEF L!InstallAccepted, L!Installed, LinuxInv, Shaped
    <2>4. /\ b.conf = host.conf /\ b.helper = host.helper /\ b.service = host.service /\ b.others = host.others
          /\ b.dirs = host.dirs \ {"state"} /\ b \in Prestates
      BY <1>1, <2>2, <2>3, PrestateFields
    <2>5. b.dirs = host.dirs
      BY <2>2, <2>4
    <2>6. host.helper.override = "none" /\ (~host.conf.exists => host.conf = L!NoConf)
      BY <2>2 DEF LinuxInv, Owned, Shaped
    <2>7. o \in BOOLEAN /\ (~o /\ host.family = "debian" => host.helper.mode = "scoped")
      BY <2>6 DEF L!HelperNeedsOverride
    <2>8. host.helper.mode \in L!Modes
      BY <1>1 DEF L!Helper
    <2> HIDE DEF b, o
    <2>9. m \in L!Manifests
      BY <1>1, <1>2, <2>7, <2>8 DEF L!Manifests
    <2>10. /\ m.is = "manifest" /\ m.nm = host.nm /\ m.conf = C /\ m.original = host.conf
           /\ m.helper = host.helper.mode /\ m.override = o /\ m.created = {"qemu", "farrow"} \ host.dirs
           /\ m.service = host.service /\ m.others = host.others
      OBVIOUS
    <2> HIDE DEF m
    <2>11. o => m.override
      BY <2>10
    <2>12. ~m.override /\ host.family = "debian" => b.helper.mode = "scoped"
      BY <2>4, <2>7, <2>10
    <2> QED
      BY <1>2, <1>4, <2>1, <2>2, <2>4, <2>5, <2>6, <2>9, <2>10, <2>11, <2>12 DEF b, o
  <1> QED
    BY <1>3, <1>4

LEMMA LinuxInstall ==
    ASSUME LinuxInv, L!Install, "state" \notin host.dirs \/ HelperVerified
    PROVE  LinuxInv'
  <1> DEFINE m == L!Manifest(host)
             b == IF L!Installed THEN before ELSE L!Prestate(host)
             s == L!PlacingSteps(host) \o L!ActivatingSteps(host)
  <1>1. /\ L!Idle /\ L!InstallAccepted(host) /\ L!Discoverable(host)
        /\ job' = [kind |-> "install", manifest |-> m, steps |-> s]
        /\ before' = b /\ report' = "none" /\ host' = host
    BY DEF L!Install, L!InstallAccepted
  <1>2. host \in L!HostStates
    BY DEF LinuxInv, LinuxTyped
  <1>3. /\ m \in L!Manifests /\ m.is = "manifest" /\ m.nm = host.nm
        /\ m.conf.exists /\ m.conf.block = "ours"
        /\ m.original = b.conf /\ m.helper = b.helper.mode /\ m.created = {"qemu", "farrow"} \ b.dirs
        /\ m.service = b.service /\ m.others = b.others
        /\ ~m.override => host.helper = b.helper /\ (host.family = "debian" => b.helper.mode = "scoped")
        /\ b.dirs \subseteq host.dirs
        /\ host.dirs \subseteq b.dirs \cup {"state", "qemu"} \cup IF host.nm THEN {"farrow"} ELSE {}
        /\ host.nm => host.service = b.service /\ host.others = b.others
        /\ L!Installed => host.manifest.override = m.override
        /\ L!HelperNeedsOverride(host) => m.override
        /\ b \in Prestates /\ "state" \notin b.dirs /\ b.helper.override = "none"
        /\ ~b.conf.exists => b.conf = L!NoConf
    BY <1>1, InstallRecord
  <1>4. /\ s \in Seq(InstallSteps(host.nm))
        /\ Ordered(s, {L!Do("mkdir", "state")}, {L!Do("write", "manifest")})
        /\ Ordered(s, {L!Do("write", "manifest")},
                      {L!Do("write", p) : p \in Own} \cup {L!Do("override", "helper")})
        /\ {L!Do("mkdir", "state"), L!Do("write", "manifest"), L!Do("write", "conf"),
            L!Do("await", "bridge")} \subseteq Steps(s)
        /\ \A p \in L!OwnFiles(host.nm) : L!Do("write", p) \in Steps(s)
        /\ ~host.nm /\ ~host.service.active => L!Do("start", "service") \in Steps(s)
        /\ L!Do("override", "helper") \in Steps(s) <=> L!HelperNeedsOverride(host)
    BY <1>2, InstallPlan
  <1>a. host.manifest.is = "manifest" => L!Installed /\ Faithful(host.manifest) /\ "state" \in host.dirs /\ b = before
    BY DEF LinuxInv, Recorded, L!Installed
  <1>b. Shaped /\ Owned
    BY DEF LinuxInv
  <1>c. ~L!Installed => b.helper = host.helper
    BY <1>2, PrestateFields
  <1>d. ~L!HelperNeedsOverride(host) /\ b.helper.mode # "scoped" => HelperVerified
    <2> SUFFICES ASSUME ~L!HelperNeedsOverride(host), b.helper.mode # "scoped" PROVE HelperVerified
      OBVIOUS
    <2>1. CASE L!Installed
      BY <1>a, <2>1 DEF L!Installed
    <2>2. CASE ~L!Installed /\ host.family = "rpm"
      <3>1. L!HelperAccepted(host)
        BY <1>1 DEF L!InstallAccepted
      <3>2. host.helper.mode = "package"
        BY <2>2, <3>1 DEF L!HelperAccepted
      <3> QED
        BY <2>2, <3>2 DEF HelperVerified
    <2>3. CASE ~L!Installed /\ host.family # "rpm"
      <3>1. host.family = "debian" /\ host.helper \in L!Helper
        BY <1>2, <2>3, HostFields
      <3>2. host.helper.override = "ours" \/ host.helper.mode = "scoped"
        BY <3>1 DEF L!HelperNeedsOverride, L!Helper
      <3>3. host.helper.mode # "scoped" => FALSE
        BY <3>2, <1>b DEF Shaped
      <3> QED
        BY <1>c, <2>3, <3>3
    <2> QED
      BY <2>1, <2>2, <2>3
  <1> HIDE DEF m, b, s
  <1>6. job'.kind = "install" /\ job'.manifest = m /\ job'.steps = s /\ job' # L!NoJob
    BY <1>1 DEF L!NoJob
  <1>7. LinuxTyped'
    BY <1>1, <1>2, <1>3, <1>4 DEF LinuxTyped
  <1>8. Shaped' /\ Owned'
    BY <1>1, <1>b DEF Shaped, Owned
  <1>9. Faithful(job.manifest)'
    BY <1>1, <1>3, <1>6 DEF Faithful
  <1>10. Recorded'
    <2>1. ASSUME host.manifest.is = "manifest" PROVE Faithful(host.manifest)' /\ "state" \in host'.dirs
      BY <1>1, <1>a, <2>1 DEF Faithful
    <2>2. host.manifest.is = "manifest" => host'.manifest.override = job'.manifest.override
      BY <1>1, <1>3, <1>6 DEF L!Installed
    <2> QED
      BY <1>1, <1>9, <2>1, <2>2 DEF Recorded
  <1>11. Installing'
    <2>1. /\ Ordered(job'.steps, {L!Do("mkdir", "state")}, {L!Do("write", "manifest")})
          /\ Ordered(job'.steps, {L!Do("write", "manifest")},
                     {L!Do("write", p) : p \in Own} \cup {L!Do("override", "helper")})
      BY <1>4, <1>6
    <2>2. L!Do("override", "helper") \in Steps(job'.steps) => job'.manifest.override /\ host'.family = "debian"
      BY <1>1, <1>3, <1>4, <1>6 DEF L!HelperNeedsOverride
    <2>3. /\ Secured(job'.steps, {L!Do("write", "manifest")}, {}, host'.manifest.is = "manifest")
          /\ Secured(job'.steps, {L!Do("mkdir", "state")}, {}, "state" \in host'.dirs)
          /\ Secured(job'.steps, {L!Do("write", "conf")}, {}, host'.conf.exists /\ host'.conf.block = "ours")
          /\ \A p \in L!OwnFiles(host'.nm) : Secured(job'.steps, {L!Do("write", p)}, {}, p \in host'.files)
          /\ Secured(job'.steps, {L!Do("await", "bridge")}, {}, host'.link)
          /\ ~host'.nm => Secured(job'.steps, {L!Do("start", "service")}, {}, host'.service.active)
      BY <1>1, <1>4, <1>6 DEF Secured
    <2>4. Secured(job'.steps, {L!Do("override", "helper")}, {}, HelperSettled')
      <3>1. CASE L!HelperNeedsOverride(host)
        BY <1>4, <1>6, <3>1 DEF Secured
      <3>2. CASE ~L!HelperNeedsOverride(host)
        <4>1. HelperSettled'
          BY <1>1, <1>d, <3>2 DEF HelperSettled, HelperVerified
        <4> QED
          BY <4>1 DEF Secured
      <3> QED
        BY <3>1, <3>2
    <2> QED
      BY <2>1, <2>2, <2>3, <2>4 DEF Installing
  <1>12. ~(job'.kind \in {"uninstall", "rollback"}) /\ ~L!Idle'
    BY <1>6 DEF L!Idle
  <1> QED
    BY <1>7, <1>8, <1>10, <1>11, <1>12 DEF LinuxInv, Removing, Standing

\* An uninstall or a rollback begins.
LEMMA LinuxRemoval ==
    ASSUME LinuxInv, L!UninstallAccepted(host), NEW kind \in {"uninstall", "rollback"},
           job' = [kind |-> kind, manifest |-> host.manifest, steps |-> L!RemovingSteps(host.manifest)],
           report' = "none", UNCHANGED <<host, before>>
    PROVE  LinuxInv'
  <1> DEFINE m == host.manifest
             s == L!RemovingSteps(m)
  <1>1. host \in L!HostStates /\ host' = host /\ before' = before
    BY DEF LinuxInv, LinuxTyped
  <1>2. m.is = "manifest" /\ m \in L!Manifests
    <2>1. m.is = "manifest"
      BY DEF L!UninstallAccepted
    <2> QED
      BY <1>1, <2>1, HostFields DEF L!NoManifest, L!TornManifest
  <1>3. Faithful(m) /\ "state" \in host.dirs
    BY <1>2 DEF LinuxInv, Recorded
  <1>4. RemovalPlanned(s, m)
    BY <1>2, RemovalPlan
  <1>5. /\ before \in Prestates /\ "state" \notin before.dirs /\ before.helper.override = "none"
        /\ ~before.conf.exists => before.conf = L!NoConf
        /\ Shaped /\ Owned
    BY DEF LinuxInv, LinuxTyped
  <1> HIDE DEF m, s
  <1>6. /\ job'.kind = kind /\ job'.manifest = m /\ job'.steps = s /\ job' # L!NoJob /\ host'.manifest = m
        /\ job' = [kind |-> kind, manifest |-> m, steps |-> s]
    BY <1>1 DEF L!NoJob, m, s
  <1>7. m.nm = host.nm
    BY <1>3 DEF Faithful
  <1>8. LinuxTyped'
    <2>1. s \in Seq(RemovalSteps(host'.nm))
      BY <1>1, <1>4, <1>7 DEF RemovalPlanned
    <2>2. job' \in [kind : {"uninstall", "rollback"}, manifest : L!Manifests, steps : Seq(RemovalSteps(host'.nm))]
      BY <1>2, <1>6, <2>1
    <2> QED
      BY <1>1, <1>5, <2>2 DEF LinuxTyped
  <1>9. Shaped' /\ Owned'
    BY <1>1, <1>5 DEF Shaped, Owned
  <1>10. Faithful(job.manifest)' /\ Faithful(host.manifest)'
    BY <1>1, <1>3, <1>6 DEF Faithful
  <1>11. Recorded'
    BY <1>1, <1>3, <1>6, <1>10 DEF Recorded
  <1>12. Removing'
    <2> DEFINE G == {L!Do("remove", "override"), L!Do("chown", "helper"), L!Do("chmod", "helper")}
    <2>1. RemovalOrdered(s) /\ (L!Do("unlink", "conf") \in Steps(s) => m.original = L!NoConf)
      BY <1>3, <1>4, <1>5 DEF RemovalPlanned, Faithful
    <2>2. \A d \in before.dirs : L!Do("rmdir", d) \notin Steps(s)
      BY <1>3, <1>4, <1>5 DEF RemovalPlanned, Faithful
    <2>3. Steps(s) \cap G # {} => m.override
      BY <1>4 DEF RemovalPlanned
    <2>4. Secured(s, {L!Do("restore", "conf"), L!Do("unlink", "conf")}, {}, host.conf = m.original)
      BY <1>4 DEF RemovalPlanned, Secured
    <2>5. Secured(s, {L!Do("remove", "override")}, {}, host.helper.override = "none")
      BY <1>3, <1>4, <1>5 DEF RemovalPlanned, Secured, Faithful
    <2>6. Secured(s, {L!Do("chmod", "helper")}, {L!Do("chown", "helper")}, host.helper.mode = m.helper)
      BY <1>3, <1>4 DEF RemovalPlanned, Secured, Faithful
    <2>7. \A d \in m.created : Secured(s, {L!Do("rmdir", d)}, {}, d \notin host.dirs)
      <3> SUFFICES ASSUME NEW d \in m.created, L!Do("rmdir", d) \notin Steps(s) PROVE d \notin host.dirs
        BY DEF Secured
      <3>1. d = "farrow" /\ ~host.nm
        BY <1>4, <1>7 DEF RemovalPlanned
      <3>2. "farrow" \notin before.dirs /\ host.dirs \subseteq before.dirs \cup {"state", "qemu"}
        BY <1>3, <3>1 DEF Faithful
      <3> QED
        BY <3>1, <3>2
    <2>8. \A p \in Own : Secured(s, {L!Do("unlink", p)}, {}, p \notin L!OwnPaths(host))
      BY <1>4, <1>5, <1>7 DEF RemovalPlanned, Secured, Shaped
    <2>9. Secured(s, {L!Do("delete", "bridge"), L!Do("delete", "connection")}, {}, ~host.link)
      BY <1>4 DEF RemovalPlanned, Secured
    <2>10. Secured(s, {L!Do("delete", "connection")}, {}, ~host.connection)
      BY <1>4, <1>5, <1>7 DEF RemovalPlanned, Secured, Shaped
    <2>11. ~host.nm => UnitsOrdered(s, m) /\ UnitsRestored(s, m)
      BY <1>4, <1>7 DEF RemovalPlanned, UnitsRestored, Secured
    <2>13. ~host'.nm => UnitsOrdered(job'.steps, job'.manifest) /\ UnitsRestored(job.steps, job.manifest)'
      BY <1>1, <1>6, <2>11 DEF UnitsRestored
    <2> HIDE DEF G
    <2> QED
      BY <1>1, <1>6, <2>1, <2>2, <2>3, <2>4, <2>5, <2>6, <2>7, <2>8, <2>9, <2>10, <2>13 DEF Removing, G
  <1>13. job'.kind # "install" /\ ~L!Idle'
    BY <1>6 DEF L!Idle
  <1> QED
    BY <1>8, <1>9, <1>11, <1>12, <1>13 DEF LinuxInv, Installing, Standing

LEMMA OwnPathsIn ==
    ASSUME NEW p
    PROVE  /\ \A nm \in BOOLEAN : p \in L!OwnFiles(nm) => p \in Own
           /\ p \in L!OwnPaths(host) <=> p \in host.files \/ p \in host.torn
  BY DEF L!OwnFiles, L!OwnPaths, Own

LEMMA LinuxInstallStep ==
    ASSUME LinuxInv, L!Step, job.kind = "install"
    PROVE  LinuxInv'
  <1> DEFINE h == host
             e == host'
             m == job.manifest
             s == job.steps
             x == Head(s)
             t == Tail(s)
             T == InstallSteps(host.nm)
  <1>1. /\ host \in L!HostStates /\ host.nm \in BOOLEAN /\ m \in L!Manifests /\ s \in Seq(T)
        /\ job # L!NoJob /\ job \in [kind : {"install"}, manifest : L!Manifests, steps : Seq(T)]
    BY JobKinds, HostFields DEF LinuxInv, LinuxTyped
  <1>2. s # <<>> /\ e = L!Done(h, x, m) /\ job' = [job EXCEPT !.steps = t] /\ before' = before /\ report' = report
    BY DEF L!Step
  <1>3. Steps(s) = {x} \cup Steps(t) /\ x \in T /\ t \in Seq(T)
    BY <1>1, <1>2, TailSteps
  <1>4. InstallTable(h, m, x, e)
    BY <1>1, <1>2, <1>3, InstallEffect
  <1>5. /\ job'.kind = "install" /\ job'.manifest = m /\ job'.steps = t /\ job' # L!NoJob
        /\ job' = [kind |-> "install", manifest |-> m, steps |-> t]
    BY <1>1, <1>2 DEF L!NoJob
  <1>6. Shaped /\ Owned /\ Recorded /\ Installing
    BY DEF LinuxInv
  <1>7. Faithful(m) /\ report = "none" /\ (h.manifest.is = "manifest" => /\ Faithful(h.manifest) /\ "state" \in h.dirs
                                                                       /\ h.manifest.override = m.override)
    BY <1>1, <1>6 DEF Recorded
  <1>8. m.is = "manifest" /\ m.conf.exists /\ m.conf.block = "ours"
    BY <1>1, <1>7 DEF L!Manifests, Faithful
  <1>9. x.do = "mkdir" => x.on \in {"qemu", "state"} \/ (x.on = "farrow" /\ h.nm)
    BY <1>1, <1>3, InstallCases
  <1>10. \A p \in Own : x = L!Do("write", p) => p \in L!OwnFiles(h.nm)
    <2> SUFFICES ASSUME NEW p \in Own, x = L!Do("write", p) PROVE p \in L!OwnFiles(h.nm)
      OBVIOUS
    <2>1. x.do = "write" /\ x.on = p
      BY DoIs
    <2>2. x.on # "manifest" /\ x.on # "conf"
      BY <2>1 DEF Own
    <2> QED
      BY <1>1, <1>3, <2>1, <2>2, InstallCases
  <1>11. \A d : x = L!Do("mkdir", d) => d \in {"qemu", "state"} \/ (d = "farrow" /\ h.nm)
    BY <1>9, DoIs
  <1>12. /\ Ordered(s, {L!Do("mkdir", "state")}, {L!Do("write", "manifest")})
         /\ Ordered(s, {L!Do("write", "manifest")},
                    {L!Do("write", p) : p \in Own} \cup {L!Do("override", "helper")})
         /\ L!Do("override", "helper") \in Steps(s) => m.override /\ h.family = "debian"
         /\ Secured(s, {L!Do("write", "manifest")}, {}, h.manifest.is = "manifest")
         /\ Secured(s, {L!Do("mkdir", "state")}, {}, "state" \in h.dirs)
         /\ Secured(s, {L!Do("write", "conf")}, {}, h.conf.exists /\ h.conf.block = "ours")
         /\ \A p \in L!OwnFiles(h.nm) : Secured(s, {L!Do("write", p)}, {}, p \in h.files)
         /\ Secured(s, {L!Do("await", "bridge")}, {}, h.link)
         /\ ~h.nm => Secured(s, {L!Do("start", "service")}, {}, h.service.active)
         /\ Secured(s, {L!Do("override", "helper")}, {}, HelperSettled)
    BY <1>6 DEF Installing
  <1>13. x = L!Do("override", "helper") => m.override /\ h.family = "debian"
    BY <1>3, <1>12
  <1>14. x = L!Do("write", "manifest") => "state" \in h.dirs
    BY <1>1, <1>2, <1>12, TailOrdered DEF Secured
  <1>15. h.manifest.is # "manifest" => \A p \in Own : x # L!Do("write", p) /\ x # L!Do("override", "helper")
    BY <1>1, <1>2, <1>12, TailOrdered DEF Secured
  <1>p. L!Possible(h, x)
    BY DEF L!Step
  <1>q. x = L!Do("await", "bridge") => h.link
    <2> SUFFICES ASSUME x = L!Do("await", "bridge") PROVE h.link
      OBVIOUS
    <2>1. x.do = "await"
      BY DoIs
    <2> QED
      BY <1>p, <2>1 DEF L!Possible
  <1> HIDE DEF m, s, x, t
  <1>16. LinuxTyped'
    <2>1. e.nm = h.nm /\ e \in L!HostStates
      BY <1>4 DEF InstallTable
    <2>2. job' \in [kind : {"install"}, manifest : L!Manifests, steps : Seq(InstallSteps(e.nm))]
      BY <1>1, <1>3, <1>5, <2>1
    <2>3. before \in Prestates /\ "state" \notin before.dirs /\ before.helper.override = "none"
          /\ (~before.conf.exists => before.conf = L!NoConf)
      BY DEF LinuxInv, LinuxTyped
    <2> QED
      BY <1>2, <2>1, <2>2, <2>3 DEF LinuxTyped
  <1>17. Shaped'
    <2>1. L!OwnPaths(e) \subseteq L!OwnFiles(e.nm)
      BY <1>4, <1>6, <1>10 DEF Shaped, InstallTable, L!OwnPaths
    <2>2. ~e.nm => ~e.connection
      BY <1>4, <1>6 DEF Shaped, InstallTable
    <2>3. ~e.conf.exists => e.conf = L!NoConf
      BY <1>4, <1>6, <1>8 DEF Shaped, InstallTable
    <2>4. e.helper.override \in {"none", "ours"} /\ (e.helper.override = "ours" => e.helper.mode = "scoped")
      BY <1>4, <1>6 DEF Shaped, InstallTable
    <2>5. e.nm => e.service.active = e.service.enabled /\ e.others.active = e.others.enabled
      BY <1>4, <1>6 DEF Shaped, InstallTable
    <2> QED
      BY <2>1, <2>2, <2>3, <2>4, <2>5 DEF Shaped
  <1>18. Owned'
    <2> SUFFICES ASSUME e.manifest.is = "none" PROVE L!OwnPaths(e) = {} /\ e.helper.override = "none"
      BY DEF Owned
    <2>1. h.manifest.is = "none"
      BY <1>4, <1>8 DEF InstallTable
    <2>2. L!OwnPaths(h) = {} /\ h.helper.override = "none"
      BY <1>6, <2>1 DEF Owned
    <2>3. \A p \in Own : x # L!Do("write", p) /\ x # L!Do("override", "helper")
      BY <1>15, <2>1
    <2>4. x # L!Do("override", "helper")
      BY <2>3 DEF Own
    <2> QED
      BY <1>4, <2>2, <2>3, <2>4 DEF InstallTable, L!OwnPaths
  <1>19. ASSUME NEW r, Faithful(r), r.override = m.override
         PROVE  /\ r.nm = e.nm
                /\ r.conf.exists /\ r.conf.block = "ours"
                /\ r.original = before.conf /\ r.helper = before.helper.mode
                /\ r.created = {"qemu", "farrow"} \ before.dirs
                /\ r.service = before.service /\ r.others = before.others
                /\ ~r.override => e.helper = before.helper /\ (e.family = "debian" => before.helper.mode = "scoped")
                /\ before.dirs \subseteq e.dirs
                /\ e.dirs \subseteq before.dirs \cup {"state", "qemu"} \cup IF e.nm THEN {"farrow"} ELSE {}
                /\ e.nm => e.service = before.service /\ e.others = before.others
    <2>1. e.nm = h.nm /\ e.family = h.family
      BY <1>4 DEF InstallTable
    <2>2. ~r.override => e.helper = h.helper
      BY <1>4, <1>13, <1>19 DEF InstallTable
    <2>3. \A d : d \in e.dirs <=> d \in h.dirs \/ x = L!Do("mkdir", d)
      BY <1>4 DEF InstallTable
    <2>4. e.nm => e.service = h.service /\ e.others = h.others
      BY <1>4, <2>1 DEF InstallTable
    <2>5. e.dirs \subseteq before.dirs \cup {"state", "qemu"} \cup IF e.nm THEN {"farrow"} ELSE {}
      BY <1>11, <1>19, <2>1, <2>3 DEF Faithful
    <2> QED
      BY <1>19, <2>1, <2>2, <2>3, <2>4, <2>5 DEF Faithful
  <1>20. Recorded'
    <2>1. Faithful(job.manifest)'
      BY <1>2, <1>5, <1>7, <1>19 DEF Faithful
    <2>2. e.manifest = m \/ e.manifest = h.manifest
      BY <1>4 DEF InstallTable
    <2>3. ASSUME e.manifest.is = "manifest"
          PROVE  Faithful(host.manifest)' /\ "state" \in e.dirs /\ e.manifest.override = m.override
      <3>1. Faithful(e.manifest) /\ e.manifest.override = m.override /\ "state" \in h.dirs
        BY <1>4, <1>7, <1>14, <2>3 DEF InstallTable
      <3>2. "state" \in e.dirs
        BY <1>4, <3>1 DEF InstallTable
      <3> QED
        BY <1>2, <1>19, <3>1, <3>2 DEF Faithful
    <2> QED
      BY <1>2, <1>5, <1>7, <2>1, <2>3 DEF Recorded
  <1>21. Installing'
    <2>1. /\ Ordered(t, {L!Do("mkdir", "state")}, {L!Do("write", "manifest")})
          /\ Ordered(t, {L!Do("write", "manifest")},
                     {L!Do("write", p) : p \in Own} \cup {L!Do("override", "helper")})
      BY <1>1, <1>2, <1>12, TailOrdered DEF t
    <2>2. L!Do("override", "helper") \in Steps(t) => m.override /\ e.family = "debian"
      BY <1>3, <1>4, <1>12 DEF InstallTable
    <2>3. Secured(t, {L!Do("write", "manifest")}, {}, e.manifest.is = "manifest")
      <3>1. /\ x = L!Do("write", "manifest") => e.manifest.is = "manifest"
            /\ h.manifest.is = "manifest" => e.manifest.is = "manifest"
        BY <1>4, <1>8 DEF InstallTable
      <3> QED
        BY <1>3, <1>12, <3>1 DEF Secured
    <2>4. Secured(t, {L!Do("mkdir", "state")}, {}, "state" \in e.dirs)
      <3>1. "state" \in e.dirs <=> "state" \in h.dirs \/ x = L!Do("mkdir", "state")
        BY <1>4 DEF InstallTable
      <3> QED
        BY <1>3, <1>12, <3>1 DEF Secured
    <2>5. Secured(t, {L!Do("write", "conf")}, {}, e.conf.exists /\ e.conf.block = "ours")
      <3>1. /\ x = L!Do("write", "conf") => e.conf.exists /\ e.conf.block = "ours"
            /\ h.conf.exists /\ h.conf.block = "ours" => e.conf.exists /\ e.conf.block = "ours"
        BY <1>4, <1>8 DEF InstallTable
      <3> QED
        BY <1>3, <1>12, <3>1 DEF Secured
    <2>6. \A p \in L!OwnFiles(e.nm) : Secured(t, {L!Do("write", p)}, {}, p \in e.files)
      <3>1. e.nm = h.nm
        BY <1>4 DEF InstallTable
      <3> SUFFICES ASSUME NEW p \in L!OwnFiles(h.nm) PROVE Secured(t, {L!Do("write", p)}, {}, p \in e.files)
        BY <3>1
      <3>2. p \in Own
        BY <1>1, OwnPathsIn
      <3>3. p \in e.files <=> p \in h.files \/ x = L!Do("write", p)
        BY <1>4, <3>2 DEF InstallTable
      <3> QED
        BY <1>3, <1>12, <3>3 DEF Secured
    <2>7. Secured(t, {L!Do("await", "bridge")}, {}, e.link)
      <3>1. h.link => e.link
        BY <1>4 DEF InstallTable
      <3> QED
        BY <1>3, <1>12, <1>q, <3>1 DEF Secured
    <2>8. ~e.nm => Secured(t, {L!Do("start", "service")}, {}, e.service.active)
      <3>1. e.nm = h.nm /\ (h.service.active \/ x = L!Do("start", "service") => e.service.active)
        BY <1>4 DEF InstallTable
      <3> QED
        BY <1>3, <1>12, <3>1 DEF Secured
    <2>9. Secured(t, {L!Do("override", "helper")}, {}, HelperSettled')
      <3>1. e.family = h.family
            /\ e.helper = IF x = L!Do("override", "helper") THEN [override |-> "ours", mode |-> "scoped"] ELSE h.helper
        BY <1>4 DEF InstallTable
      <3>2. CASE x = L!Do("override", "helper")
        <4>1. HelperSettled'
          BY <1>13, <3>1, <3>2 DEF HelperSettled, HelperVerified
        <4> QED
          BY <4>1 DEF Secured
      <3>3. CASE x # L!Do("override", "helper")
        <4>1. HelperSettled => HelperSettled'
          BY <1>2, <3>1, <3>3 DEF HelperSettled, HelperVerified
        <4> QED
          BY <1>3, <1>12, <3>3, <4>1 DEF Secured
      <3> QED
        BY <3>2, <3>3
    <2> QED
      BY <1>5, <2>1, <2>2, <2>3, <2>4, <2>5, <2>6, <2>7, <2>8, <2>9 DEF Installing
  <1>22. job'.kind \notin {"uninstall", "rollback"} /\ ~L!Idle'
    BY <1>5 DEF L!Idle
  <1> QED
    BY <1>16, <1>17, <1>18, <1>20, <1>21, <1>22 DEF LinuxInv, Removing, Standing

LEMMA LinuxRemovalStep ==
    ASSUME LinuxInv, L!Step, job.kind \in {"uninstall", "rollback"}
    PROVE  LinuxInv'
  <1> DEFINE h == host
             e == host'
             m == job.manifest
             s == job.steps
             x == Head(s)
             t == Tail(s)
             T == RemovalSteps(host.nm)
             G == {L!Do("remove", "override"), L!Do("chown", "helper"), L!Do("chmod", "helper")}
  <1>1. /\ host \in L!HostStates /\ host.nm \in BOOLEAN /\ m \in L!Manifests /\ s \in Seq(T)
        /\ job # L!NoJob /\ job \in [kind : {"uninstall", "rollback"}, manifest : L!Manifests, steps : Seq(T)]
    BY JobKinds, HostFields DEF LinuxInv, LinuxTyped, L!NoJob
  <1>2. s # <<>> /\ e = L!Done(h, x, m) /\ job' = [job EXCEPT !.steps = t] /\ before' = before /\ report' = report
    BY DEF L!Step
  <1>3. Steps(s) = {x} \cup Steps(t) /\ x \in T /\ t \in Seq(T)
    BY <1>1, <1>2, TailSteps
  <1>4. RemovalTable(h, m, x, e)
    BY <1>1, <1>2, <1>3, RemovalEffect
  <1>5. /\ job'.kind = job.kind /\ job'.manifest = m /\ job'.steps = t /\ job' # L!NoJob
        /\ job' = [kind |-> job.kind, manifest |-> m, steps |-> t]
    BY <1>1, <1>2 DEF L!NoJob
  <1>6. Shaped /\ Owned /\ Recorded /\ Removing
    BY DEF LinuxInv
  <1>7. Faithful(m) /\ report = "none" /\ (h.manifest.is = "manifest" => /\ Faithful(h.manifest) /\ "state" \in h.dirs
                                                                       /\ h.manifest.override = m.override)
    BY <1>1, <1>6 DEF Recorded
  <1>8. /\ before \in Prestates /\ "state" \notin before.dirs /\ before.helper.override = "none"
        /\ ~before.conf.exists => before.conf = L!NoConf
    BY DEF LinuxInv, LinuxTyped
  <1>9. /\ RemovalOrdered(s)
        /\ L!Do("unlink", "conf") \in Steps(s) => m.original = L!NoConf
        /\ \A d \in before.dirs : L!Do("rmdir", d) \notin Steps(s)
        /\ Steps(s) \cap G # {} => m.override
        /\ Secured(s, {L!Do("restore", "conf"), L!Do("unlink", "conf")}, {}, h.conf = m.original)
        /\ Secured(s, {L!Do("remove", "override")}, {}, h.helper.override = "none")
        /\ Secured(s, {L!Do("chmod", "helper")}, {L!Do("chown", "helper")}, h.helper.mode = m.helper)
        /\ \A d \in m.created : Secured(s, {L!Do("rmdir", d)}, {}, d \notin h.dirs)
        /\ \A p \in Own : Secured(s, {L!Do("unlink", p)}, {}, p \notin L!OwnPaths(h))
        /\ Secured(s, {L!Do("delete", "bridge"), L!Do("delete", "connection")}, {}, ~h.link)
        /\ Secured(s, {L!Do("delete", "connection")}, {}, ~h.connection)
        /\ ~h.nm => UnitsOrdered(s, m) /\ UnitsRestored(s, m)
    BY <1>6 DEF Removing
  <1>p. L!Possible(h, x)
    BY DEF L!Step
  \* The state directory goes after the manifest.
  <1>q. x = L!Do("rmdir", "state") => h.manifest.is = "none"
    <2> SUFFICES ASSUME x = L!Do("rmdir", "state") PROVE h.manifest.is = "none"
      OBVIOUS
    <2>1. x.do = "rmdir" /\ x.on = "state"
      BY DoIs
    <2>2. L!Holds("state") \cap L!Present(h) = {}
      BY <1>p, <2>1 DEF L!Possible
    <2> QED
      BY <2>2 DEF L!Holds, L!Present
  <1>r. \A a, b : x = L!Do(a, b) => x.do = a /\ x.on = b
    BY DoIs
  <1> HIDE DEF m, s, x, t
  <1>10. x \in G => m.override
    BY <1>3, <1>9
  <1>11. L!OwnPaths(e) = {p \in L!OwnPaths(h) : x # L!Do("unlink", p)}
    <2>1. L!OwnPaths(h) \subseteq Own
      BY <1>1, <1>6, OwnPathsIn DEF Shaped
    <2>2. e.files \subseteq Own /\ e.torn \subseteq Own
      BY <1>4, HostFields DEF RemovalTable, L!Files, Own
    <2> QED
      BY <1>4, <2>1, <2>2 DEF RemovalTable, L!OwnPaths
  <1>12. x = L!Do("unlink", "conf") => m.original = L!NoConf
    BY <1>3, <1>9
  <1>13. L!Do("chown", "helper") = x \/ L!Do("chmod", "helper") = x => h.helper.override = "none"
    <2> SUFFICES ASSUME x \in {L!Do("chown", "helper"), L!Do("chmod", "helper")} PROVE h.helper.override = "none"
      OBVIOUS
    <2> DEFINE B == {L!Do("chown", "helper"), L!Do("chmod", "helper")}
    <2>1. x \in B
      OBVIOUS
    <2>2. Steps(s) \cap {L!Do("remove", "override")} = {}
      <3>1. Ordered(s, {L!Do("remove", "override")}, B)
        BY <1>9 DEF RemovalOrdered
      <3> HIDE DEF B
      <3> QED
        BY <1>1, <1>2, <2>1, <3>1, TailOrdered DEF x
    <2> QED
      BY <1>9, <2>2 DEF Secured
  <1>14. x = L!Do("unlink", "manifest") => L!OwnPaths(h) = {} /\ h.helper.override = "none"
    <2> SUFFICES ASSUME x = L!Do("unlink", "manifest") PROVE L!OwnPaths(h) = {} /\ h.helper.override = "none"
      OBVIOUS
    <2> DEFINE A == {L!Do("unlink", p) : p \in Own} \cup {L!Do("remove", "override")}
    <2>1. Steps(s) \cap A = {}
      <3>1. Ordered(s, A, {L!Do("unlink", "manifest")})
        BY <1>9 DEF RemovalOrdered
      <3> HIDE DEF A
      <3> QED
        BY <1>1, <1>2, <3>1, TailOrdered DEF x
    <2>2. \A p \in Own : p \notin L!OwnPaths(h)
      BY <1>9, <2>1 DEF Secured
    <2>3. h.helper.override = "none"
      BY <1>9, <2>1 DEF Secured
    <2>4. L!OwnPaths(h) \subseteq Own
      BY <1>1, <1>6, OwnPathsIn DEF Shaped
    <2> QED
      BY <2>2, <2>3, <2>4
  <1>15. x.do \in {"reload", "start"} => "netdev" \notin h.files
    <2> SUFFICES ASSUME x.do \in {"reload", "start"} PROVE "netdev" \notin h.files
      OBVIOUS
    <2> DEFINE B == {L!Do("reload", "service"), L!Do("start", "service"), L!Do("start", "others")}
    <2>1. x \in B
      BY <1>1, <1>3, RemovalCases
    <2>2. Steps(s) \cap {L!Do("unlink", "netdev")} = {}
      <3>1. Ordered(s, {L!Do("unlink", "netdev")}, B)
        BY <1>9 DEF RemovalOrdered
      <3> HIDE DEF B
      <3> QED
        BY <1>1, <1>2, <2>1, <3>1, TailOrdered DEF x
    <2>3. "netdev" \notin L!OwnPaths(h)
      BY <1>9, <2>2 DEF Secured, Own
    <2> QED
      BY <2>3 DEF L!OwnPaths
  <1>16. LinuxTyped'
    <2>1. e.nm = h.nm /\ e \in L!HostStates
      BY <1>4 DEF RemovalTable
    <2>2. job' \in [kind : {"uninstall", "rollback"}, manifest : L!Manifests, steps : Seq(RemovalSteps(e.nm))]
      BY <1>1, <1>3, <1>5, <2>1
    <2> QED
      BY <1>2, <1>8, <2>1, <2>2 DEF LinuxTyped
  <1>17. Shaped'
    <2>1. L!OwnPaths(e) \subseteq L!OwnFiles(e.nm)
      BY <1>4, <1>6, <1>11 DEF Shaped, RemovalTable
    <2>2. ~e.nm => ~e.connection
      BY <1>4, <1>6 DEF Shaped, RemovalTable
    <2>3. ~e.conf.exists => e.conf = L!NoConf
      BY <1>4, <1>6, <1>7, <1>8 DEF Shaped, RemovalTable, Faithful
    <2>4. e.helper.override \in {"none", "ours"} /\ (e.helper.override = "ours" => e.helper.mode = "scoped")
      BY <1>4, <1>6, <1>13 DEF Shaped, RemovalTable
    <2>5. e.nm => e.service.active = e.service.enabled /\ e.others.active = e.others.enabled
      BY <1>4, <1>6 DEF Shaped, RemovalTable
    <2> QED
      BY <2>1, <2>2, <2>3, <2>4, <2>5 DEF Shaped
  <1>18. Owned'
    <2> SUFFICES ASSUME e.manifest.is = "none" PROVE L!OwnPaths(e) = {} /\ e.helper.override = "none"
      BY DEF Owned
    <2>1. L!OwnPaths(h) = {} /\ h.helper.override = "none"
      BY <1>4, <1>6, <1>14 DEF RemovalTable, Owned
    <2> QED
      BY <1>4, <1>11, <2>1 DEF RemovalTable
  <1>19. ASSUME NEW r, Faithful(r), r.override = m.override
         PROVE  /\ r.nm = e.nm
                /\ r.conf.exists /\ r.conf.block = "ours"
                /\ r.original = before.conf /\ r.helper = before.helper.mode
                /\ r.created = {"qemu", "farrow"} \ before.dirs
                /\ r.service = before.service /\ r.others = before.others
                /\ ~r.override => e.helper = before.helper /\ (e.family = "debian" => before.helper.mode = "scoped")
                /\ before.dirs \subseteq e.dirs
                /\ e.dirs \subseteq before.dirs \cup {"state", "qemu"} \cup IF e.nm THEN {"farrow"} ELSE {}
                /\ e.nm => e.service = before.service /\ e.others = before.others
    <2>1. e.nm = h.nm /\ e.family = h.family
      BY <1>4 DEF RemovalTable
    <2>2. ~r.override => e.helper = h.helper
      <3> SUFFICES ASSUME ~r.override PROVE e.helper = h.helper
        OBVIOUS
      <3>1. x \notin G
        BY <1>10, <1>19
      <3>2. e.helper.override = h.helper.override /\ e.helper.mode = h.helper.mode
        BY <1>4, <3>1 DEF RemovalTable
      <3>3. e.helper \in L!Helper /\ h.helper \in L!Helper
        BY <1>1, <1>4, HostFields DEF RemovalTable
      <3> QED
        BY <3>2, <3>3 DEF L!Helper
    <2>3. \A d : d \in e.dirs <=> d \in h.dirs /\ x # L!Do("rmdir", d)
      BY <1>4 DEF RemovalTable
    <2>4. e.nm => e.service = h.service /\ e.others = h.others
      BY <1>4, <2>1 DEF RemovalTable
    <2>5. e.dirs \subseteq h.dirs
      BY <2>3
    <2>6. before.dirs \subseteq e.dirs
      BY <1>3, <1>9, <1>19, <2>3 DEF Faithful
    <2> QED
      BY <1>19, <2>1, <2>2, <2>4, <2>5, <2>6 DEF Faithful
  <1>20. Recorded'
    <2>1. Faithful(job.manifest)'
      BY <1>2, <1>5, <1>7, <1>19 DEF Faithful
    <2>3. ASSUME e.manifest.is = "manifest"
          PROVE  Faithful(host.manifest)' /\ "state" \in e.dirs /\ e.manifest.override = m.override
      <3>1. e.manifest = h.manifest
        BY <1>4, <2>3 DEF RemovalTable, L!NoManifest
      <3>2. Faithful(e.manifest) /\ e.manifest.override = m.override /\ "state" \in h.dirs
        BY <1>7, <2>3, <3>1
      <3>3. "state" \in e.dirs
        BY <1>4, <1>q, <2>3, <3>1, <3>2 DEF RemovalTable
      <3> QED
        BY <1>2, <1>19, <3>2, <3>3 DEF Faithful
    <2> QED
      BY <1>2, <1>5, <1>7, <2>1, <2>3 DEF Recorded
  <1>21. Removing'
    <2>1. RemovalOrdered(t)
      BY <1>1, <1>2, <1>9, TailOrdered DEF RemovalOrdered, t
    <2>2. /\ L!Do("unlink", "conf") \in Steps(t) => m.original = L!NoConf
          /\ \A d \in before.dirs : L!Do("rmdir", d) \notin Steps(t)
          /\ Steps(t) \cap G # {} => m.override
      BY <1>3, <1>9
    <2>3. Secured(t, {L!Do("restore", "conf"), L!Do("unlink", "conf")}, {}, e.conf = m.original)
      <3>1. /\ x \in {L!Do("restore", "conf"), L!Do("unlink", "conf")} => e.conf = m.original
            /\ h.conf = m.original => e.conf = m.original
        BY <1>4, <1>12 DEF RemovalTable
      <3> QED
        BY <1>3, <1>9, <3>1 DEF Secured
    <2>4. Secured(t, {L!Do("remove", "override")}, {}, e.helper.override = "none")
      <3>1. /\ x = L!Do("remove", "override") => e.helper.override = "none"
            /\ h.helper.override = "none" => e.helper.override = "none"
        BY <1>4 DEF RemovalTable
      <3> QED
        BY <1>3, <1>9, <3>1 DEF Secured
    <2>5. Secured(t, {L!Do("chmod", "helper")}, {L!Do("chown", "helper")}, e.helper.mode = m.helper)
      <3>1. L!Do("chmod", "helper") # L!Do("chown", "helper")
        BY DoEqual
      <3>2. /\ x = L!Do("chmod", "helper") => e.helper.mode = m.helper
            /\ x # L!Do("chown", "helper") /\ h.helper.mode = m.helper => e.helper.mode = m.helper
        BY <1>4, <3>1 DEF RemovalTable
      <3>3. Ordered(s, {L!Do("chown", "helper")}, {L!Do("chmod", "helper")})
        BY <1>9 DEF RemovalOrdered
      <3>4. x = L!Do("chmod", "helper") => L!Do("chown", "helper") \notin Steps(s)
        BY <1>1, <1>2, <3>3, TailOrdered DEF x
      <3> QED
        BY <1>3, <1>9, <3>2, <3>4 DEF Secured
    <2>6. \A d \in m.created : Secured(t, {L!Do("rmdir", d)}, {}, d \notin e.dirs)
      <3> SUFFICES ASSUME NEW d \in m.created PROVE Secured(t, {L!Do("rmdir", d)}, {}, d \notin e.dirs)
        OBVIOUS
      <3>1. d \in e.dirs <=> d \in h.dirs /\ x # L!Do("rmdir", d)
        BY <1>4 DEF RemovalTable
      <3> QED
        BY <1>3, <1>9, <3>1 DEF Secured
    <2>7. \A p \in Own : Secured(t, {L!Do("unlink", p)}, {}, p \notin L!OwnPaths(e))
      BY <1>3, <1>9, <1>11 DEF Secured
    <2>8. Secured(t, {L!Do("delete", "bridge"), L!Do("delete", "connection")}, {}, ~e.link)
      <3>1. x \in {L!Do("delete", "bridge"), L!Do("delete", "connection")} => ~e.link
        BY <1>4, <1>r DEF RemovalTable
      <3>2. ~h.link => ~e.link
        BY <1>4, <1>15 DEF RemovalTable
      <3> QED
        BY <1>3, <1>9, <3>1, <3>2 DEF Secured
    <2>9. Secured(t, {L!Do("delete", "connection")}, {}, ~e.connection)
      <3>1. /\ x = L!Do("delete", "connection") => ~e.connection
            /\ ~h.connection => ~e.connection
        BY <1>4 DEF RemovalTable
      <3> QED
        BY <1>3, <1>9, <3>1 DEF Secured
    <2>10. ASSUME ~h.nm PROVE UnitsOrdered(t, m)
      BY <1>1, <1>2, <1>9, <2>10, TailOrdered DEF UnitsOrdered, t
    <2>11. ASSUME ~h.nm
           PROVE  /\ Secured(t, {L!Do(Toggle(m.service.enabled), "service")},
                            {L!Do(Untoggle(m.service.enabled), "service")}, e.service.enabled = m.service.enabled)
                  /\ Secured(t, {L!Do(Toggle(m.others.enabled), "others")},
                            {L!Do(Untoggle(m.others.enabled), "others"), L!Do("enable", "service"),
                             L!Do("disable", "service")},
                            e.others.enabled = m.others.enabled)
                  /\ Secured(t, {L!Do(Switch(m.service.active), "service")},
                            {L!Do(Unswitch(m.service.active), "service")}, e.service.active = m.service.active)
                  /\ Secured(t, {L!Do(Switch(m.others.active), "others")},
                            {L!Do(Unswitch(m.others.active), "others"), L!Do("start", "service")},
                            e.others.active = m.others.active)
      <3> DEFINE se == m.service.enabled
                 oe == m.others.enabled
                 sa == m.service.active
                 oa == m.others.active
                 A1 == {L!Do(Untoggle(se), "service")}
                 B1 == {L!Do(Toggle(se), "service")}
                 A2 == {L!Do(Untoggle(oe), "others"), L!Do("enable", "service"), L!Do("disable", "service")}
                 B2 == {L!Do(Toggle(oe), "others")}
                 A3 == {L!Do(Unswitch(sa), "service")}
                 B3 == {L!Do(Switch(sa), "service")}
                 A4 == {L!Do(Unswitch(oa), "others"), L!Do("start", "service")}
                 B4 == {L!Do(Switch(oa), "others")}
      <3>1. se \in BOOLEAN /\ oe \in BOOLEAN /\ sa \in BOOLEAN /\ oa \in BOOLEAN
        BY <1>1 DEF L!Manifests, L!Unit
      <3>2. e.service \in L!Unit /\ e.others \in L!Unit
        BY <1>4, HostFields DEF RemovalTable
      <3>3. /\ e.service.enabled \in BOOLEAN /\ e.service.active \in BOOLEAN
            /\ e.others.enabled \in BOOLEAN /\ e.others.active \in BOOLEAN
        BY <3>2 DEF L!Unit
      <3>4. UnitsTable(h, x, e)
        BY <1>4, <2>11 DEF RemovalTable
      <3>5. /\ Ordered(s, A1, B1) /\ Ordered(s, A2, B2) /\ Ordered(s, A3, B3) /\ Ordered(s, A4, B4)
            /\ Secured(s, B1, A1, h.service.enabled = se) /\ Secured(s, B2, A2, h.others.enabled = oe)
            /\ Secured(s, B3, A3, h.service.active = sa) /\ Secured(s, B4, A4, h.others.active = oa)
        BY <1>9, <2>11 DEF UnitsOrdered, UnitsRestored
      <3> HIDE DEF se, oe, sa, oa
      <3>6. /\ {Toggle(se), Untoggle(se)} = {"enable", "disable"} /\ (se => Toggle(se) = "enable")
            /\ (~se => Toggle(se) = "disable")
            /\ {Toggle(oe), Untoggle(oe)} = {"enable", "disable"} /\ (oe => Toggle(oe) = "enable")
            /\ (~oe => Toggle(oe) = "disable")
            /\ {Switch(sa), Unswitch(sa)} = {"start", "stop"} /\ (sa => Switch(sa) = "start")
            /\ (~sa => Switch(sa) = "stop")
            /\ {Switch(oa), Unswitch(oa)} = {"start", "stop"} /\ (oa => Switch(oa) = "start")
            /\ (~oa => Switch(oa) = "stop")
        BY <3>1, Switches
      <3>7. /\ x \in B1 => e.service.enabled = se
            /\ x \notin B1 \cup A1 /\ h.service.enabled = se => e.service.enabled = se
        <4>1. x \in B1 => e.service.enabled = se
          BY <3>1, <3>3, <3>4, <3>6 DEF UnitsTable
        <4>2. ASSUME x \notin B1 \cup A1 PROVE e.service.enabled = h.service.enabled
          <5>1. x \notin {L!Do(a, "service") : a \in {"enable", "disable"}}
            BY <3>6, <4>2
          <5> QED
            BY <3>4, <5>1 DEF UnitsTable
        <4> QED
          BY <4>1, <4>2
      <3>8. /\ x \in B2 => e.others.enabled = oe
            /\ x \notin B2 \cup A2 /\ h.others.enabled = oe => e.others.enabled = oe
        <4>1. x \in B2 => e.others.enabled = oe
          BY <3>1, <3>3, <3>4, <3>6 DEF UnitsTable
        <4>2. ASSUME x \notin B2 \cup A2 PROVE e.others.enabled = h.others.enabled
          <5>1. x \notin {L!Do(a, u) : a \in {"enable", "disable"}, u \in {"service", "others"}}
            BY <3>6, <4>2
          <5> QED
            BY <3>4, <5>1 DEF UnitsTable
        <4> QED
          BY <4>1, <4>2
      <3>9. /\ x \in B3 => e.service.active = sa
            /\ x \notin B3 \cup A3 /\ h.service.active = sa => e.service.active = sa
        <4>1. x \in B3 => e.service.active = sa
          BY <3>1, <3>3, <3>4, <3>6 DEF UnitsTable
        <4>2. ASSUME x \notin B3 \cup A3 PROVE e.service.active = h.service.active
          <5>1. x \notin {L!Do(a, "service") : a \in {"start", "stop"}}
            BY <3>6, <4>2
          <5> QED
            BY <3>4, <5>1 DEF UnitsTable
        <4> QED
          BY <4>1, <4>2
      <3>10. /\ x \in B4 => e.others.active = oa
             /\ x \notin B4 \cup A4 /\ h.others.active = oa => e.others.active = oa
        <4>1. x \in B4 => e.others.active = oa
          BY <3>1, <3>3, <3>4, <3>6 DEF UnitsTable
        <4>2. ASSUME x \notin B4 \cup A4 PROVE e.others.active = h.others.active
          <5>1. x \notin {L!Do(a, "others") : a \in {"start", "stop"}} \cup {L!Do("start", "service")}
            BY <3>6, <4>2
          <5> QED
            BY <3>4, <5>1 DEF UnitsTable
        <4> QED
          BY <4>1, <4>2
      <3> HIDE DEF A1, B1, A2, B2, A3, B3, A4, B4
      <3>11. /\ x \in B1 => Steps(s) \cap A1 = {}
             /\ x \in B2 => Steps(s) \cap A2 = {}
             /\ x \in B3 => Steps(s) \cap A3 = {}
             /\ x \in B4 => Steps(s) \cap A4 = {}
        BY <1>1, <1>2, <3>5, TailOrdered DEF x
      <3>12. Secured(t, B1, A1, e.service.enabled = se)
        BY <1>3, <3>5, <3>7, <3>11 DEF Secured
      <3>13. Secured(t, B2, A2, e.others.enabled = oe)
        BY <1>3, <3>5, <3>8, <3>11 DEF Secured
      <3>14. Secured(t, B3, A3, e.service.active = sa)
        BY <1>3, <3>5, <3>9, <3>11 DEF Secured
      <3>15. Secured(t, B4, A4, e.others.active = oa)
        BY <1>3, <3>5, <3>10, <3>11 DEF Secured
      <3> QED
        BY <3>12, <3>13, <3>14, <3>15 DEF A1, B1, A2, B2, A3, B3, A4, B4, se, oe, sa, oa
    <2>12. e.nm = h.nm
      BY <1>4 DEF RemovalTable
    <2> HIDE DEF G
    <2>13. ~e.nm => UnitsOrdered(t, m) /\ UnitsRestored(job.steps, job.manifest)'
      BY <1>5, <2>10, <2>11, <2>12 DEF UnitsRestored
    <2> QED
      BY <1>2, <1>5, <2>1, <2>2, <2>3, <2>4, <2>5, <2>6, <2>7, <2>8, <2>9, <2>13 DEF Removing, G
  <1>22. job'.kind # "install" /\ ~L!Idle'
    BY <1>5 DEF L!Idle
  <1> QED
    BY <1>16, <1>17, <1>18, <1>20, <1>21, <1>22 DEF LinuxInv, Installing, Standing

-----------------------------------------------------------------------------
(* The end of a command on Linux: it finishes, fails, is killed or rebooted.*)

\* What a kill or a reboot leaves of a host as it was.
Survives(h, e) ==
  /\ e \in L!HostStates
  /\ e.family = h.family /\ e.nm = h.nm /\ e.dirs = h.dirs /\ e.helper = h.helper /\ e.connection = h.connection
  /\ e.manifest \in {h.manifest, L!TornManifest}
  /\ h.nm => e.service = h.service /\ e.others = h.others
  /\ (~h.conf.exists => h.conf = L!NoConf) => (~e.conf.exists => e.conf = L!NoConf)

LEMMA LinuxRests ==
    ASSUME LinuxInv, job' = L!NoJob, before' = before, Survives(host, host'), Standing',
           L!OwnPaths(host)' \subseteq L!OwnFiles(host.nm), host.manifest.is = "none" => L!OwnPaths(host)' = {},
           host.nm => host.service.active = host.service.enabled /\ host.others.active = host.others.enabled
    PROVE  LinuxInv'
  <1>1. LinuxTyped /\ Shaped /\ Owned /\ Recorded
    BY DEF LinuxInv
  <1>2. LinuxTyped'
    BY <1>1 DEF LinuxTyped, Survives
  <1>3. Shaped'
    BY <1>1 DEF Shaped, Survives
  <1>4. Owned'
    BY <1>1 DEF Owned, Survives, L!TornManifest
  <1>5. Recorded'
    <2>1. ASSUME host'.manifest.is = "manifest"
          PROVE  Faithful(host.manifest)' /\ "state" \in host'.dirs
      <3>1. host'.manifest = host.manifest
        BY <2>1 DEF Survives, L!TornManifest
      <3>2. Faithful(host.manifest) /\ "state" \in host.dirs
        BY <1>1, <2>1, <3>1 DEF Recorded
      <3> QED
        BY <3>1, <3>2 DEF Faithful, Survives
    <2> QED
      BY <2>1 DEF Recorded
  <1>6. Installing' /\ Removing'
    BY DEF Installing, Removing, L!NoJob
  <1> QED
    BY <1>2, <1>3, <1>4, <1>5, <1>6 DEF LinuxInv

LEMMA LinuxFinish ==
    ASSUME LinuxInv, L!Finish
    PROVE  LinuxInv'
  <1>1. /\ job # L!NoJob /\ job.steps = <<>> /\ job' = L!NoJob /\ UNCHANGED <<host, before>>
        /\ job.kind \in {"install", "uninstall", "rollback"}
    BY JobKinds DEF LinuxInv, L!Finish
  <1>2. Steps(job.steps) = {}
    BY <1>1 DEF Steps
  <1>3. report' = "installed" => job.kind = "install"
    BY <1>1 DEF L!Finish
  <1>4. Standing'
    <2> SUFFICES ASSUME job.kind = "install" PROVE Standing'
      BY <1>3 DEF Standing
    <2>1. /\ host.manifest.is = "manifest" /\ "state" \in host.dirs
          /\ host.conf.exists /\ host.conf.block = "ours"
          /\ \A p \in L!OwnFiles(host.nm) : p \in host.files
          /\ host.link /\ (~host.nm => host.service.active) /\ HelperSettled
      BY <1>2 DEF LinuxInv, Installing, Secured
    <2>2. HelperSettled'
      BY <1>1, <2>1 DEF HelperSettled, HelperVerified
    <2> QED
      BY <1>1, <2>1, <2>2 DEF Standing
  <1>5. Shaped /\ Owned /\ host \in L!HostStates
    BY DEF LinuxInv, LinuxTyped
  <1>6. Survives(host, host') /\ L!OwnPaths(host)' = L!OwnPaths(host)
    BY <1>1, <1>5 DEF Survives, Shaped
  <1> QED
    BY <1>1, <1>4, <1>5, <1>6, LinuxRests DEF Shaped, Owned

LEMMA LinuxFail ==
    ASSUME LinuxInv, L!Fail
    PROVE  LinuxInv'
  <1>1. LinuxTyped /\ Shaped /\ Owned /\ host \in L!HostStates /\ job # L!NoJob
    BY JobKinds DEF LinuxInv, LinuxTyped, L!Fail
  <1>2. CASE L!Rollback
    <2>1. report = "none"
      BY <1>1 DEF LinuxInv, Recorded
    <2> QED
      BY <1>2, <2>1, LinuxRemoval DEF L!Rollback
  <1>3. CASE job' = L!NoJob /\ report' = "failed" /\ UNCHANGED <<host, before>>
    <2>1. Survives(host, host') /\ L!OwnPaths(host)' = L!OwnPaths(host)
      BY <1>1, <1>3 DEF Survives, Shaped
    <2>2. Standing'
      BY <1>3 DEF Standing
    <2> QED
      BY <1>1, <1>3, <2>1, <2>2, LinuxRests DEF Shaped, Owned
  <1> QED
    BY <1>2, <1>3 DEF L!Fail

\* A write that is cut short leaves a torn file, a restore an unreadable one.
LEMMA CutEffect ==
    ASSUME NEW h \in L!HostStates, NEW s, s = L!Do(s.do, s.on), s.do \in {"write", "restore"},
           s.do = "write" => s.on \in {"manifest", "conf"} \cup Own
    PROVE  /\ Survives(h, L!Cut(h, s))
           /\ L!OwnPaths(L!Cut(h, s)) \subseteq L!OwnPaths(h) \cup {p \in Own : s = L!Do("write", p)}
  <1> DEFINE e == L!Cut(h, s)
  <1>0. h \in L!HostStates /\ h.conf \in L!Conf
    BY HostFields
  <1>1. CASE s.do = "restore"
    <2> DEFINE v == [h.conf EXCEPT !.text = "", !.block = "none"]
    <2>1. e = [h EXCEPT !.conf = v]
      BY <1>1 DEF L!Cut
    <2>2. v \in L!Conf /\ v.exists = h.conf.exists /\ (h.conf = L!NoConf => v = L!NoConf)
      <3>1. /\ v \in L!Conf /\ v.exists = h.conf.exists /\ v.text = "" /\ v.block = "none"
        BY <1>0 DEF L!Conf
      <3>2. h.conf = L!NoConf => ~v.exists
        <4>1. h.conf = L!NoConf => ~h.conf.exists
          <5>1. L!NoConf.exists = FALSE
            BY DEF L!NoConf
          <5> QED
            BY <5>1
        <4> HIDE DEF v
        <4> QED
          BY <3>1, <4>1
      <3>3. ~v.exists => v = L!NoConf
        <4> HIDE DEF v
        <4> QED
          BY <3>1 DEF L!Conf, L!NoConf
      <3> QED
        BY <3>1, <3>2, <3>3
    <2> HIDE DEF e, v
    <2>3. Differ(h, e, {"conf"}) /\ e.conf = v
      BY <2>1, OneField DEF Fields
    <2>4. e \in L!HostStates
      BY <2>2, <2>3, HostFromFields
    <2>5. Survives(h, e) /\ L!OwnPaths(e) = L!OwnPaths(h)
      BY <2>2, <2>3, <2>4, DifferFields DEF Survives, L!OwnPaths
    <2> QED
      BY <2>5 DEF e
  <1>2. CASE s.do = "write" /\ s.on = "manifest"
    <2>1. e = [h EXCEPT !.manifest = L!TornManifest]
      BY <1>2 DEF L!Cut, L!Torn
    <2> HIDE DEF e
    <2>2. Differ(h, e, {"manifest"}) /\ e.manifest = L!TornManifest
      BY <2>1, OneField DEF Fields
    <2>3. e \in L!HostStates
      BY <2>2, HostFromFields
    <2>4. Survives(h, e) /\ L!OwnPaths(e) = L!OwnPaths(h)
      BY <2>2, <2>3, DifferFields DEF Survives, L!OwnPaths
    <2> QED
      BY <2>4 DEF e
  <1>3. CASE s.do = "write" /\ s.on = "conf"
    <2> DEFINE v == [exists |-> TRUE, text |-> "", block |-> "torn"]
    <2>1. e = [h EXCEPT !.conf = v]
      BY <1>3 DEF L!Cut, L!Torn
    <2>2. v \in L!Conf /\ v.exists
      BY DEF L!Conf
    <2> HIDE DEF e, v
    <2>3. Differ(h, e, {"conf"}) /\ e.conf = v
      BY <2>1, OneField DEF Fields
    <2>4. e \in L!HostStates
      BY <2>2, <2>3, HostFromFields
    <2>5. Survives(h, e) /\ L!OwnPaths(e) = L!OwnPaths(h)
      BY <2>2, <2>3, <2>4, DifferFields DEF Survives, L!OwnPaths
    <2> QED
      BY <2>5 DEF e
  <1>4. CASE s.do = "write" /\ s.on \in Own
    <2> DEFINE v == h.files \ {s.on}
               w == h.torn \cup {s.on}
    <2>1. e = [h EXCEPT !.files = v, !.torn = w]
      BY <1>4 DEF L!Cut, L!Torn, Own
    <2>2. v \subseteq L!Files /\ w \subseteq L!Files
      BY <1>4, HostFields DEF Own, L!Files
    <2>3. v \cup w \subseteq L!OwnPaths(h) \cup {p \in Own : s = L!Do("write", p)}
      BY <1>4 DEF L!OwnPaths
    <2> HIDE DEF e, v, w
    <2>4. Differ(h, e, {"files", "torn"}) /\ e.files = v /\ e.torn = w
      BY <2>1, HostFields DEF Differ, Fields
    <2>5. e \in L!HostStates
      BY <2>2, <2>4, HostFromFields
    <2>6. Survives(h, e) /\ L!OwnPaths(e) = v \cup w
      BY <2>4, <2>5, DifferFields DEF Survives, L!OwnPaths
    <2> QED
      BY <2>3, <2>6 DEF e
  <1> QED
    BY <1>1, <1>2, <1>3, <1>4

LEMMA RebootEffect ==
    ASSUME NEW h \in L!HostStates,
           h.nm => h.service.active = h.service.enabled /\ h.others.active = h.others.enabled
    PROVE  /\ Survives(h, L!Rebooted(h)) /\ L!OwnPaths(L!Rebooted(h)) = L!OwnPaths(h)
           /\ L!Rebooted(h).manifest = h.manifest /\ L!Rebooted(h).conf = h.conf
           /\ LET r == L!Rebooted(h)
              IN r.nm => r.service.active = r.service.enabled /\ r.others.active = r.others.enabled
  <1> DEFINE u == [h.service EXCEPT !.active = h.service.enabled]
             o == [h.others EXCEPT !.active = h.others.enabled]
             g == [h EXCEPT !.service = u, !.others = o]
             f == [g EXCEPT !.attached = FALSE]
             v == (h.nm /\ h.connection) \/ L!BridgeUp(f)
             e == [f EXCEPT !.link = v]
  <1>0. h.service \in L!Unit /\ h.others \in L!Unit /\ h.connection \in BOOLEAN
    BY HostFields
  <1>1. /\ u \in L!Unit /\ o \in L!Unit
        /\ h.service.active = h.service.enabled => u = h.service
        /\ h.others.active = h.others.enabled => o = h.others
        /\ u.active = u.enabled /\ o.active = o.enabled
    BY <1>0 DEF L!Unit
  <1>2. L!Rebooted(h) = e
    BY DEF L!Rebooted
  <1>3. v \in BOOLEAN
    BY <1>0 DEF L!BridgeUp
  <1> HIDE DEF u, o, v
  <1>4. Differ(h, g, {"service", "others"}) /\ g.service = u /\ g.others = o
    BY HostFields DEF Differ, Fields, g
  <1>5. g \in L!HostStates
    BY <1>1, <1>4, HostFromFields
  <1> HIDE DEF g
  <1>6. Differ(g, f, {"attached"}) /\ f.attached = FALSE
    BY <1>5, OneField DEF Fields
  <1>7. f \in L!HostStates
    BY <1>5, <1>6, HostFromFields
  <1> HIDE DEF f
  <1>8. Differ(f, e, {"link"}) /\ e.link = v
    BY <1>7, OneField DEF Fields
  <1>9. e \in L!HostStates
    BY <1>3, <1>7, <1>8, HostFromFields
  <1> HIDE DEF e
  <1>10. /\ g.family = h.family /\ g.nm = h.nm /\ g.dirs = h.dirs /\ g.helper = h.helper
         /\ g.connection = h.connection /\ g.manifest = h.manifest /\ g.conf = h.conf /\ g.files = h.files
         /\ g.torn = h.torn
    BY <1>4, DifferFields
  <1>11. /\ f.family = g.family /\ f.nm = g.nm /\ f.dirs = g.dirs /\ f.helper = g.helper
         /\ f.connection = g.connection /\ f.manifest = g.manifest /\ f.conf = g.conf /\ f.files = g.files
         /\ f.torn = g.torn /\ f.service = g.service /\ f.others = g.others
    BY <1>6, DifferFields
  <1>12. /\ e.family = f.family /\ e.nm = f.nm /\ e.dirs = f.dirs /\ e.helper = f.helper
         /\ e.connection = f.connection /\ e.manifest = f.manifest /\ e.conf = f.conf /\ e.files = f.files
         /\ e.torn = f.torn /\ e.service = f.service /\ e.others = f.others
    BY <1>8, DifferFields
  <1>13. Survives(h, e) /\ L!OwnPaths(e) = L!OwnPaths(h)
    BY <1>1, <1>4, <1>9, <1>10, <1>11, <1>12 DEF Survives, L!OwnPaths
  <1> QED
    BY <1>1, <1>2, <1>4, <1>10, <1>11, <1>12, <1>13

\* What a killed command was writing: its own files need the manifest there.
LEMMA LinuxKilled ==
    ASSUME LinuxInv, NEW h \in L!HostStates, Survives(host, h), L!OwnPaths(h) = L!OwnPaths(host),
           h.manifest = host.manifest, h.conf = host.conf, job # L!NoJob,
           L!Killed(h), job' = L!NoJob, before' = before, report' = "none"
    PROVE  LinuxInv'
  <1>1. LinuxTyped /\ Shaped /\ Owned /\ host \in L!HostStates
    BY DEF LinuxInv, LinuxTyped
  <1>2. Standing'
    BY DEF Standing
  <1>3. CASE host' = h
    <2>1. L!OwnPaths(host)' = L!OwnPaths(host)
      BY <1>3
    <2> QED
      BY <1>1, <1>2, <1>3, <2>1, LinuxRests DEF Shaped, Owned
  <1>4. CASE /\ job.steps # <<>> /\ Head(job.steps).do \in {"write", "restore"}
             /\ host' = L!Cut(h, Head(job.steps))
    <2> DEFINE x == Head(job.steps)
               nm == host.nm
    <2>1. /\ x.do = "restore" => job.kind \in {"uninstall", "rollback"}
          /\ x.do = "write" => job.kind = "install" /\ x.on \in {"manifest", "conf"} \cup L!OwnFiles(nm)
          /\ x = L!Do(x.do, x.on)
      <3>0. nm \in BOOLEAN
        BY <1>1, HostFields
      <3>1. CASE job.kind = "install"
        <4>1. x \in InstallSteps(nm)
          BY <1>1, <1>4, <3>1, JobKinds, TailSteps
        <4> HIDE DEF x, nm
        <4> QED
          BY <3>0, <3>1, <4>1, InstallCases
      <3>2. CASE job.kind \in {"uninstall", "rollback"}
        <4>1. x \in RemovalSteps(nm)
          BY <1>1, <1>4, <3>2, JobKinds, TailSteps
        <4> HIDE DEF x, nm
        <4> QED
          BY <3>0, <3>2, <4>1, RemovalCases
      <3> QED
        BY <1>1, <3>1, <3>2, JobKinds
    <2>2. /\ Survives(h, host')
          /\ L!OwnPaths(host)' \subseteq L!OwnPaths(host) \cup {p \in Own : x = L!Do("write", p)}
      <3>1. x.do = "write" => x.on \in {"manifest", "conf"} \cup Own
        BY <1>1, <2>1, HostFields, OwnPathsIn
      <3>2. x.do \in {"write", "restore"} /\ host' = L!Cut(h, x)
        BY <1>4
      <3> HIDE DEF x
      <3> QED
        BY <2>1, <3>1, <3>2, CutEffect
    <2>3. Survives(host, host')
      BY <2>2 DEF Survives
    <2>4. L!OwnPaths(host)' \subseteq L!OwnFiles(nm)
      <3>1. ASSUME NEW p \in Own, x = L!Do("write", p) PROVE p \in L!OwnFiles(nm)
        <4>1. x.do = "write" /\ x.on = p
          BY <3>1, DoIs
        <4> QED
          BY <2>1, <4>1 DEF Own
      <3>2. L!OwnPaths(host) \subseteq L!OwnFiles(nm)
        BY <1>1 DEF Shaped
      <3> QED
        BY <2>2, <3>1, <3>2
    <2>5. host.manifest.is = "none" => L!OwnPaths(host)' = {}
      <3> SUFFICES ASSUME host.manifest.is = "none", NEW p \in Own, x = L!Do("write", p) PROVE FALSE
        BY <1>1, <2>2 DEF Owned
      <3>1. x.do = "write"
        BY DoIs
      <3>2. job.kind = "install" /\ job.steps \in Seq(InstallSteps(nm))
        BY <1>1, <2>1, <3>1, JobKinds
      <3> DEFINE A == {L!Do("write", "manifest")}
                 B == {L!Do("write", q) : q \in Own} \cup {L!Do("override", "helper")}
      <3>3. Ordered(job.steps, A, B) /\ x \in B
        BY <3>2 DEF LinuxInv, Installing
      <3>4. Secured(job.steps, A, {}, host.manifest.is = "manifest")
        BY <3>2 DEF LinuxInv, Installing
      <3> HIDE DEF A, B
      <3>5. Steps(job.steps) \cap A = {}
        BY <1>4, <3>2, <3>3, TailOrdered
      <3> QED
        BY <3>4, <3>5 DEF Secured
    <2> QED
      BY <1>1, <1>2, <2>3, <2>4, <2>5, LinuxRests DEF Shaped
  <1> QED
    BY <1>3, <1>4 DEF L!Killed

LEMMA LinuxKill ==
    ASSUME LinuxInv, L!Kill
    PROVE  LinuxInv'
  <1>1. LinuxTyped /\ Shaped /\ host \in L!HostStates /\ job # L!NoJob
    BY JobKinds DEF LinuxInv, LinuxTyped, L!Kill
  <1>2. Survives(host, host)
    BY <1>1 DEF Survives, Shaped
  <1> QED
    BY <1>1, <1>2, LinuxKilled DEF L!Kill

LEMMA LinuxReboot ==
    ASSUME LinuxInv, L!Reboot
    PROVE  LinuxInv'
  <1>1. LinuxTyped /\ Shaped /\ Owned /\ host \in L!HostStates
    BY DEF LinuxInv, LinuxTyped
  <1> DEFINE r == L!Rebooted(host)
  <1>2. /\ Survives(host, r) /\ L!OwnPaths(r) = L!OwnPaths(host) /\ r \in L!HostStates
        /\ r.manifest = host.manifest /\ r.conf = host.conf
    BY <1>1, RebootEffect DEF Shaped, Survives
  <1> HIDE DEF r
  <1>3. job' = L!NoJob /\ report' = "none" /\ before' = before
    BY DEF L!Reboot
  <1>4. CASE L!Idle
    <2>1. host' = r
      BY <1>4 DEF L!Reboot, r
    <2>2. L!OwnPaths(host)' = L!OwnPaths(host) /\ Standing'
      BY <1>2, <1>3, <2>1 DEF Standing
    <2> QED
      BY <1>1, <1>2, <1>3, <2>1, <2>2, LinuxRests DEF Shaped, Owned
  <1>5. CASE ~L!Idle
    <2>1. L!Killed(r) /\ job # L!NoJob
      BY <1>1, <1>5, JobKinds DEF L!Reboot, r
    <2> QED
      BY <1>2, <1>3, <2>1, LinuxKilled
  <1> QED
    BY <1>4, <1>5

-----------------------------------------------------------------------------
(* What happens around the commands on Linux, and what starts them.        *)

LEMMA LinuxUntouched ==
    ASSUME LinuxInv, host' \in L!HostStates, UNCHANGED <<job, before, report>>,
           host'.family = host.family, host'.nm = host.nm, host'.service = host.service,
           host'.others = host.others, host'.conf = host.conf, host'.files = host.files,
           host'.torn = host.torn, host'.dirs = host.dirs, host'.manifest = host.manifest,
           host'.helper = host.helper, host'.link = host.link, host'.connection = host.connection
    PROVE  LinuxInv'
  <1>1. L!OwnPaths(host)' = L!OwnPaths(host)
    BY DEF L!OwnPaths
  <1>2. LinuxTyped'
    BY DEF LinuxInv, LinuxTyped
  <1>3. Shaped' /\ Owned'
    BY <1>1 DEF LinuxInv, Shaped, Owned
  <1>4. \A m : Faithful(m) => Faithful(m)'
    BY DEF Faithful
  <1>5. Recorded'
    <2>1. host.manifest.is = "manifest" => Faithful(host.manifest)' /\ "state" \in host'.dirs
      BY DEF LinuxInv, Recorded, Faithful
    <2>2. job # L!NoJob => Faithful(job.manifest)'
      BY DEF LinuxInv, Recorded, Faithful
    <2> QED
      BY <2>1, <2>2 DEF LinuxInv, Recorded
  <1>6. HelperSettled' <=> HelperSettled
    BY DEF HelperSettled, HelperVerified
  <1>7. Installing'
    BY <1>6 DEF LinuxInv, Installing, Secured
  <1>8. Removing'
    <2>1. UnitsRestored(job.steps, job.manifest) => UnitsRestored(job.steps, job.manifest)'
      BY DEF UnitsRestored
    <2> QED
      BY <1>1, <2>1 DEF LinuxInv, Removing, Secured, RemovalOrdered, UnitsOrdered
  <1>9. Standing'
    BY <1>6 DEF LinuxInv, Standing, L!Idle
  <1> QED
    BY <1>2, <1>3, <1>5, <1>7, <1>8, <1>9 DEF LinuxInv

LEMMA LinuxSurroundings ==
    ASSUME LinuxInv, L!Surroundings
    PROVE  LinuxInv'
  <1>1. /\ host \in L!HostStates /\ LinuxTyped /\ Shaped /\ Owned
        /\ L!Idle <=> job = L!NoJob
    BY JobKinds DEF LinuxInv, LinuxTyped
  <1>2. CASE L!Attach \/ L!Detach
    <2>1. PICK v \in BOOLEAN : host' = [host EXCEPT !.attached = v]
      BY <1>2 DEF L!Attach, L!Detach
    <2>2. Differ(host, host', {"attached"}) /\ host'.attached = v
      BY <1>1, <2>1, OneField DEF Fields
    <2>3. host' \in L!HostStates
      BY <1>1, <2>1, <2>2, HostFromFields
    <2>4. UNCHANGED <<job, before, report>>
      BY <1>2 DEF L!Attach, L!Detach
    <2>5. /\ host'.family = host.family /\ host'.nm = host.nm /\ host'.service = host.service
          /\ host'.others = host.others /\ host'.conf = host.conf /\ host'.files = host.files
          /\ host'.torn = host.torn /\ host'.dirs = host.dirs /\ host'.manifest = host.manifest
          /\ host'.helper = host.helper /\ host'.link = host.link /\ host'.connection = host.connection
      BY <2>2, DifferFields
    <2> QED
      BY <2>3, <2>4, <2>5, LinuxUntouched
  <1>5. CASE L!EditConfigs
    <2>1. PICK v \in SUBSET Configs : host' = [host EXCEPT !.configs = v]
      BY <1>5 DEF L!EditConfigs
    <2>2. Differ(host, host', {"configs"}) /\ host'.configs = v
      BY <1>1, <2>1, OneField DEF Fields
    <2>3. host' \in L!HostStates
      BY <1>1, <2>1, <2>2, HostFromFields
    <2>4. UNCHANGED <<job, before, report>>
      BY <1>5 DEF L!EditConfigs
    <2>5. /\ host'.family = host.family /\ host'.nm = host.nm /\ host'.service = host.service
          /\ host'.others = host.others /\ host'.conf = host.conf /\ host'.files = host.files
          /\ host'.torn = host.torn /\ host'.dirs = host.dirs /\ host'.manifest = host.manifest
          /\ host'.helper = host.helper /\ host'.link = host.link /\ host'.connection = host.connection
      BY <2>2, DifferFields
    <2> QED
      BY <2>3, <2>4, <2>5, LinuxUntouched
  <1>3. CASE L!EditConf
    <2> DEFINE v == [host.conf EXCEPT !.text = "b"]
    <2>1. host' = [host EXCEPT !.conf = v] /\ host.conf.exists /\ UNCHANGED <<job, before, report>> /\ L!Idle
      BY <1>3 DEF L!EditConf
    <2>2. v \in L!Conf /\ v.exists = host.conf.exists /\ v.block = host.conf.block
      BY <1>1, HostFields DEF L!Conf
    <2> HIDE DEF v
    <2>3. Differ(host, host', {"conf"}) /\ host'.conf = v
      BY <1>1, <2>1, OneField DEF Fields
    <2>4. host' \in L!HostStates
      BY <1>1, <2>2, <2>3, HostFromFields
    <2>5. /\ host'.family = host.family /\ host'.nm = host.nm /\ host'.service = host.service
          /\ host'.others = host.others /\ host'.files = host.files
          /\ host'.torn = host.torn /\ host'.dirs = host.dirs /\ host'.manifest = host.manifest
          /\ host'.helper = host.helper /\ host'.link = host.link /\ host'.connection = host.connection
      BY <2>3, DifferFields
    <2>6. Survives(host, host') /\ L!OwnPaths(host)' = L!OwnPaths(host)
      BY <2>1, <2>2, <2>3, <2>4, <2>5 DEF Survives, L!OwnPaths
    <2>7. Standing'
      <3>1. HelperSettled' <=> HelperSettled
        BY <2>1, <2>5 DEF HelperSettled, HelperVerified
      <3> QED
        BY <2>1, <2>2, <2>3, <2>5, <3>1 DEF LinuxInv, Standing
    <2> QED
      BY <1>1, <2>1, <2>6, <2>7, LinuxRests DEF Shaped, Owned
  <1>4. CASE L!CleanState
    <2> DEFINE v == host.dirs \ {"state"}
    <2>1. /\ host' = [host EXCEPT !.dirs = v] /\ host.manifest.is = "none"
          /\ UNCHANGED <<job, before, report>> /\ L!Idle
      BY <1>4 DEF L!CleanState
    <2>2. v \subseteq L!Dirs
      BY <1>1, HostFields
    <2> HIDE DEF v
    <2>3. Differ(host, host', {"dirs"}) /\ host'.dirs = v
      BY <1>1, <2>1, OneField DEF Fields
    <2>4. host' \in L!HostStates
      BY <1>1, <2>2, <2>3, HostFromFields
    <2>5. /\ host'.family = host.family /\ host'.nm = host.nm /\ host'.service = host.service
          /\ host'.others = host.others /\ host'.files = host.files /\ host'.conf = host.conf
          /\ host'.torn = host.torn /\ host'.manifest = host.manifest
          /\ host'.helper = host.helper /\ host'.link = host.link /\ host'.connection = host.connection
      BY <2>3, DifferFields
    <2>6. L!OwnPaths(host)' = L!OwnPaths(host) /\ job = L!NoJob
      BY <1>1, <2>1, <2>5 DEF L!OwnPaths
    <2>7. LinuxTyped'
      BY <1>1, <2>1, <2>4, <2>6 DEF LinuxTyped
    <2>8. Shaped' /\ Owned'
      BY <1>1, <2>5, <2>6 DEF Shaped, Owned
    <2>9. Recorded' /\ Installing' /\ Removing'
      BY <2>1, <2>5, <2>6 DEF Recorded, Installing, Removing, L!NoJob
    <2>10. Standing'
      BY <2>1, <2>5 DEF LinuxInv, Standing
    <2> QED
      BY <2>7, <2>8, <2>9, <2>10 DEF LinuxInv
  <1> QED
    BY <1>2, <1>3, <1>4, <1>5 DEF L!Surroundings

\* With a clean report, or one that offers a repair, a host is verified or bare.
LEMMA ReportIsIntact ==
    ASSUME OnLinux, Offered \/ Ready(Evaluate(Request("install"), Snapshot))
    PROVE  ~Anchored \/ (Complete /\ Verified /\ ~(NetworkdShape /\ NetworkManagerShape))
  <1> DEFINE status == IF ~Anchored THEN "absent"
                       ELSE IF NetworkdShape /\ NetworkManagerShape THEN "invalid"
                       ELSE IF ~Complete THEN "partial"
                       ELSE IF Verified THEN "protected" ELSE "invalid"
  <1>1. Snapshot.status = status
    BY DEF Snapshot, CollectLinux, Nothing
  <1>2. CASE Offered
    <2>1. status \in {"exact", "protected"}
      BY <1>1, <1>2 DEF Offered, CanRepair
    <2> QED
      BY <2>1
  <1>3. CASE Ready(Evaluate(Request("install"), Snapshot))
    <2>1. Error("installation.integrity") \notin InstallationFindings(Request("install"), Snapshot)
      BY <1>3 DEF Ready, Errors, Evaluate, Error, Finding
    <2>2. status \notin {"partial", "invalid"}
      BY <1>1, <2>1 DEF InstallationFindings
    <2> QED
      BY <2>2
  <1> QED
    BY <1>2, <1>3

LEMMA LinuxInductive ==
    ASSUME LinuxInv, [Next]_vars
    PROVE  LinuxInv'
  <1>1. ASSUME LinuxIdle PROVE LinuxInv'
    <2>1. host \in L!HostStates
      BY DEF LinuxInv, LinuxTyped
    <2> QED
      BY <1>1, <2>1, LinuxUntouched DEF LinuxIdle
  <1>2. ASSUME OnLinux, Offered \/ Ready(Evaluate(Request("install"), Snapshot)), L!Install
        PROVE  LinuxInv'
    <2>1. "state" \notin host.dirs \/ HelperVerified
      BY <1>2, ReportIsIntact DEF Anchored, Verified
    <2> QED
      BY <1>2, <2>1, LinuxInstall
  <1>3. CASE Setup
    BY <1>1, <1>2, <1>3 DEF Setup, SetupInstalls
  <1>4. CASE NetworkInstall
    BY <1>1, <1>2, <1>4 DEF NetworkInstall
  <1>5. CASE NetworkUninstall
    BY <1>1, <1>5, LinuxRemoval DEF NetworkUninstall, L!Uninstall
  <1>6. CASE Linux
    <2>1. CASE L!Step
      BY <2>1, LinuxInstallStep, LinuxRemovalStep, JobKinds DEF LinuxInv, L!Step, L!Idle
    <2> QED
      BY <1>6, <2>1, LinuxFinish, LinuxFail, LinuxKill, LinuxReboot, LinuxSurroundings DEF Linux, L!Progress
  <1>7. CASE Darwin \/ RouteChange \/ UNCHANGED vars
    BY <1>1, <1>7 DEF Darwin, RouteChange, vars, LinuxIdle
  <1> QED
    BY <1>3, <1>4, <1>5, <1>6, <1>7 DEF Next

\* Wherever an install, its rollback or an uninstall of a Linux host is
\* (InstallConfig, rollbackInstall and Uninstall, linux/executor.go), what it is
\* to bring about is there or the step that brings it about is to come.
THEOREM LinuxInvariance == Spec => []LinuxInv
  <1>1. Init => LinuxInv
    BY LinuxInit
  <1>2. LinuxInv /\ [Next]_vars => LinuxInv'
    BY LinuxInductive
  <1> QED
    BY <1>1, <1>2, PTL DEF Spec

-----------------------------------------------------------------------------
(* What the invariant says of the Linux host.                              *)

LEMMA LinuxAccepts ==
    ASSUME LinuxInv
    PROVE  RepairIsAccepted
  <1> SUFFICES ASSUME OnLinux, L!Idle, Offered, host.manifest.is # "torn", ~host.nm => L!ActivationSafe(host)
               PROVE  L!InstallAccepted(host)
    BY DEF RepairIsAccepted
  <1>1. host \in L!HostStates /\ host.nm \in BOOLEAN /\ host.helper \in L!Helper /\ host.family \in {"debian", "rpm"}
    BY HostFields DEF LinuxInv, LinuxTyped
  <1>2. Anchored
    <2>1. ~Anchored => Snapshot.status = "absent"
      BY DEF Snapshot, CollectLinux, Nothing
    <2> QED
      BY <2>1 DEF Offered, CanRepair
  <1>3. Complete /\ Verified
    BY <1>2, ReportIsIntact
  <1>4. host.manifest.is = "manifest"
    <2>1. host.manifest \in L!Manifests \cup {L!NoManifest, L!TornManifest}
      BY <1>1, HostFields
    <2>2. host.manifest.is \in {"manifest", "none", "torn"}
      BY <2>1 DEF L!Manifests, L!NoManifest, L!TornManifest
    <2>3. L!OwnPaths(host) # {}
      BY <1>3 DEF Complete, PublicFiles
    <2> QED
      BY <2>2, <2>3 DEF LinuxInv, Owned
  <1>5. Faithful(host.manifest) /\ before.helper.override = "none"
    BY <1>4 DEF LinuxInv, LinuxTyped, Recorded
  <1>6. L!HelperAccepted(host)
    <2>1. CASE host.family = "rpm"
      BY <1>3, <2>1 DEF Verified, HelperVerified, L!HelperAccepted
    <2>2. CASE host.family = "debian"
      <3>1. host.helper.override = "ours"
        BY <1>3, <2>2 DEF Verified, HelperVerified
      <3>2. host.manifest.override
        BY <1>5, <3>1 DEF Faithful
      <3> QED
        BY <1>4, <2>2, <3>1, <3>2 DEF L!HelperAccepted
    <2> QED
      BY <1>1, <2>1, <2>2
  <1> QED
    BY <1>3, <1>4, <1>5, <1>6 DEF L!InstallAccepted, L!Discoverable, Verified, Faithful

LEMMA LinuxVerified ==
    ASSUME LinuxInv, OnLinux, L!Idle, report = "installed", before.helper.mode # "scoped"
    PROVE  \A f \in Errors(Evaluate(Request("use"), Snapshot)) : f.code = "route.overlap"
  <1>1. /\ host \in L!HostStates /\ host.nm \in BOOLEAN
        /\ L!OwnPaths(host) \subseteq L!OwnFiles(host.nm)
    BY HostFields DEF LinuxInv, LinuxTyped, Shaped
  <1>2. /\ L!OwnFiles(host.nm) \subseteq host.files
        /\ host.conf.exists /\ host.conf.block = "ours" /\ "state" \in host.dirs
        /\ host.link /\ (~host.nm => host.service.active) /\ HelperVerified
    BY DEF LinuxInv, Standing, HelperSettled
  <1>3. /\ PublicFiles = L!OwnFiles(host.nm) /\ ~(NetworkdShape /\ NetworkManagerShape)
        /\ PublicFiles = {"public"} <=> host.nm
    <2>1. host.files \subseteq L!OwnPaths(host)
      BY DEF L!OwnPaths
    <2>2. CASE host.nm
      BY <1>1, <1>2, <2>1, <2>2 DEF PublicFiles, NetworkdShape, NetworkManagerShape, L!OwnFiles
    <2>3. CASE ~host.nm
      BY <1>1, <1>2, <2>1, <2>3 DEF PublicFiles, NetworkdShape, NetworkManagerShape, L!OwnFiles
    <2> QED
      BY <1>1, <2>2, <2>3
  <1>4. Anchored /\ Complete /\ Verified
    BY <1>2, <1>3 DEF Anchored, Complete, Verified, L!OwnPaths
  <1>5. ManagerActive
    BY <1>2, <1>3 DEF ManagerActive
  <1>6. /\ Snapshot.status = "protected" /\ Snapshot.cidr = "lab"
        /\ Snapshot.routes = routes \cup LinkRoutes(TRUE) /\ Snapshot.interfaces = {"ours"}
        /\ Snapshot.findings = {} /\ Snapshot.sharing = FALSE
    BY <1>2, <1>3, <1>4 DEF Snapshot, CollectLinux, Nothing
  <1>7. Snapshot.healthy
    BY <1>2, <1>3, <1>4, <1>5 DEF Snapshot, CollectLinux, Nothing
  <1>8. Request("use").cidr = "lab" /\ Request("use").addresses = {}
    BY DEF Request
  <1>9. InstallationFindings(Request("use"), Snapshot) = {}
    BY <1>6, <1>7, <1>8 DEF InstallationFindings
  <1>10. Exact(Request("use"), Snapshot)
    BY <1>6, <1>8 DEF Exact
  <1>11. InterfaceFindings(Request("use"), Snapshot) = {}
    BY <1>6, <1>10 DEF InterfaceFindings
  <1>12. RouteFindings(Request("use"), Snapshot) \subseteq {Error("route.overlap")}
    <2>1. [covers |-> "same", owner |-> "ours"] \in {r \in Snapshot.routes : RouteCompetes(r)}
      BY <1>6 DEF LinkRoutes, RouteCompetes
    <2> QED
      BY <2>1 DEF RouteFindings
  <1>13. Evaluate(Request("use"), Snapshot) \subseteq {Error("route.overlap")}
    BY <1>6, <1>8, <1>9, <1>11, <1>12 DEF Evaluate
  <1> QED
    BY <1>13 DEF Errors, Error, Finding

\* A removal that has no step left has given everything back.
LEMMA LinuxRestored ==
    ASSUME LinuxInv, job.kind \in {"uninstall", "rollback"}, job.steps = <<>>
    PROVE  L!Prestate(host) = before
  <1> DEFINE m == job.manifest
             s == job.steps
             b == L!Prestate(host)
  <1>1. host \in L!HostStates /\ before \in Prestates /\ before.helper.override = "none" /\ "state" \notin before.dirs
    BY DEF LinuxInv, LinuxTyped
  <1>2. Faithful(m)
    BY JobKinds DEF LinuxInv, Recorded
  <1>3. Steps(s) = {}
    BY DEF Steps
  <1>4. /\ host.conf = m.original /\ host.helper.override = "none" /\ host.helper.mode = m.helper
        /\ \A d \in m.created : d \notin host.dirs
        /\ \A p \in Own : p \notin L!OwnPaths(host)
        /\ ~host.link /\ ~host.connection
        /\ ~host.nm => UnitsRestored(s, m)
    BY <1>3 DEF LinuxInv, Removing, Secured
  <1>5. L!OwnPaths(host) = {}
    BY <1>1, <1>4, HostFields DEF L!OwnPaths, L!Files, Own
  <1>6. /\ b.conf = host.conf /\ b.helper = host.helper /\ b.service = host.service /\ b.others = host.others
        /\ b.dirs = host.dirs \ {"state"} /\ b \in Prestates
    BY <1>1, <1>4, <1>5, PrestateFields
  <1>7. before = [conf |-> before.conf, helper |-> before.helper, service |-> before.service,
                  others |-> before.others, dirs |-> before.dirs, link |-> FALSE, connection |-> FALSE, own |-> {}]
    BY <1>1 DEF Prestates
  <1>8. b = [conf |-> b.conf, helper |-> b.helper, service |-> b.service, others |-> b.others, dirs |-> b.dirs,
             link |-> FALSE, connection |-> FALSE, own |-> {}]
    BY <1>6 DEF Prestates
  <1> HIDE DEF b
  <1>9. b.conf = before.conf
    BY <1>2, <1>4, <1>6 DEF Faithful
  <1>10. b.helper = before.helper
    <2>1. host.helper \in L!Helper /\ before.helper \in L!Helper
      BY <1>1, HostFields DEF Prestates
    <2>2. host.helper.override = before.helper.override /\ host.helper.mode = before.helper.mode
      BY <1>1, <1>2, <1>4 DEF Faithful
    <2> QED
      BY <1>6, <2>1, <2>2 DEF L!Helper
  <1>11. b.service = before.service /\ b.others = before.others
    <2>1. CASE host.nm
      BY <1>2, <1>6, <2>1 DEF Faithful
    <2>2. CASE ~host.nm
      <3>1. /\ host.service \in L!Unit /\ host.others \in L!Unit
            /\ before.service \in L!Unit /\ before.others \in L!Unit
        BY <1>1, HostFields DEF Prestates
      <3>2. /\ host.service.enabled = m.service.enabled /\ host.service.active = m.service.active
            /\ host.others.enabled = m.others.enabled /\ host.others.active = m.others.active
        BY <1>3, <1>4, <2>2 DEF UnitsRestored, Secured
      <3>3. m.service = before.service /\ m.others = before.others
        BY <1>2 DEF Faithful
      <3> QED
        BY <1>6, <3>1, <3>2, <3>3 DEF L!Unit
    <2> QED
      BY <1>1, <2>1, <2>2, HostFields
  <1>12. b.dirs = before.dirs
    <2>1. /\ m.created = {"qemu", "farrow"} \ before.dirs /\ before.dirs \subseteq host.dirs
          /\ \A d \in host.dirs : d \in before.dirs \/ d \in {"state", "qemu", "farrow"}
      BY <1>2 DEF Faithful
    <2> QED
      BY <1>1, <1>4, <1>6, <2>1
  <1> QED
    BY <1>7, <1>8, <1>9, <1>10, <1>11, <1>12 DEF b

LEMMA LinuxRemovalRestores ==
    ASSUME LinuxInv, [Next]_vars, ~L!Idle, report' \in {"removed", "rolledback"}
    PROVE  L!Prestate(host') = before
  <1>1. job # L!NoJob /\ report = "none"
    BY JobKinds DEF LinuxInv, Recorded
  <1>2. Linux
    BY <1>1 DEF Next, vars, Setup, NetworkInstall, NetworkUninstall, Darwin, RouteChange, LinuxIdle,
                L!Install, L!Uninstall
  <1>3. L!Finish
    BY <1>1, <1>2 DEF Linux, L!Progress, L!Surroundings, L!Step, L!Fail, L!Rollback, L!Kill, L!Reboot, L!Attach,
                      L!Detach, L!EditConf, L!EditConfigs, L!CleanState
  <1>4. job.kind \in {"uninstall", "rollback"} /\ job.steps = <<>> /\ host' = host
    BY <1>1, <1>3, JobKinds DEF L!Finish, LinuxInv
  <1> QED
    BY <1>4, LinuxRestored

-----------------------------------------------------------------------------
(* The commands of the Mac.                                                *)

LEMMA CmdIs == \A a, b : D!Cmd(a, b).do = a /\ D!Cmd(a, b).on = b
  BY DEF D!Cmd

LEMMA CmdEqual == \A a, b, c, d : D!Cmd(a, b) = D!Cmd(c, d) => a = c /\ b = d
  BY DEF D!Cmd

\* One command for each of a list of names.
LEMMA EachIn ==
    ASSUME NEW T, NEW X, NEW what, NEW c \in Seq(X), \A y \in X : D!Cmd(what, y) \in T
    PROVE  D!Each(what, c) \in Seq(T)
  <1>1. Len(c) \in Nat /\ DOMAIN c = 1 .. Len(c) /\ \A i \in 1 .. Len(c) : c[i] \in X
    BY ElementOfSeq
  <1>2. D!Each(what, c) = [i \in 1 .. Len(c) |-> D!Cmd(what, c[i])]
    BY <1>1 DEF D!Each
  <1> QED
    BY <1>1, <1>2, SeqDef

LEMMA EachSteps ==
    ASSUME NEW what, NEW c
    PROVE  Steps(D!Each(what, c)) = {D!Cmd(what, y) : y \in Steps(c)}
  <1> DEFINE r == D!Each(what, c)
  <1>1. DOMAIN r = DOMAIN c /\ \A i \in DOMAIN c : r[i] = D!Cmd(what, c[i])
    BY DEF D!Each
  <1> HIDE DEF r
  <1>2. Steps(r) = {D!Cmd(what, y) : y \in Steps(c)}
    BY <1>1 DEF Steps
  <1> QED
    BY <1>2 DEF r

LEMMA ReverseSteps ==
    ASSUME NEW X, NEW c \in Seq(X)
    PROVE  D!Reverse(c) \in Seq(X) /\ Steps(D!Reverse(c)) = Steps(c)
  <1> DEFINE r == D!Reverse(c)
  <1>1. Len(c) \in Nat /\ DOMAIN c = 1 .. Len(c) /\ \A i \in 1 .. Len(c) : c[i] \in X
    BY ElementOfSeq
  <1>2. r = [i \in 1 .. Len(c) |-> c[Len(c) + 1 - i]]
    BY <1>1 DEF D!Reverse
  <1>3. \A i \in 1 .. Len(c) : Len(c) + 1 - i \in 1 .. Len(c) /\ i = Len(c) + 1 - (Len(c) + 1 - i)
    BY <1>1
  <1>4. r \in Seq(X)
    BY <1>1, <1>2, <1>3, SeqDef
  <1>5. DOMAIN r = DOMAIN c /\ \A i \in DOMAIN c : r[i] = c[Len(c) + 1 - i]
    BY <1>1, <1>2
  <1> HIDE DEF r
  <1>6. ASSUME NEW x \in Steps(r) PROVE x \in Steps(c)
    BY <1>1, <1>3, <1>5 DEF Steps
  <1>7. ASSUME NEW x \in Steps(c) PROVE x \in Steps(r)
    <2>1. PICK i \in DOMAIN c : x = c[i]
      BY DEF Steps
    <2>2. Len(c) + 1 - i \in DOMAIN r /\ r[Len(c) + 1 - i] = x
      BY <1>1, <1>3, <1>5, <2>1
    <2> QED
      BY <2>2 DEF Steps
  <1> QED
    BY <1>4, <1>6, <1>7 DEF r

\* Lists in which what comes last stands once, and what comes first.
LEMMA LongList ==
    ASSUME NEW a, NEW b, NEW c, NEW d, NEW e, NEW f
    PROVE  Steps(<<a, b, c, d, e, f>>) = {a, b, c, d, e, f}
  <1> DEFINE s == <<a, b, c, d, e, f>>
  <1>1. DOMAIN s = 1 .. 6 /\ s[1] = a /\ s[2] = b /\ s[3] = c /\ s[4] = d /\ s[5] = e /\ s[6] = f
    OBVIOUS
  <1> HIDE DEF s
  <1>2. \A i \in 1 .. 6 : i \in {1, 2, 3, 4, 5, 6}
    OBVIOUS
  <1>3. Steps(s) = {a, b, c, d, e, f}
    BY <1>1, <1>2 DEF Steps
  <1> QED
    BY <1>3 DEF s

LEMMA LongListOrdered ==
    ASSUME NEW T, NEW a \in T, NEW b \in T, NEW c \in T, NEW d \in T, NEW e \in T, NEW f \in T,
           NEW A, NEW B, {a, b, c, d, e} \cap B = {}, f \notin A
    PROVE  Ordered(<<a, b, c, d, e, f>>, A, B)
  <1> DEFINE s == <<a, b, c, d, e, f>>
  <1>1. s \in Seq(T) /\ DOMAIN s = 1 .. 6 /\ s[1] = a /\ s[2] = b /\ s[3] = c /\ s[4] = d /\ s[5] = e /\ s[6] = f
    OBVIOUS
  <1> HIDE DEF s
  <1>2. \A i \in 1 .. 6 : i \in {1, 2, 3, 4, 5, 6}
    OBVIOUS
  <1> SUFFICES ASSUME NEW i \in 1 .. 6, NEW k \in 1 .. 6, s[i] \in B, s[k] \in A PROVE k < i
    BY <1>1 DEF Ordered, s
  <1>3. i = 6
    BY <1>1, <1>2
  <1>4. k # 6
    BY <1>1
  <1> QED
    BY <1>3, <1>4

RemovedFiles == <<"socket", "daemon", "client", "plist", "state", "protected", "public", "logs">>
LEMMA RemovedFilesAre ==
    /\ RemovedFiles \in Seq(MacFiles \cup {"socket", "protected", "public"})
    /\ Steps(RemovedFiles) = MacFiles \cup {"socket", "protected", "public"}
  <1>1. /\ DOMAIN RemovedFiles = 1 .. 8 /\ RemovedFiles[1] = "socket" /\ RemovedFiles[2] = "daemon"
        /\ RemovedFiles[3] = "client" /\ RemovedFiles[4] = "plist" /\ RemovedFiles[5] = "state"
        /\ RemovedFiles[6] = "protected" /\ RemovedFiles[7] = "public" /\ RemovedFiles[8] = "logs"
    BY DEF RemovedFiles
  <1>2. \A i \in 1 .. 8 : i \in {1, 2, 3, 4, 5, 6, 7, 8}
    OBVIOUS
  <1>3. \A i \in {1, 2, 3, 4, 5, 6, 7, 8} : i \in 1 .. 8
    OBVIOUS
  <1>4. Steps(RemovedFiles) = MacFiles \cup {"socket", "protected", "public"}
    BY <1>1, <1>2, <1>3 DEF Steps, MacFiles, Pinned
  <1>5. RemovedFiles \in Seq(MacFiles \cup {"socket", "protected", "public"})
    BY DEF RemovedFiles, MacFiles, Pinned
  <1> QED
    BY <1>4, <1>5

LEMMA LongerList ==
    ASSUME NEW a, NEW b, NEW c, NEW d, NEW e, NEW f, NEW g,
           NEW h
    PROVE  Steps(<<a, b, c, d, e, f, g, h>>) = {a, b, c, d, e, f, g, h}
  <1> DEFINE s == <<a, b, c, d, e, f, g, h>>
  <1>1. DOMAIN s = 1 .. 8 /\ s[1] = a /\ s[2] = b /\ s[3] = c /\ s[4] = d
        /\ s[5] = e /\ s[6] = f /\ s[7] = g /\ s[8] = h
    OBVIOUS
  <1> HIDE DEF s
  <1>2. \A i \in 1 .. 8 : i \in {1, 2, 3, 4, 5, 6, 7, 8}
    OBVIOUS
  <1>3. Steps(s) = {a, b, c, d, e, f, g, h}
    BY <1>1, <1>2 DEF Steps
  <1> QED
    BY <1>3 DEF s

LEMMA LongerListOrdered ==
    ASSUME NEW T, NEW a \in T, NEW b \in T, NEW c \in T, NEW d \in T, NEW e \in T, NEW f \in T, NEW g \in T,
           NEW h \in T,
           NEW A, NEW B, {a, b, c, d, e, f, g} \cap B = {}, h \notin A
    PROVE  Ordered(<<a, b, c, d, e, f, g, h>>, A, B)
  <1> DEFINE s == <<a, b, c, d, e, f, g, h>>
  <1>1. s \in Seq(T) /\ DOMAIN s = 1 .. 8 /\ s[1] = a /\ s[2] = b /\ s[3] = c /\ s[4] = d
        /\ s[5] = e /\ s[6] = f /\ s[7] = g /\ s[8] = h
    OBVIOUS
  <1> HIDE DEF s
  <1>2. \A i \in 1 .. 8 : i \in {1, 2, 3, 4, 5, 6, 7, 8}
    OBVIOUS
  <1> SUFFICES ASSUME NEW i \in 1 .. 8, NEW k \in 1 .. 8, s[i] \in B, s[k] \in A PROVE k < i
    BY <1>1 DEF Ordered, s
  <1>3. i = 8
    BY <1>1, <1>2
  <1>4. k # 8
    BY <1>1
  <1> QED
    BY <1>3, <1>4

Verify == D!Cmd("verify", "all")
Bootout == D!Cmd("bootout", "service")

LEMMA MacInstallPlan ==
    LET s == D!InstallSteps
    IN /\ s \in Seq(Placing)
       /\ Verify \in Steps(s) /\ Ordered(s, MacWrites, {Verify}) /\ Steps(s) \cap Choices = {}
       /\ D!Cmd("mkdir", "root") \in Steps(s) /\ D!Cmd("mkdir", "log") \in Steps(s)
       /\ Ordered(s, {D!Cmd("mkdir", "root")}, {D!Cmd("mkdir", "libexec")})
       /\ Ordered(s, {D!Cmd("mkdir", "log")}, {D!Cmd("bootstrap", "service")})
  <1> DEFINE dirs == <<"root", "libexec", "state", "marker", "log">>
             fs == <<"daemon", "client", "plist", "state">>
             A == D!Each("mkdir", dirs)
             B == D!Each("write", fs)
             C == <<D!Cmd("snapshot", "interfaces"), D!Cmd("bootstrap", "service"), D!Cmd("kickstart", "service"),
                    D!Cmd("await", "socket"), D!Cmd("identify", "interface"), D!Cmd("write", "protected"),
                    D!Cmd("write", "public"), Verify>>
             s == (A \o B) \o C
             root == {D!Cmd("mkdir", "root")}
             libexec == {D!Cmd("mkdir", "libexec")}
             log == {D!Cmd("mkdir", "log")}
             boot == {D!Cmd("bootstrap", "service")}
  <1>1. D!InstallSteps = s
    BY DEF D!InstallSteps, Verify
  <1>2. /\ DOMAIN dirs = 1 .. 5 /\ dirs[1] = "root" /\ dirs[2] = "libexec" /\ dirs[3] = "state" /\ dirs[4] = "marker"
        /\ dirs[5] = "log" /\ dirs \in Seq(MacDirs)
    BY DEF MacDirs
  <1>3. /\ DOMAIN fs = 1 .. 4 /\ fs[1] = "daemon" /\ fs[2] = "client" /\ fs[3] = "plist" /\ fs[4] = "state"
        /\ fs \in Seq(Pinned)
    BY DEF Pinned
  <1> HIDE DEF dirs, fs
  <1>4. \A i \in 1 .. 5 : i \in {1, 2, 3, 4, 5}
    OBVIOUS
  <1>5. Steps(dirs) = MacDirs
    <2>1. \A i \in {1, 2, 3, 4, 5} : i \in 1 .. 5
      OBVIOUS
    <2> QED
      BY <1>2, <1>4, <2>1 DEF Steps, MacDirs
  <1>f. Steps(fs) = Pinned
    <2>1. \A i \in {1, 2, 3, 4} : i \in 1 .. 4
      OBVIOUS
    <2>2. \A i \in 1 .. 4 : i \in {1, 2, 3, 4}
      OBVIOUS
    <2> QED
      BY <1>3, <2>1, <2>2 DEF Steps, Pinned
  <1>6. A \in Seq(Placing) /\ Steps(A) = {D!Cmd("mkdir", d) : d \in MacDirs}
    <2>1. \A d \in MacDirs : D!Cmd("mkdir", d) \in Placing
      BY DEF Placing
    <2>2. A \in Seq(Placing) /\ Steps(A) = {D!Cmd("mkdir", d) : d \in Steps(dirs)}
      BY <1>2, <2>1, EachIn, EachSteps
    <2> QED
      BY <1>5, <2>2
  <1>7. B \in Seq(Placing) /\ Steps(B) = {D!Cmd("write", p) : p \in Pinned}
    <2>1. \A p \in Pinned : D!Cmd("write", p) \in Placing
      BY DEF Placing, MacWrites
    <2>2. B \in Seq(Placing) /\ Steps(B) = {D!Cmd("write", p) : p \in Steps(fs)}
      BY <1>3, <2>1, EachIn, EachSteps
    <2> QED
      BY <1>f, <2>2
  <1>m. /\ D!Cmd("snapshot", "interfaces") \in Placing /\ D!Cmd("bootstrap", "service") \in Placing
        /\ D!Cmd("kickstart", "service") \in Placing /\ D!Cmd("await", "socket") \in Placing
        /\ D!Cmd("identify", "interface") \in Placing /\ D!Cmd("write", "protected") \in Placing
        /\ D!Cmd("write", "public") \in Placing /\ Verify \in Placing
    BY DEF Placing, MacWrites, Verify
  <1>8. /\ C \in Seq(Placing)
        /\ Steps(C) = {D!Cmd("snapshot", "interfaces"), D!Cmd("bootstrap", "service"), D!Cmd("kickstart", "service"),
                       D!Cmd("await", "socket"), D!Cmd("identify", "interface"), D!Cmd("write", "protected"),
                       D!Cmd("write", "public"), Verify}
    <2>1. C \in Seq(Placing)
      BY <1>m
    <2> QED
      BY <2>1, LongerList
  <1>9. Ordered(C, MacWrites, {Verify})
    <2>1. Verify \notin MacWrites
      BY CmdEqual DEF Verify, MacWrites
    <2>2. {D!Cmd("snapshot", "interfaces"), D!Cmd("bootstrap", "service"), D!Cmd("kickstart", "service"),
           D!Cmd("await", "socket"), D!Cmd("identify", "interface"), D!Cmd("write", "protected"),
           D!Cmd("write", "public")} \cap {Verify} = {}
      BY CmdEqual DEF Verify
    <2> QED
      BY <1>m, <2>1, <2>2, LongerListOrdered
  <1>10. Ordered(A, root, libexec)
    <2> SUFFICES ASSUME NEW i \in DOMAIN A, NEW k \in DOMAIN A, A[i] \in libexec, A[k] \in root PROVE k < i
      BY DEF Ordered
    <2>1. DOMAIN A = 1 .. 5 /\ A[i] = D!Cmd("mkdir", dirs[i]) /\ A[k] = D!Cmd("mkdir", dirs[k])
      BY <1>2 DEF D!Each
    <2>2. dirs[i] = "libexec" /\ dirs[k] = "root"
      BY <2>1, CmdEqual
    <2> QED
      BY <1>2, <1>4, <2>1, <2>2
  <1>11. /\ Steps(B) \cap (root \cup log \cup libexec) = {} /\ Steps(C) \cap (root \cup log \cup libexec) = {}
         /\ Steps(A) \cap (boot \cup {Verify}) = {} /\ Steps(B) \cap (boot \cup {Verify}) = {}
    <2>1. Steps(B) \cap (root \cup log \cup libexec) = {}
      BY <1>7, CmdEqual
    <2>2. Steps(C) \cap (root \cup log \cup libexec) = {}
      BY <1>8, CmdEqual DEF Verify
    <2>3. Steps(A) \cap (boot \cup {Verify}) = {}
      BY <1>6, CmdEqual DEF Verify
    <2>4. Steps(B) \cap (boot \cup {Verify}) = {}
      BY <1>7, CmdEqual DEF Verify
    <2> QED
      BY <2>1, <2>2, <2>3, <2>4
  <1>12. Steps(A) \cap MacWrites = {}
    BY <1>6, CmdEqual DEF MacWrites
  <1>13. \A d \in MacDirs : D!Cmd("mkdir", d) \in Steps(A)
    BY <1>6
  <1>14. Verify \in Steps(C)
    BY <1>8
  <1>c. Steps(A) \cap Choices = {} /\ Steps(B) \cap Choices = {} /\ Steps(C) \cap Choices = {}
    <2>1. Steps(A) \cap Choices = {} /\ Steps(B) \cap Choices = {}
      BY <1>6, <1>7, CmdEqual DEF Choices
    <2>2. Steps(C) \cap Choices = {}
      BY <1>8, CmdEqual DEF Choices, Verify
    <2> QED
      BY <2>1, <2>2
  <1> HIDE DEF A, B, C, root, log, boot, libexec
  <1>15. (A \o B) \in Seq(Placing) /\ Steps(A \o B) = Steps(A) \cup Steps(B)
    BY <1>6, <1>7, CatSteps
  <1> DEFINE u == A \o B
  <1>16. Ordered(u, root, libexec)
    BY <1>6, <1>7, <1>10, <1>11, CatApart
  <1> HIDE DEF u
  <1>19. Steps(u) \cap {Verify} = {} /\ Steps(u) \cap boot = {} /\ u \in Seq(Placing)
    BY <1>11, <1>15 DEF u
  <1>d. Steps(u) \cap Choices = {}
    BY <1>15, <1>c DEF u
  <1>17. u \o C \in Seq(Placing) /\ Steps(u \o C) = Steps(u) \cup Steps(C)
    BY <1>8, <1>19, CatSteps
  <1>e. Steps(u \o C) \cap Choices = {}
    BY <1>17, <1>c, <1>d
  <1>18. Ordered(u \o C, root, libexec)
    BY <1>8, <1>11, <1>16, <1>19, CatApart
  <1>20. Ordered(u \o C, MacWrites, {Verify})
    BY <1>8, <1>9, <1>19, CatApart
  <1>21. Ordered(u \o C, log, boot)
    <2>1. Ordered(C, log, boot)
      BY <1>11 DEF Ordered, Steps
    <2> QED
      BY <1>8, <1>19, <2>1, CatApart
  <1>22. "root" \in MacDirs /\ "log" \in MacDirs
    BY DEF MacDirs
  <1> QED
    BY <1>1, <1>13, <1>14, <1>15, <1>17, <1>18, <1>20, <1>21, <1>22, <1>e DEF u, root, log, boot, libexec

LEMMA MacRestartPlan ==
    ASSUME NEW m
    PROVE  LET s == D!RestartSteps(m)
           IN /\ s \in Seq(Placing) /\ Ordered(s, MacWrites, {Verify}) /\ Verify \in Steps(s)
              /\ Steps(s) \cap Choices = {} /\ D!Cmd("mkdir", "libexec") \notin Steps(s)
  <1> DEFINE X == {D!Cmd("mkdir", "libexec")} \cup Choices
             a == IF m.loaded THEN <<>> ELSE <<D!Cmd("bootstrap", "service")>>
             b == <<D!Cmd("kickstart", "service"), D!Cmd("await", "socket"), D!Cmd("identify", "interface"),
                    D!Cmd("write", "protected"), D!Cmd("write", "public"), Verify>>
  <1>1. D!RestartSteps(m) = a \o b
    BY DEF D!RestartSteps, Verify
  <1>2. /\ D!Cmd("kickstart", "service") \in Placing /\ D!Cmd("await", "socket") \in Placing
        /\ D!Cmd("identify", "interface") \in Placing /\ D!Cmd("write", "protected") \in Placing
        /\ D!Cmd("write", "public") \in Placing /\ Verify \in Placing /\ D!Cmd("bootstrap", "service") \in Placing
    BY DEF Placing, MacWrites, Verify
  <1>3. /\ D!Cmd("kickstart", "service") # Verify /\ D!Cmd("await", "socket") # Verify
        /\ D!Cmd("identify", "interface") # Verify /\ D!Cmd("write", "protected") # Verify
        /\ D!Cmd("write", "public") # Verify /\ D!Cmd("bootstrap", "service") # Verify /\ Verify \notin MacWrites
    BY CmdEqual DEF Verify, MacWrites
  <1>x. /\ D!Cmd("kickstart", "service") \notin X /\ D!Cmd("await", "socket") \notin X
        /\ D!Cmd("identify", "interface") \notin X /\ D!Cmd("write", "protected") \notin X
        /\ D!Cmd("write", "public") \notin X /\ D!Cmd("bootstrap", "service") \notin X /\ Verify \notin X
    BY CmdEqual DEF Verify, Choices
  <1>y. Choices \subseteq X /\ D!Cmd("mkdir", "libexec") \in X
    OBVIOUS
  <1> HIDE DEF X
  <1>4. a \in Seq(Placing) /\ Steps(a) \cap {Verify} = {} /\ Steps(a) \cap X = {}
    <2>1. CASE m.loaded
      BY <2>1, ShortSteps
    <2>2. CASE ~m.loaded
      BY <1>2, <1>3, <1>x, <2>2, ShortSteps
    <2> QED
      BY <2>1, <2>2
  <1>5. b \in Seq(Placing) /\ Verify \in Steps(b) /\ Steps(b) \cap X = {} /\ Ordered(b, MacWrites, {Verify})
    <2>1. {D!Cmd("kickstart", "service"), D!Cmd("await", "socket"), D!Cmd("identify", "interface"),
           D!Cmd("write", "protected"), D!Cmd("write", "public")} \cap {Verify} = {}
      BY <1>3
    <2>2. b \in Seq(Placing) /\ Verify \in Steps(b) /\ Steps(b) \cap X = {}
      <3>1. b \in Seq(Placing)
        BY <1>2
      <3> QED
        BY <1>x, <3>1, LongList
    <2>3. Ordered(b, MacWrites, {Verify})
      BY <1>2, <1>3, <2>1, LongListOrdered
    <2> QED
      BY <2>2, <2>3
  <1> HIDE DEF a, b
  <1> DEFINE u == a \o b
  <1>6. u \in Seq(Placing) /\ Verify \in Steps(u) /\ Steps(u) \cap X = {} /\ Ordered(u, MacWrites, {Verify})
    BY <1>4, <1>5, CatSteps, CatApart
  <1> HIDE DEF u
  <1> QED
    BY <1>1, <1>y, <1>6 DEF u

\* Before the choice a repair only sees to the log directory.
LEMMA MacLogPlan ==
    ASSUME NEW c \in Choices, NEW s \in LogPlans(c)
    PROVE  /\ s \in Seq(Placing) /\ Ordered(s, MacWrites, {Verify})
           /\ Steps(s) \subseteq {D!Cmd("mkdir", "log"), D!Cmd("chmod", "log"), c} /\ c \in Steps(s)
           /\ Steps(s) \cap MacWrites = {} /\ Verify \notin Steps(s)
           /\ D!Cmd("mkdir", "libexec") \notin Steps(s)
           /\ s # <<>> => Tail(s) \in {<<>>, <<c>>}
  <1> DEFINE a == D!Cmd("mkdir", "log")
             b == D!Cmd("chmod", "log")
  <1>1. a \in Placing /\ b \in Placing /\ c \in Placing
    BY DEF Placing, MacDirs
  <1>2. \A y \in {a, b, c} : y # Verify /\ y \notin MacWrites /\ y # D!Cmd("mkdir", "libexec")
    BY CmdEqual DEF Choices, Verify, MacWrites
  <1>3. s \in {<<c>>, <<a, c>>, <<b, c>>}
    BY DEF LogPlans
  <1> HIDE DEF a, b
  <1>4. s \in Seq(Placing) /\ Steps(s) \subseteq {a, b, c} /\ c \in Steps(s)
    <2>1. CASE s = <<c>>
      BY <1>1, <2>1, ShortSteps
    <2>2. CASE s = <<a, c>>
      BY <1>1, <2>2, ShortSteps
    <2>3. CASE s = <<b, c>>
      BY <1>1, <2>3, ShortSteps
    <2> QED
      BY <1>3, <2>1, <2>2, <2>3
  <1>5. Tail(s) \in {<<>>, <<c>>}
    <2>1. \A y : Tail(<<y, c>>) = <<c>>
      OBVIOUS
    <2>2. Tail(<<c>>) = <<>>
      OBVIOUS
    <2> QED
      BY <1>3, <2>1, <2>2, Zenon
  <1>6. Steps(s) \cap MacWrites = {} /\ Verify \notin Steps(s) /\ D!Cmd("mkdir", "libexec") \notin Steps(s)
    BY <1>2, <1>4
  <1>7. Ordered(s, MacWrites, {Verify})
    BY <1>6 DEF Ordered, Steps
  <1> QED
    BY <1>4, <1>5, <1>6, <1>7 DEF a, b

\* Both removals: the service first, then every file, then directories.
Remade == {D!Cmd("rm", "logs"), D!Cmd("rm", "socket"), D!Cmd("rmdir", "log")}
LEMMA MacRemovalPlan ==
    ASSUME NEW first \in {<<>>, <<Bootout>>}, NEW c \in Seq(MacDirs)
    PROVE  LET s == first \o D!Each("rm", RemovedFiles) \o D!Each("rmdir", c)
           IN /\ s \in Seq(Clearing)
              /\ Ordered(s, {Bootout}, Remade)
              /\ Steps(s) = Steps(first) \cup {D!Cmd("rm", p) : p \in MacFiles \cup {"socket", "protected", "public"}}
                                         \cup {D!Cmd("rmdir", d) : d \in Steps(c)}
  <1> DEFINE a == D!Each("rm", RemovedFiles)
             b == D!Each("rmdir", c)
             P == MacFiles \cup {"socket", "protected", "public"}
  <1>1. a \in Seq(Clearing) /\ Steps(a) = {D!Cmd("rm", p) : p \in P}
    <2>1. \A p \in P : D!Cmd("rm", p) \in Clearing
      BY DEF Clearing
    <2> QED
      <3>1. a \in Seq(Clearing) /\ Steps(a) = {D!Cmd("rm", p) : p \in Steps(RemovedFiles)}
        BY <2>1, RemovedFilesAre, EachIn, EachSteps
      <3> QED
        BY <3>1, RemovedFilesAre
  <1>2. b \in Seq(Clearing) /\ Steps(b) = {D!Cmd("rmdir", d) : d \in Steps(c)}
    <2>1. \A d \in MacDirs : D!Cmd("rmdir", d) \in Clearing
      BY DEF Clearing
    <2> QED
      BY <2>1, EachIn, EachSteps
  <1>3. Bootout \notin Steps(a) /\ Bootout \notin Steps(b)
    BY <1>1, <1>2, CmdEqual DEF Bootout
  <1>4. first \in Seq(Clearing) /\ Steps(first) \cap Remade = {} /\ Steps(first) \subseteq {Bootout}
    <2>1. Bootout \in Clearing /\ Bootout \notin Remade
      BY CmdEqual DEF Clearing, Bootout, Remade
    <2> QED
      <3>1. CASE first = <<>>
        BY <3>1, ShortSteps
      <3>2. CASE first = <<Bootout>>
        BY <2>1, <3>2, ShortSteps
      <3> QED
        BY <3>1, <3>2
  <1> HIDE DEF a, b
  <1> DEFINE u == first \o a
  <1>5. u \in Seq(Clearing) /\ Steps(u) = Steps(first) \cup Steps(a)
    BY <1>1, <1>4, CatSteps
  <1>6. Ordered(u, {Bootout}, Remade)
    <2>1. Ordered(first, {Bootout}, Remade)
      BY <1>4 DEF Ordered, Steps
    <2> QED
      BY <1>1, <1>3, <1>4, <2>1, CatApart
  <1> HIDE DEF u
  <1>7. u \o b \in Seq(Clearing) /\ Steps(u \o b) = Steps(u) \cup Steps(b)
    BY <1>2, <1>5, CatSteps
  <1>8. Ordered(u \o b, {Bootout}, Remade)
    BY <1>2, <1>3, <1>5, <1>6, CatApart
  <1> QED
    BY <1>1, <1>2, <1>5, <1>7, <1>8 DEF u, a, b

-----------------------------------------------------------------------------
(* What the commands do to the Mac, field by field.                        *)

MacFields == {"files", "torn", "protected", "public", "dirs", "helper", "logmode", "loaded", "bridge",
              "socket", "users"}

\* n is m but for the fields F.
Alters(m, n, F) == n = [f \in MacFields |-> n[f]] /\ \A f \in MacFields \ F : n[f] = m[f]

LEMMA MacTypes ==
    ASSUME NEW m \in Macs
    PROVE  /\ DOMAIN m = MacFields
           /\ m.files \subseteq MacFiles /\ m.torn \subseteq MacFiles /\ m.dirs \subseteq MacDirs
           /\ m.protected \in Names /\ m.public \in Names /\ m.bridge \in Names
           /\ m.helper \in BOOLEAN /\ m.logmode \in BOOLEAN /\ m.loaded \in BOOLEAN /\ m.socket \in BOOLEAN
           /\ m.users \in BOOLEAN
  BY DEF Macs, MacFields

LEMMA AltersFields ==
    ASSUME NEW m, NEW n, NEW F, Alters(m, n, F)
    PROVE  /\ "files" \in F \/ n.files = m.files
           /\ "torn" \in F \/ n.torn = m.torn
           /\ "protected" \in F \/ n.protected = m.protected
           /\ "public" \in F \/ n.public = m.public
           /\ "dirs" \in F \/ n.dirs = m.dirs
           /\ "helper" \in F \/ n.helper = m.helper
           /\ "logmode" \in F \/ n.logmode = m.logmode
           /\ "loaded" \in F \/ n.loaded = m.loaded
           /\ "bridge" \in F \/ n.bridge = m.bridge
           /\ "socket" \in F \/ n.socket = m.socket
           /\ "users" \in F \/ n.users = m.users
  BY DEF Alters, MacFields

LEMMA OneAlters ==
    ASSUME NEW m \in Macs, NEW f \in MacFields, NEW v
    PROVE  Alters(m, [m EXCEPT ![f] = v], {f}) /\ [m EXCEPT ![f] = v][f] = v
  BY MacTypes DEF Alters

LEMMA MacFromFields ==
    ASSUME NEW m \in Macs, NEW n, NEW F, Alters(m, n, F),
           "files" \in F => n.files \subseteq MacFiles, "torn" \in F => n.torn \subseteq MacFiles,
           "dirs" \in F => n.dirs \subseteq MacDirs, "protected" \in F => n.protected \in Names,
           "public" \in F => n.public \in Names, "bridge" \in F => n.bridge \in Names,
           "helper" \in F => n.helper \in BOOLEAN, "logmode" \in F => n.logmode \in BOOLEAN,
           "loaded" \in F => n.loaded \in BOOLEAN, "socket" \in F => n.socket \in BOOLEAN,
           "users" \in F => n.users \in BOOLEAN
    PROVE  n \in Macs
  <1>1. n = [files |-> n.files, torn |-> n.torn, protected |-> n.protected, public |-> n.public, dirs |-> n.dirs,
             helper |-> n.helper, logmode |-> n.logmode, loaded |-> n.loaded, bridge |-> n.bridge,
             socket |-> n.socket, users |-> n.users]
    BY DEF MacFields, Alters
  <1> QED
    BY <1>1, MacTypes, AltersFields DEF Macs

\* The daemon starts: its log, its socket and its interface.
StartTable(m, n) ==
  /\ n \in Macs
  /\ n.files = m.files \cup {"logs"} /\ n.dirs = m.dirs \cup {"log"} /\ n.torn = m.torn
  /\ n.protected = m.protected /\ n.public = m.public /\ n.helper = m.helper /\ n.loaded = m.loaded

LEMMA StartEffect ==
    ASSUME NEW m \in Macs, NEW name \in Names
    PROVE  StartTable(m, D!Started(m, name))
  <1> DEFINE up == m.socket \/ name # NoName
             mode == m.logmode /\ "log" \in m.dirs
             fs == m.files \cup {"logs"}
             ds == m.dirs \cup {"log"}
             n == [m EXCEPT !.bridge = name, !.socket = up, !.users = FALSE, !.files = fs, !.dirs = ds,
                            !.logmode = mode]
  <1>1. D!Started(m, name) = n
    BY DEF D!Started
  <1>2. up \in BOOLEAN /\ mode \in BOOLEAN /\ fs \subseteq MacFiles /\ ds \subseteq MacDirs
    BY MacTypes DEF MacFiles, MacDirs
  <1> HIDE DEF up, mode, fs, ds
  <1>3. /\ Alters(m, n, {"bridge", "socket", "users", "files", "dirs", "logmode"})
        /\ n.bridge = name /\ n.socket = up /\ n.users = FALSE /\ n.files = fs /\ n.dirs = ds /\ n.logmode = mode
    BY MacTypes DEF Alters, MacFields
  <1> HIDE DEF n
  <1>4. n \in Macs
    BY <1>2, <1>3, MacFromFields
  <1>5. n.torn = m.torn /\ n.protected = m.protected /\ n.public = m.public /\ n.helper = m.helper
        /\ n.loaded = m.loaded
    BY <1>3, AltersFields
  <1> QED
    BY <1>1, <1>3, <1>4, <1>5 DEF StartTable, fs, ds

\* The two copies of the interface name, the pinned files, the two markers.
ReadTable(m) ==
  /\ m.torn = {} /\ Pinned \subseteq m.files /\ {"state", "marker"} \subseteq m.dirs
  /\ m.public # NoName /\ m.protected = m.public

Six == {"daemon", "client", "plist", "state", "marker", "public"}
LEMMA RequiredSix ==
    ASSUME NEW m \in Macs
    PROVE  D!AllRequired(m) <=> /\ {"daemon", "client", "plist"} \subseteq m.files \cup m.torn
                                /\ {"state", "marker"} \subseteq m.dirs /\ m.public # NoName
  <1> DEFINE R == D!RequiredPresent(m)
  <1>1. R \subseteq Six
    BY DEF D!RequiredPresent, Six
  <1>2. IsFiniteSet(Six) /\ Cardinality(Six) = 6
    <2>1. IsFiniteSet({"daemon"}) /\ Cardinality({"daemon"}) = 1
      BY FS_Singleton
    <2>2. IsFiniteSet({"daemon", "client"}) /\ Cardinality({"daemon", "client"}) = 2
      <3>1. {"daemon", "client"} = {"daemon"} \cup {"client"} /\ "client" \notin {"daemon"}
        OBVIOUS
      <3> QED
        BY <2>1, <3>1, FS_AddElement
    <2>3. IsFiniteSet({"daemon", "client", "plist"}) /\ Cardinality({"daemon", "client", "plist"}) = 3
      <3>1. {"daemon", "client", "plist"} = {"daemon", "client"} \cup {"plist"} /\ "plist" \notin {"daemon", "client"}
        OBVIOUS
      <3> QED
        BY <2>2, <3>1, FS_AddElement
    <2> DEFINE W == {"daemon", "client", "plist"}
    <2> HIDE DEF W
    <2>4. IsFiniteSet(W \cup {"state"}) /\ Cardinality(W \cup {"state"}) = 4
      <3>1. "state" \notin W
        BY DEF W
      <3> QED
        BY <2>3, <3>1, FS_AddElement DEF W
    <2> DEFINE V == W \cup {"state"}
    <2>5. "marker" \notin V /\ "public" \notin V \cup {"marker"} /\ Six = V \cup {"marker"} \cup {"public"}
      BY DEF W, Six
    <2>6. IsFiniteSet(V) /\ Cardinality(V) = 4
      BY <2>4
    <2> HIDE DEF V
    <2>7. IsFiniteSet(V \cup {"marker"}) /\ Cardinality(V \cup {"marker"}) = 5
      BY <2>5, <2>6, FS_AddElement
    <2> DEFINE U == V \cup {"marker"}
    <2>8. IsFiniteSet(U) /\ Cardinality(U) = 5 /\ "public" \notin U /\ Six = U \cup {"public"}
      BY <2>5, <2>7
    <2> HIDE DEF U
    <2> QED
      BY <2>8, FS_AddElement
  <1>3. Cardinality(R) = 6 <=> R = Six
    BY <1>1, <1>2, FS_Subset
  <1>4. /\ "daemon" \in R <=> "daemon" \in m.files \cup m.torn
        /\ "client" \in R <=> "client" \in m.files \cup m.torn
        /\ "plist" \in R <=> "plist" \in m.files \cup m.torn
        /\ "state" \in R <=> "state" \in m.dirs
        /\ "marker" \in R <=> "marker" \in m.dirs
        /\ "public" \in R <=> m.public # NoName
    BY DEF D!RequiredPresent
  <1>6. D!AllRequired(m) <=> R = Six
    <2>1. D!Cardinality(R) = Cardinality(R)
      BY DEF D!Cardinality, Cardinality
    <2> QED
      BY <1>3, <2>1 DEF D!AllRequired
  <1> HIDE DEF R
  <1>5. R = Six <=> {"daemon", "client", "plist", "state", "marker", "public"} \subseteq R
    BY <1>1 DEF Six
  <1> QED
    BY <1>4, <1>5, <1>6

LEMMA ReadInstalledIs ==
    ASSUME NEW m \in Macs
    PROVE  D!ReadInstalled(m) <=> ReadTable(m)
  BY RequiredSix DEF D!ReadInstalled, ReadTable, Pinned

\* What a step that places something does.
PlacingTable(m, s, n) ==
  /\ n \in Macs /\ n.helper = m.helper
  /\ m.dirs \subseteq n.dirs
  /\ \A d \in n.dirs : d \in m.dirs \/ s = D!Cmd("mkdir", d) \/ (d = "log" /\ s.do \in {"bootstrap", "kickstart"})
  /\ \A d \in MacDirs : s = D!Cmd("mkdir", d) => d \in n.dirs
  /\ n.loaded => m.loaded \/ s.do = "bootstrap"
  /\ s \notin MacWrites /\ ReadTable(m) => ReadTable(n)

LEMMA PlacingCases ==
    ASSUME NEW s \in Placing
    PROVE  /\ s = D!Cmd(s.do, s.on)
           /\ \/ s.do = "write" /\ s.on \in Pinned
              \/ s.do = "write" /\ s.on = "protected"
              \/ s.do = "write" /\ s.on = "public"
              \/ s.do = "mkdir" /\ s.on \in MacDirs
              \/ s.do \in {"bootstrap", "kickstart"}
              \/ s.do = "chmod"
              \/ s.do \in {"snapshot", "await", "identify", "verify", "choose"}
  BY CmdIs DEF Placing, MacWrites, Choices

LEMMA PlacingEffect ==
    ASSUME NEW m \in Macs, NEW s \in Placing, NEW name \in Names, NEW n \in D!Ran(m, s, name),
           s.do = "kickstart" => m.loaded
    PROVE  PlacingTable(m, s, n)
  <1>0. m \in Macs
    OBVIOUS
  <1>1. CASE s.do = "write" /\ s.on \in Pinned
    <2> DEFINE v == m.files \cup {s.on}
               w == m.torn \ {s.on}
    <2>1. n = [m EXCEPT !.files = v, !.torn = w]
      BY <1>1 DEF D!Ran, D!RanFile, Pinned
    <2>2. v \subseteq MacFiles /\ w \subseteq MacFiles
      BY <1>1, MacTypes DEF MacFiles
    <2> HIDE DEF v, w
    <2>3. Alters(m, n, {"files", "torn"}) /\ n.files = v /\ n.torn = w
      BY <2>1, MacTypes DEF Alters, MacFields
    <2>4. n \in Macs
      BY <2>2, <2>3, MacFromFields
    <2>5. n.helper = m.helper /\ n.dirs = m.dirs /\ n.loaded = m.loaded
      BY <2>3, AltersFields
    <2>6. s \in MacWrites
      BY <1>1, PlacingCases DEF MacWrites
    <2> QED
      BY <2>4, <2>5, <2>6, PlacingCases, <1>1, CmdIs DEF PlacingTable
  <1>2. CASE s.do = "write" /\ s.on \in {"protected", "public"}
    <2>1. PICK f \in {"protected", "public"} : n = [m EXCEPT ![f] = name]
      BY <1>2 DEF D!Ran, D!RanFile
    <2>2. Alters(m, n, {f}) /\ n[f] = name
      <3>1. f \in MacFields
        BY DEF MacFields
      <3> QED
        BY <2>1, <3>1, OneAlters
    <2>3. n \in Macs
      BY <2>1, <2>2, MacFromFields
    <2>4. n.helper = m.helper /\ n.dirs = m.dirs /\ n.loaded = m.loaded
      BY <2>1, <2>2, AltersFields
    <2>5. s \in MacWrites
      BY <1>2, PlacingCases DEF MacWrites
    <2> QED
      BY <1>2, <2>3, <2>4, <2>5, PlacingCases, CmdIs DEF PlacingTable
  <1>3. CASE s.do = "mkdir" /\ s.on \in MacDirs
    <2> DEFINE v == m.dirs \cup {s.on}
               w == m.logmode \/ s.on = "log"
    <2>1. n = [m EXCEPT !.dirs = v, !.logmode = w]
      BY <1>3 DEF D!Ran
    <2>2. v \subseteq MacDirs /\ w \in BOOLEAN
      BY <1>3, MacTypes
    <2> HIDE DEF w
    <2>3. Alters(m, n, {"dirs", "logmode"}) /\ n.dirs = v /\ n.logmode = w
      <3> HIDE DEF v
      <3> QED
        BY <2>1, MacTypes DEF Alters, MacFields
    <2>4. n \in Macs
      BY <2>2, <2>3, MacFromFields
    <2>5. /\ n.helper = m.helper /\ n.loaded = m.loaded /\ n.files = m.files /\ n.torn = m.torn
          /\ n.protected = m.protected /\ n.public = m.public
      BY <2>3, AltersFields
    <2>6. ReadTable(m) => ReadTable(n)
      BY <2>3, <2>5 DEF ReadTable
    <2>7. s = D!Cmd("mkdir", s.on) /\ \A d : s = D!Cmd("mkdir", d) => d = s.on
      BY <1>3, PlacingCases, CmdIs
    <2> QED
      BY <2>3, <2>4, <2>5, <2>6, <2>7 DEF PlacingTable
  <1>4. CASE s.do = "bootstrap"
    <2> DEFINE g == [m EXCEPT !.loaded = TRUE]
    <2>1. PICK x \in Names : n = D!Started(g, x)
      BY <1>4 DEF D!Ran, Names
    <2>2. Alters(m, g, {"loaded"}) /\ g.loaded = TRUE
      BY OneAlters DEF MacFields
    <2> HIDE DEF g
    <2>3. g \in Macs
      BY <2>2, MacFromFields
    <2>4. /\ g.helper = m.helper /\ g.files = m.files /\ g.torn = m.torn /\ g.dirs = m.dirs
          /\ g.protected = m.protected /\ g.public = m.public
      BY <2>2, AltersFields
    <2>5. StartTable(g, n)
      BY <2>1, <2>3, StartEffect
    <2>6. ReadTable(m) => ReadTable(n)
      BY <2>4, <2>5 DEF ReadTable, StartTable
    <2>7. \A d : s # D!Cmd("mkdir", d)
      BY <1>4, CmdIs
    <2> QED
      BY <1>4, <2>4, <2>5, <2>6, <2>7 DEF PlacingTable, StartTable
  <1>5. CASE s.do = "kickstart"
    <2>1. PICK x \in Names : n = D!Started(m, x)
      BY <1>5 DEF D!Ran, Names
    <2>2. StartTable(m, n)
      BY <2>1, StartEffect
    <2>3. ReadTable(m) => ReadTable(n)
      BY <2>2 DEF ReadTable, StartTable
    <2>4. \A d : s # D!Cmd("mkdir", d)
      BY <1>5, CmdIs
    <2> QED
      BY <1>5, <2>2, <2>3, <2>4 DEF PlacingTable, StartTable
  <1>6. CASE s.do = "chmod"
    <2>1. n = [m EXCEPT !.logmode = TRUE]
      BY <1>6 DEF D!Ran
    <2>2. Alters(m, n, {"logmode"}) /\ n.logmode = TRUE
      BY <2>1, OneAlters DEF MacFields
    <2>3. n \in Macs
      BY <2>2, MacFromFields
    <2>4. /\ n.helper = m.helper /\ n.loaded = m.loaded /\ n.files = m.files /\ n.torn = m.torn
          /\ n.dirs = m.dirs /\ n.protected = m.protected /\ n.public = m.public
      BY <2>2, AltersFields
    <2>5. \A d : s # D!Cmd("mkdir", d)
      BY <1>6, CmdIs
    <2> QED
      BY <2>3, <2>4, <2>5 DEF PlacingTable, ReadTable
  <1>7. CASE s.do \in {"snapshot", "await", "identify", "verify", "choose"}
    <2>1. n = m
      BY <1>7 DEF D!Ran
    <2>2. \A d : s # D!Cmd("mkdir", d)
      BY <1>7, CmdIs
    <2> QED
      BY <2>1, <2>2 DEF PlacingTable
  <1> QED
    BY <1>1, <1>2, <1>3, <1>4, <1>5, <1>6, <1>7, PlacingCases

\* What a step that clears something away does.
ClearingTable(m, s, n) ==
  /\ n \in Macs /\ n.helper = m.helper
  /\ \A f \in n.files \cup n.torn : f \in m.files \cup m.torn /\ s # D!Cmd("rm", f)
  /\ n.socket => m.socket /\ s # D!Cmd("rm", "socket")
  /\ n.protected # NoName => m.protected # NoName /\ s # D!Cmd("rm", "protected")
  /\ n.public # NoName => m.public # NoName /\ s # D!Cmd("rm", "public")
  /\ n.loaded => m.loaded /\ s # Bootout
  /\ \A d : d \in n.dirs <=> d \in m.dirs /\ s # D!Cmd("rmdir", d)

LEMMA ClearingCases ==
    ASSUME NEW s \in Clearing
    PROVE  /\ s = D!Cmd(s.do, s.on)
           /\ \/ s.do = "rm" /\ s.on \in MacFiles
              \/ s.do = "rm" /\ s.on \in {"protected", "public", "socket"}
              \/ s.do = "rmdir" /\ s.on \in MacDirs
              \/ s.do = "bootout" /\ s.on = "service"
  BY CmdIs DEF Clearing

LEMMA ClearingEffect ==
    ASSUME NEW m \in Macs, NEW s \in Clearing, NEW name, NEW n \in D!Ran(m, s, name)
    PROVE  ClearingTable(m, s, n)
  <1>0. m \in Macs
    OBVIOUS
  <1>i. \A a, b : s = D!Cmd(a, b) => a = s.do /\ b = s.on
    BY CmdIs
  <1>b. s = Bootout => s.do = "bootout"
    BY CmdIs DEF Bootout
  <1>1. CASE s.do = "rm" /\ s.on \in MacFiles
    <2> DEFINE v == m.files \ {s.on}
               w == m.torn \ {s.on}
    <2>1. n = [m EXCEPT !.files = v, !.torn = w]
      BY <1>1 DEF D!Ran, D!RanFile, MacFiles, Pinned
    <2>2. v \subseteq MacFiles /\ w \subseteq MacFiles
      BY MacTypes
    <2>3. Alters(m, n, {"files", "torn"}) /\ n.files = v /\ n.torn = w
      <3> HIDE DEF v, w
      <3> QED
        BY <2>1, MacTypes DEF Alters, MacFields
    <2>4. n \in Macs
      BY <2>2, <2>3, MacFromFields
    <2>5. /\ n.helper = m.helper /\ n.dirs = m.dirs /\ n.loaded = m.loaded /\ n.socket = m.socket
          /\ n.protected = m.protected /\ n.public = m.public
      BY <2>3, AltersFields
    <2>6. "socket" \notin MacFiles /\ "protected" \notin MacFiles /\ "public" \notin MacFiles
      BY DEF MacFiles, Pinned
    <2>7. \A f \in n.files \cup n.torn : f \in m.files \cup m.torn /\ f # s.on
      BY <2>3
    <2> HIDE DEF v, w
    <2> QED
      BY <1>1, <1>i, <1>b, <2>4, <2>5, <2>6, <2>7 DEF ClearingTable
  <1>2. CASE s.do = "rm" /\ s.on \in {"protected", "public", "socket"}
    <2>1. PICK v \in {FALSE, NoName} :
            /\ n = [m EXCEPT ![s.on] = v]
            /\ s.on = "socket" => v = FALSE
            /\ s.on # "socket" => v = NoName
      <3>1. CASE s.on = "socket"
        BY <1>2, <3>1 DEF D!Ran, D!RanFile
      <3>2. CASE s.on = "protected"
        BY <1>2, <3>2 DEF D!Ran, D!RanFile
      <3>3. CASE s.on = "public"
        BY <1>2, <3>3 DEF D!Ran, D!RanFile
      <3> QED
        BY <1>2, <3>1, <3>2, <3>3
    <2>2. Alters(m, n, {s.on}) /\ n[s.on] = v
      <3>1. s.on \in MacFields
        BY <1>2 DEF MacFields
      <3> QED
        BY <2>1, <3>1, OneAlters, ZenonT(30)
    <2>3. n \in Macs
      BY <1>2, <2>1, <2>2, MacFromFields DEF Names
    <2>4. /\ n.helper = m.helper /\ n.dirs = m.dirs /\ n.loaded = m.loaded /\ n.files = m.files /\ n.torn = m.torn
          /\ s.on = "socket" \/ n.socket = m.socket
          /\ s.on = "protected" \/ n.protected = m.protected
          /\ s.on = "public" \/ n.public = m.public
      BY <1>2, <2>2, AltersFields
    <2>5. /\ s.on = "socket" => n.socket = FALSE
          /\ s.on = "protected" => n.protected = NoName
          /\ s.on = "public" => n.public = NoName
      BY <2>1, <2>2
    <2>6. "socket" \notin MacFiles /\ "protected" \notin MacFiles /\ "public" \notin MacFiles
      BY DEF MacFiles, Pinned
    <2>7. \A f \in n.files \cup n.torn : f \in m.files \cup m.torn /\ f # s.on
      BY <1>2, <2>4, <2>6, MacTypes
    <2> QED
      BY <1>2, <1>i, <1>b, <2>3, <2>4, <2>5, <2>7 DEF ClearingTable
  <1>3. CASE s.do = "rmdir"
    <2> DEFINE v == m.dirs \ {s.on}
    <2>1. n = [m EXCEPT !.dirs = v]
      BY <1>3 DEF D!Ran
    <2>2. v \subseteq MacDirs
      BY MacTypes
    <2>3. Alters(m, n, {"dirs"}) /\ n.dirs = v
      BY <2>1, OneAlters DEF MacFields
    <2>4. n \in Macs
      BY <2>2, <2>3, MacFromFields
    <2>5. /\ n.helper = m.helper /\ n.loaded = m.loaded /\ n.socket = m.socket /\ n.files = m.files
          /\ n.torn = m.torn /\ n.protected = m.protected /\ n.public = m.public
      BY <2>3, AltersFields
    <2>6. s = D!Cmd("rmdir", s.on)
      BY <1>3, ClearingCases
    <2> QED
      BY <1>3, <1>i, <1>b, <2>3, <2>4, <2>5, <2>6 DEF ClearingTable
  <1>4. CASE s.do = "bootout"
    <2>1. n = [m EXCEPT !.loaded = FALSE, !.bridge = NoName, !.users = FALSE]
      BY <1>4 DEF D!Ran
    <2>2. Alters(m, n, {"loaded", "bridge", "users"}) /\ n.loaded = FALSE /\ n.bridge = NoName /\ n.users = FALSE
      BY <2>1, MacTypes DEF Alters, MacFields
    <2>3. n \in Macs
      BY <2>2, MacFromFields DEF Names
    <2>4. /\ n.helper = m.helper /\ n.socket = m.socket /\ n.files = m.files /\ n.dirs = m.dirs
          /\ n.torn = m.torn /\ n.protected = m.protected /\ n.public = m.public
      BY <2>2, AltersFields
    <2> QED
      BY <1>4, <1>i, <2>2, <2>3, <2>4 DEF ClearingTable
  <1> QED
    BY <1>1, <1>2, <1>3, <1>4, ClearingCases

-----------------------------------------------------------------------------
(* The commands of the Mac keep the invariant.                             *)

LEMMA TaskTypes ==
    ASSUME NEW t \in Tasks
    PROVE  /\ t.kind \in {"none", "install", "repair", "uninstall", "rollback"}
           /\ t.steps \in Seq(Placing \cup Clearing) /\ t.created \in Seq(MacDirs) /\ t.seen \subseteq BSDNames
           /\ t.booted \in BOOLEAN /\ t.clean \in BOOLEAN /\ t.stale \in BOOLEAN /\ t.name \in Names
           /\ t = [kind |-> t.kind, steps |-> t.steps, created |-> t.created, seen |-> t.seen, booted |-> t.booted,
                   clean |-> t.clean, name |-> t.name, stale |-> t.stale]
  BY DEF Tasks

LEMMA TaskKinds ==
    ASSUME MacTyped
    PROVE  /\ task \in Tasks /\ mac \in Macs
           /\ task.kind \in {"none", "install", "repair", "uninstall", "rollback"}
           /\ D!Resting <=> task.kind = "none"
           /\ task.kind \in {"install", "repair"} => task.steps \in Seq(Placing)
           /\ task.kind \in {"uninstall", "rollback"} => task.steps \in Seq(Clearing)
  BY TaskTypes DEF MacTyped, D!Resting

LEMMA WiderSteps ==
    ASSUME NEW s
    PROVE  /\ s \in Seq(Placing) => s \in Seq(Placing \cup Clearing)
           /\ s \in Seq(Clearing) => s \in Seq(Placing \cup Clearing)
  OBVIOUS

\* A task with these parts; where a command starts and where it ends.
LEMMA TaskOf ==
    ASSUME NEW kind \in {"none", "install", "repair", "uninstall", "rollback"}, NEW s \in Seq(Placing \cup Clearing),
           NEW seen \in SUBSET BSDNames, NEW stale \in BOOLEAN
    PROVE  [kind |-> kind, steps |-> s, created |-> <<>>, seen |-> seen, booted |-> FALSE, clean |-> TRUE,
            name |-> NoName, stale |-> stale] \in Tasks
  BY DEF Tasks, Names

LEMMA NoTaskIs == D!NoTask \in Tasks /\ D!NoTask.kind = "none"
  BY DEF D!NoTask, Tasks, Names

LEMMA MacRests ==
    ASSUME mac' \in Macs, task' \in Tasks, task'.kind = "none", MacShaped',
           outcome' \in {"installed", "repaired"} => ReadTable(mac')
    PROVE  MacInv'
  <1>1. MacTyped'
    BY DEF MacTyped
  <1>2. MacVerified' /\ MacChoosing' /\ MacInstalling' /\ MacRemoving'
    BY DEF MacVerified, MacChoosing, MacInstalling, MacRemoving
  <1>3. MacStanding'
    <2>1. ReadTable(mac') => D!ReadInstalled(mac)'
      BY ReadInstalledIs
    <2> QED
      BY <2>1 DEF MacStanding, D!Resting
  <1> QED
    BY <1>1, <1>2, <1>3 DEF MacInv

LEMMA FreshMacIs ==
    ASSUME NEW helper \in BOOLEAN, NEW m, m = D!FreshMac(helper)
    PROVE  /\ m \in Macs /\ m.helper = helper
           /\ m.dirs = IF helper THEN {"root", "libexec"} ELSE {}
  BY DEF D!FreshMac, Macs, Names, MacFiles, MacDirs, Pinned

LEMMA MacInit ==
    ASSUME Init
    PROVE  MacInv
  <1>1. PICK helper \in BOOLEAN : mac = D!FreshMac(helper)
    BY DEF Init, D!Init
  <1>2. mac \in Macs /\ MacShaped
    BY <1>1, FreshMacIs DEF MacShaped
  <1>3. task \in Tasks /\ task.kind = "none" /\ outcome = "none"
    BY NoTaskIs DEF Init, D!Init
  <1> QED
    BY <1>2, <1>3 DEF MacInv, MacTyped, MacVerified, MacChoosing, MacInstalling, MacRemoving, MacStanding, D!Resting

LEMMA MacBeginsInstall ==
    ASSUME MacInv, D!Install
    PROVE  MacInv'
  <1>1. MacTyped /\ MacShaped /\ mac \in Macs
    BY DEF MacInv, MacTyped
  <1> DEFINE s == D!InstallSteps
  <1>2. /\ s \in Seq(Placing)
        /\ Verify \in Steps(s) /\ Ordered(s, MacWrites, {Verify}) /\ Steps(s) \cap Choices = {}
        /\ D!Cmd("mkdir", "root") \in Steps(s) /\ D!Cmd("mkdir", "log") \in Steps(s)
        /\ Ordered(s, {D!Cmd("mkdir", "root")}, {D!Cmd("mkdir", "libexec")})
        /\ Ordered(s, {D!Cmd("mkdir", "log")}, {D!Cmd("bootstrap", "service")})
    BY MacInstallPlan
  <1>3. task' = [kind |-> "install", steps |-> s, created |-> <<>>, seen |-> {}, booted |-> FALSE, clean |-> TRUE,
                 name |-> NoName, stale |-> mac.loaded]
    BY DEF D!Install, D!NoTask
  <1>4. mac' = mac /\ outcome' = "none" /\ D!FreshAccepted(mac)
    BY DEF D!Install
  <1> HIDE DEF s
  <1>5. /\ task' \in Tasks /\ task'.kind = "install" /\ task'.steps = s /\ task'.booted = FALSE
        /\ task'.stale = mac.loaded
    <2>1. s \in Seq(Placing \cup Clearing) /\ mac.loaded \in BOOLEAN
      BY <1>1, <1>2, WiderSteps, MacTypes
    <2>2. task' \in Tasks
      BY <1>3, <2>1, TaskOf, Zenon
    <2> QED
      BY <1>3, <2>2
  <1>6. \A d \in mac.dirs : Shared(mac, d)
    <2>1. "root" \in mac.dirs => mac.helper
      BY <1>4 DEF D!FreshAccepted, D!SharedRootAccepted
    <2>2. \A d \in mac.dirs : d \in {"root", "libexec"}
      BY <1>1, <1>4, MacTypes DEF D!FreshAccepted, MacDirs
    <2> QED
      BY <1>1, <2>1, <2>2 DEF Shared, MacShaped
  <1>7. MacTyped' /\ MacShaped'
    BY <1>1, <1>2, <1>4, <1>5 DEF MacTyped, MacShaped
  <1>8. MacVerified' /\ MacChoosing'
    BY <1>2, <1>5 DEF MacVerified, MacChoosing, Secured, Verify
  <1>9. MacInstalling'
    <2>1. \A d \in mac'.dirs : Shared(mac', d)
      BY <1>4, <1>6 DEF Shared
    <2> QED
      BY <1>2, <1>4, <1>5, <2>1 DEF MacInstalling, Secured
  <1>10. MacRemoving' /\ MacStanding'
    BY <1>4, <1>5 DEF MacRemoving, MacStanding, D!Resting
  <1> QED
    BY <1>7, <1>8, <1>9, <1>10 DEF MacInv

LEMMA CatElements ==
    ASSUME NEW T, NEW s \in Seq(T), NEW t \in Seq(T)
    PROVE  /\ s \o t \in Seq(T) /\ Len(s \o t) = Len(s) + Len(t)
           /\ \A i \in 1 .. Len(s) + Len(t) : (s \o t)[i] = IF i <= Len(s) THEN s[i] ELSE t[i - Len(s)]
  OBVIOUS

LEMMA CatPair == \A y, z : <<y>> \o <<z>> = <<y, z>>
  <1> SUFFICES ASSUME NEW y, NEW z PROVE <<y>> \o <<z>> = <<y, z>>
    OBVIOUS
  <1> DEFINE a == <<y>>
             b == <<z>>
             T == {y, z}
             s == a \o b
             r == <<y, z>>
  <1>1. a \in Seq(T) /\ b \in Seq(T) /\ Len(a) = 1 /\ Len(b) = 1 /\ a[1] = y /\ b[1] = z
    OBVIOUS
  <1>2. r \in Seq(T) /\ Len(r) = 2 /\ r[1] = y /\ r[2] = z
    OBVIOUS
  <1> HIDE DEF a, b, r, T
  <1>3. s \in Seq(T) /\ Len(s) = 2 /\ s[1] = y /\ s[2] = z
    <2>1. /\ s \in Seq(T) /\ Len(s) = Len(a) + Len(b)
          /\ \A i \in 1 .. Len(a) + Len(b) : s[i] = IF i <= Len(a) THEN a[i] ELSE b[i - Len(a)]
      BY <1>1, CatElements
    <2> HIDE DEF s
    <2>2. s[1] = a[1] /\ s[2] = b[1]
      BY <1>1, <2>1
    <2> QED
      BY <1>1, <2>1, <2>2
  <1> HIDE DEF s
  <1>4. \A i \in 1 .. 2 : s[i] = r[i]
    BY <1>2, <1>3
  <1>5. s = r
    BY <1>2, <1>3, <1>4
  <1> QED
    BY <1>5 DEF s, r, a, b

\* A repair starts with the log directory and the choice.
LEMMA RepairStarts ==
    ASSUME NEW restart, D!Repair(restart)
    PROVE  LET c == D!Cmd("choose", IF restart THEN "restart" ELSE "reuse")
           IN /\ c \in Choices /\ mac' = mac /\ outcome' = "none" /\ D!ReadInstalled(mac)
              /\ \E s \in LogPlans(c) :
                   task' = [kind |-> "repair", steps |-> s, created |-> <<>>, seen |-> {}, booted |-> FALSE,
                            clean |-> TRUE, name |-> NoName, stale |-> FALSE]
  <1> DEFINE c == D!Cmd("choose", IF restart THEN "restart" ELSE "reuse")
             log == IF "log" \notin mac.dirs THEN <<D!Cmd("mkdir", "log")>>
                    ELSE IF mac.logmode THEN <<>> ELSE <<D!Cmd("chmod", "log")>>
  <1>1. c \in Choices
    BY DEF Choices
  <1>2. /\ mac' = mac /\ outcome' = "none" /\ D!ReadInstalled(mac)
        /\ task' = [kind |-> "repair", steps |-> log \o <<c>>, created |-> <<>>, seen |-> {}, booted |-> FALSE,
                    clean |-> TRUE, name |-> NoName, stale |-> FALSE]
    BY DEF D!Repair, D!NoTask
  <1>3. log \in {<<>>, <<D!Cmd("mkdir", "log")>>, <<D!Cmd("chmod", "log")>>}
    OBVIOUS
  <1> HIDE DEF log, c
  <1>4. log \o <<c>> \in LogPlans(c)
    <2>1. <<>> \o <<c>> = <<c>>
      OBVIOUS
    <2> QED
      BY <1>3, <2>1, CatPair, Zenon DEF LogPlans
  <1> QED
    BY <1>1, <1>2, <1>4 DEF c

LEMMA MacBeginsRepair ==
    ASSUME MacInv, NEW restart, D!Repair(restart)
    PROVE  MacInv'
  <1>1. MacTyped /\ MacShaped /\ mac \in Macs
    BY DEF MacInv, MacTyped
  <1> DEFINE c == D!Cmd("choose", IF restart THEN "restart" ELSE "reuse")
  <1>2. c \in Choices /\ mac' = mac /\ outcome' = "none" /\ D!ReadInstalled(mac)
    BY RepairStarts
  <1>3. PICK s \in LogPlans(c) :
          task' = [kind |-> "repair", steps |-> s, created |-> <<>>, seen |-> {}, booted |-> FALSE, clean |-> TRUE,
                   name |-> NoName, stale |-> FALSE]
    BY RepairStarts
  <1> HIDE DEF c
  <1>4. /\ s \in Seq(Placing) /\ Ordered(s, MacWrites, {Verify})
        /\ Steps(s) \cap MacWrites = {} /\ D!Cmd("mkdir", "libexec") \notin Steps(s)
    BY <1>2, MacLogPlan
  <1>5. task' \in Tasks /\ task'.kind = "repair" /\ task'.steps = s
    <2>1. s \in Seq(Placing \cup Clearing)
      BY <1>4, WiderSteps
    <2>2. task' \in Tasks
      BY <1>3, <2>1, TaskOf, Zenon
    <2> QED
      BY <1>3, <2>2
  <1>6. MacTyped' /\ MacShaped'
    BY <1>1, <1>2, <1>4, <1>5 DEF MacTyped, MacShaped
  <1>7. MacVerified'
    <2>1. D!ReadInstalled(mac)'
      BY <1>2
    <2> QED
      BY <1>4, <1>5, <2>1 DEF MacVerified, Secured, Verify
  <1>8. MacChoosing'
    BY <1>2, <1>5 DEF MacChoosing
  <1>9. MacInstalling' /\ MacRemoving' /\ MacStanding'
    BY <1>2, <1>5 DEF MacInstalling, MacRemoving, MacStanding, D!Resting
  <1> QED
    BY <1>6, <1>7, <1>8, <1>9 DEF MacInv

\* Only a repair chooses, and the installation is intact until then.
LEMMA ChoiceOfRepair ==
    ASSUME MacInv, D!Choose
    PROVE  /\ task.kind = "repair" /\ task.steps # <<>> /\ D!ReadInstalled(mac)
           /\ \E c \in Choices : task.steps \in LogPlans(c)
  <1>1. MacTyped /\ MacVerified /\ MacChoosing /\ task \in Tasks
    BY DEF MacInv, MacTyped
  <1> DEFINE s == Head(task.steps)
  <1>2. task.kind # "none" /\ task.steps # <<>> /\ s.do = "choose"
    BY DEF D!Choose, D!Resting
  <1>3. task.kind \in {"uninstall", "rollback"} => s \in Clearing
    BY <1>1, <1>2, TaskKinds, TailSteps
  <1>4. task.kind \in {"install", "repair"} => s \in Placing /\ s \in Steps(task.steps)
    BY <1>1, <1>2, TaskKinds, TailSteps
  <1> HIDE DEF s
  <1>5. s \in Placing => s \in Choices
    BY <1>2, CmdIs DEF Placing, MacWrites
  <1>6. task.kind \in {"install", "repair"}
    BY <1>1, <1>2, <1>3, TaskKinds, ClearingCases
  <1>7. task.kind = "repair" /\ \E c \in Choices : task.steps \in LogPlans(c)
    BY <1>1, <1>4, <1>5, <1>6 DEF MacChoosing
  <1>8. Verify \notin Steps(task.steps)
    BY <1>7, MacLogPlan
  <1>9. D!ReadInstalled(mac)
    BY <1>1, <1>7, <1>8 DEF MacVerified, Secured, Verify
  <1> QED
    BY <1>2, <1>7, <1>9

LEMMA MacChooses ==
    ASSUME MacInv, D!Choose
    PROVE  MacInv'
  <1>1. MacTyped /\ MacShaped /\ MacStanding /\ mac \in Macs /\ task \in Tasks
    BY DEF MacInv, MacTyped
  <1>2. task.kind = "repair" /\ D!ReadInstalled(mac)
    BY ChoiceOfRepair
  <1> DEFINE v == {mac.bridge} \ {NoName, mac.public}
  <1>3. PICK s \in {<<>>, D!RestartSteps(mac)} : task' = [task EXCEPT !.seen = v, !.steps = s]
    BY DEF D!Choose
  <1>4. mac' = mac /\ outcome' = outcome
    BY DEF D!Choose
  <1>5. v \in SUBSET BSDNames
    BY <1>1, MacTypes DEF Names
  <1> HIDE DEF v
  <1>6. /\ s \in Seq(Placing) /\ Ordered(s, MacWrites, {Verify})
        /\ Verify \in Steps(s) \/ Steps(s) \cap MacWrites = {}
        /\ Steps(s) \cap Choices = {} /\ D!Cmd("mkdir", "libexec") \notin Steps(s)
    <2>1. CASE s = <<>>
      <3>1. s \in Seq(Placing) /\ Steps(s) = {}
        BY <2>1, ShortSteps
      <3>2. Ordered(s, MacWrites, {Verify})
        BY <3>1 DEF Ordered, Steps
      <3> QED
        BY <3>1, <3>2
    <2>2. CASE s = D!RestartSteps(mac)
      BY <2>2, MacRestartPlan
    <2> QED
      BY <2>1, <2>2
  <1>7. task' \in Tasks /\ task'.kind = "repair" /\ task'.steps = s
    <2>1. s \in Seq(Placing \cup Clearing)
      BY <1>6, WiderSteps
    <2> QED
      BY <1>1, <1>2, <1>3, <1>5, <2>1 DEF Tasks
  <1>8. MacTyped' /\ MacShaped'
    BY <1>1, <1>4, <1>6, <1>7 DEF MacTyped, MacShaped
  <1>9. MacVerified'
    <2>1. D!ReadInstalled(mac)'
      BY <1>2, <1>4
    <2> QED
      BY <1>6, <1>7, <2>1 DEF MacVerified, Secured, Verify
  <1>10. MacChoosing' /\ MacInstalling' /\ MacRemoving'
    BY <1>6, <1>7 DEF MacChoosing, MacInstalling, MacRemoving
  <1>11. MacStanding'
    BY <1>1, <1>2, <1>4, <1>7 DEF MacStanding, D!Resting
  <1> QED
    BY <1>8, <1>9, <1>10, <1>11 DEF MacInv

LEMMA MacBeginsUninstall ==
    ASSUME MacInv, D!Uninstall
    PROVE  MacInv'
  <1>1. MacTyped /\ MacShaped /\ mac \in Macs
    BY DEF MacInv, MacTyped
  <1> DEFINE x == IF mac.helper THEN <<>> ELSE <<"libexec", "root">>
             y == <<"state", "marker", "log">>
             c == x \o y
             first == <<Bootout>>
             s == first \o D!Each("rm", RemovedFiles) \o D!Each("rmdir", c)
  <1>2. s = D!UninstallSteps(mac)
    BY DEF D!UninstallSteps, Bootout, RemovedFiles
  <1>3. c \in Seq(MacDirs) /\ \A d \in MacDirs : d \in Steps(c) \/ (mac.helper /\ d \in {"root", "libexec"})
    <2>1. y \in Seq(MacDirs) /\ Steps(y) = {"state", "marker", "log"}
      <3>1. "state" \in MacDirs /\ "marker" \in MacDirs /\ "log" \in MacDirs
        BY DEF MacDirs
      <3> QED
        BY <3>1, ShortSteps
    <2>2. x \in Seq(MacDirs) /\ (~mac.helper => Steps(x) = {"libexec", "root"})
      <3>1. CASE mac.helper
        BY <3>1
      <3>2. CASE ~mac.helper
        BY <3>2, ShortSteps, ZenonT(60) DEF MacDirs
      <3> QED
        BY <3>1, <3>2
    <2> HIDE DEF x, y
    <2>3. c \in Seq(MacDirs) /\ Steps(c) = Steps(x) \cup Steps(y)
      BY <2>1, <2>2, CatSteps
    <2> QED
      BY <2>1, <2>2, <2>3 DEF MacDirs
  <1>4. task' = [kind |-> "uninstall", steps |-> s, created |-> <<>>, seen |-> {}, booted |-> FALSE, clean |-> TRUE,
                 name |-> NoName, stale |-> FALSE]
    BY <1>2 DEF D!Uninstall, D!NoTask
  <1>5. mac' = mac /\ outcome' = "none"
    BY DEF D!Uninstall
  <1>f. first \in {<<>>, <<Bootout>>} /\ Steps(first) = {Bootout}
    BY ShortSteps
  <1> HIDE DEF x, y, c, first
  <1>6. /\ s \in Seq(Clearing) /\ Ordered(s, {Bootout}, Remade)
        /\ Steps(s) = Steps(first) \cup {D!Cmd("rm", p) : p \in MacFiles \cup {"socket", "protected", "public"}}
                                   \cup {D!Cmd("rmdir", d) : d \in Steps(c)}
    BY <1>3, <1>f, MacRemovalPlan
  <1> HIDE DEF s
  <1>7. task' \in Tasks /\ task'.kind = "uninstall" /\ task'.steps = s
    <2>1. s \in Seq(Placing \cup Clearing)
      BY <1>6, WiderSteps
    <2>2. task' \in Tasks
      BY <1>4, <2>1, TaskOf, Zenon
    <2> QED
      BY <1>4, <2>2
  <1>8. MacTyped' /\ MacShaped'
    BY <1>1, <1>5, <1>6, <1>7 DEF MacTyped, MacShaped
  <1>9. Leftovers(mac', task'.steps)
    <2>1. \A p \in MacFiles \cup {"socket", "protected", "public"} : D!Cmd("rm", p) \in Steps(s)
      BY <1>6
    <2>2. Bootout \in Steps(s)
      BY <1>6, <1>f
    <2>3. \A d \in MacDirs : D!Cmd("rmdir", d) \in Steps(s) \/ (mac.helper /\ d \in {"root", "libexec"})
      BY <1>3, <1>6
    <2>4. "log" \in MacDirs /\ "logs" \in MacFiles
      BY DEF MacDirs, MacFiles
    <2>5. Remade \subseteq Steps(s)
      BY <2>1, <2>3, <2>4 DEF Remade
    <2>6. \A d \in mac'.dirs : D!Cmd("rmdir", d) \in Steps(task'.steps) \/ Shared(mac', d)
      BY <1>1, <1>5, <1>7, <2>3, MacTypes DEF Shared
    <2>7. \A f \in mac'.files \cup mac'.torn : D!Cmd("rm", f) \in Steps(task'.steps)
      BY <1>1, <1>5, <1>7, <2>1, MacTypes
    <2>8. /\ Ordered(task'.steps, {D!Cmd("bootout", "service")},
                     {D!Cmd("rm", "logs"), D!Cmd("rm", "socket"), D!Cmd("rmdir", "log")})
          /\ D!Cmd("bootout", "service") \in Steps(task'.steps)
          /\ {D!Cmd("rm", "logs"), D!Cmd("rm", "socket"), D!Cmd("rmdir", "log")} \subseteq Steps(task'.steps)
          /\ \A p \in {"socket", "protected", "public"} : D!Cmd("rm", p) \in Steps(task'.steps)
      BY <1>6, <1>7, <2>1, <2>2, <2>5 DEF Remade, Bootout
    <2> QED
      BY <2>6, <2>7, <2>8 DEF Leftovers
  <1>10. MacRemoving'
    BY <1>9 DEF MacRemoving
  <1>11. MacVerified' /\ MacChoosing' /\ MacInstalling' /\ MacStanding'
    BY <1>5, <1>7 DEF MacVerified, MacChoosing, MacInstalling, MacStanding, D!Resting
  <1> QED
    BY <1>8, <1>10, <1>11 DEF MacInv

\* What a command remembers after a step.
NotedTable(t, m, s, u) ==
  /\ u \in Tasks /\ u.kind = t.kind /\ u.steps = Tail(t.steps) /\ u.clean = t.clean /\ u.stale = t.stale
  /\ u.booted => t.booted \/ s.do = "bootstrap"
  /\ t.booted \/ s.do = "bootstrap" => u.booted
  /\ Steps(t.created) \subseteq Steps(u.created)
  /\ s.do = "mkdir" /\ s.on \notin m.dirs => s.on \in Steps(u.created)

LEMMA NotedEffect ==
    ASSUME NEW t \in Tasks, t.steps # <<>>, NEW m \in Macs, NEW s \in Placing \cup Clearing
    PROVE  NotedTable(t, m, s, D!Noted(t, m, s))
  <1> DEFINE u == D!Noted(t, m, s)
             x == Tail(t.steps)
  <1>1. x \in Seq(Placing \cup Clearing)
    BY TaskTypes, TailSteps
  <1>2. m.bridge \in Names
    BY MacTypes
  <1> HIDE DEF x
  <1>3. CASE s.do = "mkdir" /\ s.on \notin m.dirs
    <2> DEFINE c == Append(t.created, s.on)
    <2>1. u = [t EXCEPT !.steps = x, !.created = c]
      BY <1>3 DEF D!Noted, x
    <2>2. s.on \in MacDirs
      BY <1>3, PlacingCases, ClearingCases
    <2>3. c \in Seq(MacDirs) /\ c = t.created \o <<s.on>>
      BY <2>2, TaskTypes
    <2>4. t.created \in Seq(MacDirs) /\ <<s.on>> \in Seq(MacDirs) /\ Steps(<<s.on>>) = {s.on}
      BY <2>2, TaskTypes, ShortSteps
    <2>5. Steps(c) = Steps(t.created) \cup {s.on}
      <3> DEFINE old == t.created
                 new == <<s.on>>
      <3>1. c = old \o new /\ old \in Seq(MacDirs) /\ new \in Seq(MacDirs) /\ Steps(new) = {s.on}
        BY <2>3, <2>4
      <3> HIDE DEF c, old, new
      <3>2. Steps(c) = Steps(old) \cup Steps(new)
        BY <3>1, CatSteps
      <3> QED
        BY <3>1, <3>2 DEF old
    <2> HIDE DEF c, u
    <2>6. /\ u \in Tasks /\ u.kind = t.kind /\ u.steps = x /\ u.created = c /\ u.booted = t.booted
          /\ u.clean = t.clean /\ u.stale = t.stale
      BY <1>1, <2>1, <2>3 DEF Tasks
    <2> QED
      BY <1>3, <2>5, <2>6 DEF NotedTable, x, u
  <1>4. CASE s.do = "snapshot"
    <2> DEFINE v == {m.bridge} \ {NoName}
    <2>1. u = [t EXCEPT !.steps = x, !.seen = v]
      BY <1>4 DEF D!Noted, x
    <2>2. v \in SUBSET BSDNames
      BY <1>2 DEF Names
    <2> HIDE DEF v, u
    <2>3. /\ u \in Tasks /\ u.kind = t.kind /\ u.steps = x /\ u.created = t.created /\ u.booted = t.booted
          /\ u.clean = t.clean /\ u.stale = t.stale
      BY <1>1, <2>1, <2>2 DEF Tasks
    <2> QED
      BY <1>4, <2>3 DEF NotedTable, x, u
  <1>5. CASE s.do = "bootstrap"
    <2>1. u = [t EXCEPT !.steps = x, !.booted = TRUE]
      BY <1>5 DEF D!Noted, x
    <2> HIDE DEF u
    <2>2. /\ u \in Tasks /\ u.kind = t.kind /\ u.steps = x /\ u.created = t.created /\ u.booted = TRUE
          /\ u.clean = t.clean /\ u.stale = t.stale
      BY <1>1, <2>1 DEF Tasks
    <2> QED
      BY <1>5, <2>2 DEF NotedTable, x, u
  <1>6. CASE s.do = "identify"
    <2>1. u = [t EXCEPT !.steps = x, !.name = m.bridge]
      BY <1>6 DEF D!Noted, x
    <2> HIDE DEF u
    <2>2. /\ u \in Tasks /\ u.kind = t.kind /\ u.steps = x /\ u.created = t.created /\ u.booted = t.booted
          /\ u.clean = t.clean /\ u.stale = t.stale
      BY <1>1, <1>2, <2>1 DEF Tasks
    <2> QED
      BY <1>6, <2>2 DEF NotedTable, x, u
  <1>7. CASE ~(s.do = "mkdir" /\ s.on \notin m.dirs) /\ s.do \notin {"snapshot", "bootstrap", "identify"}
    <2>1. u = [t EXCEPT !.steps = x]
      BY <1>7 DEF D!Noted, x
    <2> HIDE DEF u
    <2>2. /\ u \in Tasks /\ u.kind = t.kind /\ u.steps = x /\ u.created = t.created /\ u.booted = t.booted
          /\ u.clean = t.clean /\ u.stale = t.stale
      BY <1>1, <2>1 DEF Tasks
    <2> QED
      BY <1>7, <2>2 DEF NotedTable, x, u
  <1> QED
    BY <1>3, <1>4, <1>5, <1>6, <1>7

LEMMA StepOfTask ==
    ASSUME MacTyped, D!Step
    PROVE  LET s == Head(task.steps)
           IN /\ task.kind # "none" /\ task.steps # <<>>
              /\ D!CanRun(mac, s)
              /\ mac' \in D!Ran(mac, s, task.name)
              /\ NotedTable(task, mac, s, task')
              /\ outcome' = outcome
  <1> DEFINE s == Head(task.steps)
  <1>1. task.kind # "none" /\ task.steps # <<>>
    BY DEF D!Step, D!Resting
  <1>2. s \in Placing \cup Clearing
    BY <1>1, TaskKinds, TaskTypes, TailSteps
  <1>3. D!CanRun(mac, s) /\ mac' \in D!Ran(mac, s, task.name) /\ task' = D!Noted(task, mac, s) /\ outcome' = outcome
    BY DEF D!Step
  <1> HIDE DEF s
  <1>4. NotedTable(task, mac, s, task')
    BY <1>1, <1>2, <1>3, TaskKinds, NotedEffect
  <1> QED
    BY <1>1, <1>3, <1>4 DEF s

LEMMA MacPlacingStep ==
    ASSUME MacInv, D!Step, task.kind \in {"install", "repair"}
    PROVE  MacInv'
  <1>1. MacTyped /\ MacShaped /\ MacVerified /\ MacStanding /\ mac \in Macs /\ task \in Tasks
    BY DEF MacInv, MacTyped
  <1> DEFINE s == Head(task.steps)
             rest == Tail(task.steps)
             all == task.steps
  <1>2. /\ all # <<>> /\ D!CanRun(mac, s) /\ mac' \in D!Ran(mac, s, task.name)
        /\ NotedTable(task, mac, s, task') /\ outcome' = outcome
    BY <1>1, StepOfTask
  <1>3. all \in Seq(Placing)
    BY <1>1, TaskKinds
  <1>4. s \in Placing /\ rest \in Seq(Placing) /\ Steps(all) = {s} \cup Steps(rest)
    BY <1>2, <1>3, TailSteps
  <1>5. s.do = "kickstart" => mac.loaded
    BY <1>2 DEF D!CanRun
  <1>6. s = Verify => ReadTable(mac)
    BY <1>1, <1>2, CmdIs, ReadInstalledIs DEF D!CanRun, Verify
  <1>7. \A A, B : Ordered(all, A, B) => Ordered(rest, A, B) /\ (s \in B => Steps(all) \cap A = {})
    BY <1>2, <1>3, TailOrdered
  <1>8. PlacingTable(mac, s, mac')
    BY <1>1, <1>2, <1>4, <1>5, TaskTypes, PlacingEffect
  <1>9. s = D!Cmd(s.do, s.on)
    BY <1>4, PlacingCases
  <1>t. task'.steps = rest /\ task' \in Tasks /\ task'.kind = task.kind
    BY <1>2 DEF NotedTable
  <1> HIDE DEF s, rest, all
  <1>10. MacTyped'
    BY <1>4, <1>8, <1>t DEF MacTyped, PlacingTable
  <1>11. MacShaped'
    <2>1. s = D!Cmd("mkdir", "libexec") => "root" \in mac.dirs
      <3>1. ASSUME s = D!Cmd("mkdir", "libexec")
            PROVE  "root" \in mac.dirs
        <4>1. task.kind = "install"
          BY <1>1, <1>4, <3>1 DEF MacVerified, all
        <4>2. /\ Ordered(all, {D!Cmd("mkdir", "root")}, {D!Cmd("mkdir", "libexec")})
              /\ Secured(all, {D!Cmd("mkdir", "root")}, {}, "root" \in mac.dirs)
          BY <4>1 DEF MacInv, MacInstalling, all
        <4> QED
          BY <1>7, <3>1, <4>2 DEF Secured
      <3> QED
        BY <3>1
    <2>2. "libexec" \in mac'.dirs => "libexec" \in mac.dirs \/ s = D!Cmd("mkdir", "libexec")
      BY <1>8 DEF PlacingTable
    <2> QED
      BY <1>1, <1>8, <2>1, <2>2 DEF MacShaped, PlacingTable
  <1>12. MacVerified'
    <2>1. /\ Ordered(all, MacWrites, {Verify})
          /\ Steps(all) \cap {Verify} # {} \/ (ReadTable(mac) /\ Steps(all) \cap MacWrites = {})
          /\ D!Cmd("mkdir", "libexec") \in Steps(all) => task.kind = "install"
      BY <1>1, ReadInstalledIs DEF MacVerified, Secured, Verify, all
    <2>2. ReadTable(mac) /\ s \notin MacWrites => ReadTable(mac')
      BY <1>8 DEF PlacingTable
    <2>3. Verify \notin MacWrites
      BY CmdEqual DEF MacWrites, Verify
    <2>4. Verify \in Steps(rest) \/ (ReadTable(mac') /\ Steps(rest) \cap MacWrites = {})
      BY <1>4, <1>6, <1>7, <2>1, <2>2, <2>3
    <2>5. mac' \in Macs
      BY <1>10 DEF MacTyped
    <2>6. D!ReadInstalled(mac)' <=> ReadTable(mac')
      BY <2>5, ReadInstalledIs
    <2>7. Secured(task'.steps, {Verify}, MacWrites, D!ReadInstalled(mac)')
      BY <1>t, <2>4, <2>6 DEF Secured
    <2> QED
      BY <1>4, <1>7, <1>t, <2>1, <2>7 DEF MacVerified, Verify
  <1>13. MacInstalling'
    <2> SUFFICES ASSUME task.kind = "install"
                 PROVE  MacInstalling'
      BY <1>t DEF MacInstalling
    <2>1. /\ Ordered(all, {D!Cmd("mkdir", "root")}, {D!Cmd("mkdir", "libexec")})
          /\ D!Cmd("mkdir", "root") \in Steps(all) \/ "root" \in mac.dirs
          /\ Ordered(all, {D!Cmd("mkdir", "log")}, {D!Cmd("bootstrap", "service")})
          /\ D!Cmd("mkdir", "log") \in Steps(all) \/ "log" \in mac.dirs
          /\ ~task.stale => /\ mac.loaded => task.booted
                            /\ task.booted => "log" \in Steps(task.created)
                            /\ \A d \in mac.dirs : d \in Steps(task.created) \/ Shared(mac, d)
      BY DEF MacInv, MacInstalling, Secured, all
    <2>2. /\ s = D!Cmd("mkdir", "root") => "root" \in mac'.dirs
          /\ s = D!Cmd("mkdir", "log") => "log" \in mac'.dirs
          /\ mac.dirs \subseteq mac'.dirs
      BY <1>8 DEF PlacingTable, MacDirs
    <2>3. /\ D!Cmd("mkdir", "root") \in Steps(rest) \/ "root" \in mac'.dirs
          /\ D!Cmd("mkdir", "log") \in Steps(rest) \/ "log" \in mac'.dirs
      BY <1>4, <2>1, <2>2
    <2>4. s.do = "bootstrap" => "log" \in mac.dirs
      <3>1. s.do = "bootstrap" => s = D!Cmd("bootstrap", "service")
        BY <1>4, CmdIs DEF Placing, MacWrites, Choices
      <3> QED
        BY <1>7, <2>1, <3>1
    <2>5. ASSUME ~task.stale
          PROVE  /\ mac'.loaded => task'.booted
                 /\ task'.booted => "log" \in Steps(task'.created)
                 /\ \A d \in mac'.dirs : d \in Steps(task'.created) \/ Shared(mac', d)
      <3>1. ~Shared(mac, "log")
        BY DEF Shared
      <3>2. s.do \in {"bootstrap", "kickstart"} => "log" \in Steps(task.created)
        BY <1>5, <2>1, <2>4, <2>5, <3>1
      <3>3. /\ Steps(task.created) \subseteq Steps(task'.created)
            /\ task'.booted => task.booted \/ s.do = "bootstrap"
            /\ task.booted \/ s.do = "bootstrap" => task'.booted
            /\ s.do = "mkdir" /\ s.on \notin mac.dirs => s.on \in Steps(task'.created)
        BY <1>2 DEF NotedTable
      <3>4. mac'.loaded => task'.booted
        BY <1>8, <2>1, <2>5, <3>3 DEF PlacingTable
      <3>5. task'.booted => "log" \in Steps(task'.created)
        BY <2>1, <2>5, <3>2, <3>3
      <3>6. ASSUME NEW d \in mac'.dirs
            PROVE  d \in Steps(task'.created) \/ Shared(mac', d)
        <4>1. CASE d \in mac.dirs
          BY <1>8, <2>1, <2>5, <3>3, <4>1 DEF Shared, PlacingTable
        <4>2. CASE d \notin mac.dirs /\ s = D!Cmd("mkdir", d)
          BY <3>3, <4>2, CmdIs
        <4>3. CASE d = "log" /\ s.do \in {"bootstrap", "kickstart"}
          BY <3>2, <3>3, <4>3
        <4> QED
          BY <1>8, <4>1, <4>2, <4>3 DEF PlacingTable
      <3> QED
        BY <3>4, <3>5, <3>6
    <2>6. task'.stale = task.stale
      BY <1>2 DEF NotedTable
    <2>7. /\ Ordered(task'.steps, {D!Cmd("mkdir", "root")}, {D!Cmd("mkdir", "libexec")})
          /\ Ordered(task'.steps, {D!Cmd("mkdir", "log")}, {D!Cmd("bootstrap", "service")})
      BY <1>7, <1>t, <2>1
    <2>8. /\ Secured(task'.steps, {D!Cmd("mkdir", "root")}, {}, "root" \in mac'.dirs)
          /\ Secured(task'.steps, {D!Cmd("mkdir", "log")}, {}, "log" \in mac'.dirs)
      BY <1>t, <2>3 DEF Secured
    <2> QED
      BY <2>5, <2>6, <2>7, <2>8 DEF MacInstalling
  <1>14. MacRemoving' /\ MacStanding'
    BY <1>1, <1>2, <1>t DEF MacRemoving, MacStanding, D!Resting
  <1>15. MacChoosing'
    <2>1. Steps(rest) \cap Choices # {} => /\ task.kind = "repair"
                                           /\ \E c \in Choices : rest \in LogPlans(c)
      <3>1. ASSUME Steps(rest) \cap Choices # {}
            PROVE  /\ task.kind = "repair" /\ \E c \in Choices : rest \in LogPlans(c)
        <4>1. task.kind = "repair" /\ \E c \in Choices : all \in LogPlans(c)
          BY <1>4, <3>1 DEF MacInv, MacChoosing, all
        <4>2. PICK c \in Choices : all \in LogPlans(c)
          BY <4>1
        <4>3. rest \in {<<>>, <<c>>}
          BY <1>2, <4>2, MacLogPlan DEF rest, all
        <4>4. rest # <<>>
          BY <3>1 DEF Steps
        <4> QED
          BY <4>1, <4>3, <4>4 DEF LogPlans
      <3> QED
        BY <3>1
    <2> QED
      BY <1>t, <2>1 DEF MacChoosing
  <1> QED
    BY <1>10, <1>11, <1>12, <1>13, <1>14, <1>15 DEF MacInv

\* A removal step by step: what is left to take away shrinks with what is left to do.
LEMMA LeftoversTail ==
    ASSUME NEW m \in Macs, NEW n, NEW s \in Seq(Clearing), s # <<>>, Leftovers(m, s), ClearingTable(m, Head(s), n)
    PROVE  Leftovers(n, Tail(s))
  <1> DEFINE first == Head(s)
             rest == Tail(s)
             remake == {D!Cmd("rm", "logs"), D!Cmd("rm", "socket"), D!Cmd("rmdir", "log")}
  <1>1. Steps(s) = {first} \cup Steps(rest)
    BY TailSteps
  <1>2. /\ Ordered(s, {Bootout}, remake)
        /\ Bootout \in Steps(s) => remake \subseteq Steps(s)
        /\ m.loaded => Bootout \in Steps(s)
        /\ \A f \in m.files \cup m.torn : D!Cmd("rm", f) \in Steps(s)
        /\ m.socket => D!Cmd("rm", "socket") \in Steps(s)
        /\ m.protected # NoName => D!Cmd("rm", "protected") \in Steps(s)
        /\ m.public # NoName => D!Cmd("rm", "public") \in Steps(s)
        /\ \A d \in m.dirs : D!Cmd("rmdir", d) \in Steps(s) \/ Shared(m, d)
    BY DEF Leftovers, Bootout
  <1> HIDE DEF remake
  <1>3. Ordered(rest, {Bootout}, remake) /\ (first \in remake => Steps(s) \cap {Bootout} = {})
    BY <1>2, TailOrdered
  <1>4. ClearingTable(m, first, n)
    OBVIOUS
  <1> HIDE DEF first, rest
  <1>5. Bootout \in Steps(rest) => remake \subseteq Steps(rest)
    BY <1>1, <1>2, <1>3
  <1>6. n.loaded => Bootout \in Steps(rest)
    BY <1>1, <1>2, <1>4 DEF ClearingTable
  <1>7. \A f \in n.files \cup n.torn : D!Cmd("rm", f) \in Steps(rest)
    BY <1>1, <1>2, <1>4 DEF ClearingTable
  <1>8. /\ n.socket => D!Cmd("rm", "socket") \in Steps(rest)
        /\ n.protected # NoName => D!Cmd("rm", "protected") \in Steps(rest)
        /\ n.public # NoName => D!Cmd("rm", "public") \in Steps(rest)
    BY <1>1, <1>2, <1>4 DEF ClearingTable
  <1>9. \A d \in n.dirs : D!Cmd("rmdir", d) \in Steps(rest) \/ Shared(n, d)
    BY <1>1, <1>2, <1>4 DEF ClearingTable, Shared
  <1> QED
    BY <1>3, <1>5, <1>6, <1>7, <1>8, <1>9 DEF Leftovers, Bootout, remake, rest

LEMMA MacClearingStep ==
    ASSUME MacInv, D!Step, task.kind \in {"uninstall", "rollback"}
    PROVE  MacInv'
  <1>1. MacTyped /\ MacShaped /\ MacStanding /\ MacRemoving /\ mac \in Macs /\ task \in Tasks
    BY DEF MacInv, MacTyped
  <1> DEFINE s == Head(task.steps)
             all == task.steps
  <1>2. /\ all # <<>> /\ D!CanRun(mac, s) /\ mac' \in D!Ran(mac, s, task.name)
        /\ NotedTable(task, mac, s, task') /\ outcome' = outcome
    BY <1>1, StepOfTask
  <1>3. all \in Seq(Clearing)
    BY <1>1, TaskKinds
  <1>4. s \in Clearing /\ Tail(all) \in Seq(Clearing)
    BY <1>2, <1>3, TailSteps
  <1>5. ClearingTable(mac, s, mac')
    BY <1>1, <1>2, <1>4, ClearingEffect
  <1>6. /\ task'.steps = Tail(all) /\ task' \in Tasks /\ task'.kind = task.kind
        /\ task'.clean = task.clean /\ task'.stale = task.stale
    BY <1>2 DEF NotedTable
  <1>7. MacTyped'
    BY <1>4, <1>5, <1>6 DEF MacTyped, ClearingTable
  <1>8. MacShaped'
    <2> HIDE DEF s
    <2>1. mac.helper => s # D!Cmd("rmdir", "libexec")
      <3>1. ASSUME s = D!Cmd("rmdir", "libexec")
            PROVE  D!Contents(mac, "libexec") = {}
        <4>1. s.do = "rmdir" /\ s.on = "libexec"
          BY <3>1, CmdIs
        <4> QED
          BY <1>2, <4>1 DEF D!CanRun
      <3> QED
        BY <3>1 DEF D!Contents
    <2>2. "libexec" \in mac.dirs => s # D!Cmd("rmdir", "root")
      <3>1. ASSUME s = D!Cmd("rmdir", "root")
            PROVE  D!Contents(mac, "root") = {}
        <4>1. s.do = "rmdir" /\ s.on = "root"
          BY <3>1, CmdIs
        <4> QED
          BY <1>2, <4>1 DEF D!CanRun
      <3> QED
        BY <3>1 DEF D!Contents
    <2> QED
      BY <1>1, <1>5, <2>1, <2>2 DEF MacShaped, ClearingTable
  <1>9. MacVerified' /\ MacChoosing' /\ MacInstalling'
    BY <1>6 DEF MacVerified, MacChoosing, MacInstalling
  <1>10. MacRemoving'
    <2>1. (task.kind = "uninstall" \/ (task.kind = "rollback" /\ task.clean)) /\ ~task.stale
           => Leftovers(mac', Tail(all))
      BY <1>1, <1>2, <1>3, <1>5, LeftoversTail DEF MacRemoving
    <2> QED
      BY <1>6, <2>1 DEF MacRemoving
  <1>11. MacStanding'
    BY <1>1, <1>2, <1>6 DEF MacStanding, D!Resting
  <1> QED
    BY <1>7, <1>8, <1>9, <1>10, <1>11 DEF MacInv

LEMMA MacFinish ==
    ASSUME MacInv, D!Finish
    PROVE  MacInv'
  <1>1. MacTyped /\ MacShaped /\ MacVerified /\ mac \in Macs /\ task \in Tasks
    BY DEF MacInv, MacTyped
  <1>2. /\ task.kind # "none" /\ task.steps = <<>> /\ mac' = mac /\ task' = D!NoTask
        /\ outcome' \in {"installed", "repaired"} => task.kind \in {"install", "repair"}
    BY TaskTypes, <1>1 DEF D!Finish, D!Resting
  <1>3. task.kind \in {"install", "repair"} => ReadTable(mac)
    <2>1. Steps(task.steps) = {}
      BY <1>2 DEF Steps
    <2> QED
      BY <1>1, <2>1, ReadInstalledIs DEF MacVerified, Secured
  <1> QED
    BY <1>1, <1>2, <1>3, NoTaskIs, MacRests DEF MacShaped

LEMMA MacFail ==
    ASSUME MacInv, D!Fail
    PROVE  MacInv'
  <1>1. MacTyped /\ MacShaped /\ MacInstalling /\ MacStanding /\ mac \in Macs /\ task \in Tasks
    BY DEF MacInv, MacTyped
  <1>2. task.kind # "none" /\ task.steps # <<>> /\ mac' = mac
    BY DEF D!Fail, D!Resting
  <1>3. CASE task.kind = "install"
    <2> DEFINE first == IF task.booted THEN <<Bootout>> ELSE <<>>
               c == D!Reverse(task.created)
               s == first \o D!Each("rm", RemovedFiles) \o D!Each("rmdir", c)
    <2>1. s = D!RollbackSteps(task)
      BY DEF D!RollbackSteps, Bootout, RemovedFiles
    <2>2. task' = [task EXCEPT !.kind = "rollback", !.steps = s] /\ outcome' = outcome
      BY <1>3, <2>1 DEF D!Fail
    <2>3. c \in Seq(MacDirs) /\ Steps(c) = Steps(task.created)
      <3>1. task.created \in Seq(MacDirs)
        BY <1>1, TaskTypes
      <3> QED
        BY <3>1, ReverseSteps
    <2>4. first \in {<<>>, <<Bootout>>} /\ (Bootout \in Steps(first) <=> task.booted)
      BY ShortSteps
    <2> HIDE DEF first, c
    <2>5. /\ s \in Seq(Clearing) /\ Ordered(s, {Bootout}, Remade)
          /\ Steps(s) = Steps(first) \cup {D!Cmd("rm", p) : p \in MacFiles \cup {"socket", "protected", "public"}}
                                     \cup {D!Cmd("rmdir", d) : d \in Steps(c)}
      BY <2>3, <2>4, MacRemovalPlan
    <2> HIDE DEF s
    <2>6. /\ task' \in Tasks /\ task'.kind = "rollback" /\ task'.steps = s /\ task'.stale = task.stale
      <3>1. s \in Seq(Placing \cup Clearing)
        BY <2>5, WiderSteps
      <3> QED
        BY <1>1, <2>2, <3>1 DEF Tasks
    <2>7. MacTyped' /\ MacShaped'
      BY <1>1, <1>2, <2>5, <2>6 DEF MacTyped, MacShaped
    <2>8. ASSUME ~task.stale
          PROVE  Leftovers(mac, s)
      <3>1. /\ mac.loaded => task.booted
            /\ task.booted => "log" \in Steps(task.created)
            /\ \A d \in mac.dirs : d \in Steps(task.created) \/ Shared(mac, d)
        BY <1>1, <1>3, <2>8 DEF MacInstalling
      <3>2. Bootout \in Steps(s) <=> task.booted
        BY <2>4, <2>5, CmdEqual DEF Bootout
      <3>3. \A p \in MacFiles \cup {"socket", "protected", "public"} : D!Cmd("rm", p) \in Steps(s)
        BY <2>5
      <3>4. \A d \in Steps(task.created) : D!Cmd("rmdir", d) \in Steps(s)
        BY <2>3, <2>5
      <3>5. task.booted => Remade \subseteq Steps(s)
        <4>1. "logs" \in MacFiles
          BY DEF MacFiles
        <4> QED
          BY <3>1, <3>3, <3>4, <4>1 DEF Remade
      <3>6. \A d \in mac.dirs : D!Cmd("rmdir", d) \in Steps(s) \/ Shared(mac, d)
        BY <3>1, <3>4
      <3>7. \A f \in mac.files \cup mac.torn : D!Cmd("rm", f) \in Steps(s)
        BY <1>1, <3>3, MacTypes
      <3>8. Ordered(s, {Bootout}, Remade) /\ (mac.loaded => Bootout \in Steps(s))
            /\ (Bootout \in Steps(s) => Remade \subseteq Steps(s))
        BY <2>5, <3>1, <3>2, <3>5
      <3> QED
        BY <3>3, <3>6, <3>7, <3>8 DEF Leftovers, Bootout, Remade
    <2>9. MacRemoving'
      BY <1>2, <2>6, <2>8 DEF MacRemoving
    <2>10. MacVerified' /\ MacChoosing' /\ MacInstalling'
      BY <2>6 DEF MacVerified, MacChoosing, MacInstalling
    <2>11. MacStanding'
      BY <1>1, <1>2, <2>2, <2>6 DEF MacStanding, D!Resting
    <2> QED
      BY <2>7, <2>9, <2>10, <2>11 DEF MacInv
  <1>4. CASE task.kind = "rollback"
    <2> DEFINE rest == Tail(task.steps)
    <2>1. task' = [task EXCEPT !.steps = rest, !.clean = FALSE] /\ outcome' = outcome
      BY <1>4 DEF D!Fail
    <2>2. rest \in Seq(Clearing)
      BY <1>1, <1>2, <1>4, TaskKinds, TailSteps
    <2>3. rest \in Seq(Placing \cup Clearing)
      BY <2>2, WiderSteps
    <2> HIDE DEF rest
    <2>4. task' \in Tasks /\ task'.kind = "rollback" /\ task'.steps = rest /\ task'.clean = FALSE
      BY <1>1, <1>4, <2>1, <2>3 DEF Tasks
    <2>5. MacTyped' /\ MacShaped'
      BY <1>1, <1>2, <2>2, <2>4 DEF MacTyped, MacShaped
    <2>6. MacVerified' /\ MacChoosing' /\ MacInstalling' /\ MacRemoving'
      BY <2>4 DEF MacVerified, MacChoosing, MacInstalling, MacRemoving
    <2>7. MacStanding'
      BY <1>1, <1>2, <2>1, <2>4 DEF MacStanding, D!Resting
    <2> QED
      BY <2>5, <2>6, <2>7 DEF MacInv
  <1>5. CASE task.kind \notin {"install", "rollback"}
    <2>1. task' = D!NoTask /\ outcome' = "failed"
      BY <1>5 DEF D!Fail
    <2> QED
      BY <1>1, <1>2, <2>1, NoTaskIs, MacRests DEF MacShaped
  <1> QED
    BY <1>3, <1>4, <1>5

LEMMA MacKill ==
    ASSUME MacInv, D!Kill
    PROVE  MacInv'
  <1>1. MacTyped /\ MacShaped /\ mac \in Macs
    BY DEF MacInv, MacTyped
  <1>2. task' = D!NoTask /\ outcome' = "none"
    BY DEF D!Kill
  <1>3. CASE mac' = mac
    BY <1>1, <1>2, <1>3, NoTaskIs, MacRests DEF MacShaped
  <1>4. ASSUME mac' # mac
        PROVE  MacInv'
    <2> DEFINE s == Head(task.steps)
    <2>1. task.steps # <<>> /\ s.do = "write" /\ mac' = D!TornFile(mac, s.on)
      BY <1>4 DEF D!Kill
    <2>2. s \in Placing \cup Clearing
      BY <1>1, <2>1, TaskKinds, TaskTypes, TailSteps
    <2> HIDE DEF s
    <2>3. s.on \in Pinned
      <3>1. s.on \in Pinned \cup {"protected", "public"}
        BY <2>1, <2>2, PlacingCases, ClearingCases
      <3> QED
        BY <1>4, <2>1, <3>1 DEF D!TornFile
    <2> DEFINE v == mac.files \ {s.on}
               w == mac.torn \cup {s.on}
    <2>4. mac' = [mac EXCEPT !.files = v, !.torn = w]
      BY <2>1, <2>3 DEF D!TornFile, Pinned
    <2>5. v \subseteq MacFiles /\ w \subseteq MacFiles
      BY <1>1, <2>3, MacTypes DEF MacFiles
    <2> HIDE DEF v, w
    <2>6. Alters(mac, mac', {"files", "torn"}) /\ mac'.files = v /\ mac'.torn = w
      BY <1>1, <2>4, MacTypes DEF Alters, MacFields
    <2>7. mac' \in Macs
      BY <1>1, <2>5, <2>6, MacFromFields
    <2>8. mac'.helper = mac.helper /\ mac'.dirs = mac.dirs
      BY <2>6, AltersFields
    <2> QED
      BY <1>1, <1>2, <2>7, <2>8, NoTaskIs, MacRests DEF MacShaped
  <1> QED
    BY <1>3, <1>4

LEMMA MacReboot ==
    ASSUME MacInv, D!Reboot
    PROVE  MacInv'
  <1>1. MacShaped /\ mac \in Macs
    BY DEF MacInv, MacTyped
  <1>2. task' = D!NoTask /\ outcome' = "none"
    BY DEF D!Reboot
  <1> DEFINE v == "plist" \in mac.files
             off == [mac EXCEPT !.loaded = v, !.bridge = NoName, !.socket = FALSE, !.users = FALSE]
  <1>3. mac' = off \/ \E n \in Names : mac' = D!Started(off, n)
    BY DEF D!Reboot, Names
  <1>4. v \in BOOLEAN
    OBVIOUS
  <1> HIDE DEF v
  <1>5. /\ Alters(mac, off, {"loaded", "bridge", "socket", "users"}) /\ off.loaded = v /\ off.bridge = NoName
        /\ off.socket = FALSE /\ off.users = FALSE
    BY <1>1, MacTypes DEF Alters, MacFields
  <1> HIDE DEF off
  <1>6. NoName \in Names
    BY DEF Names
  <1>7. off \in Macs
    BY <1>1, <1>4, <1>5, <1>6, MacFromFields
  <1>8. off.helper = mac.helper /\ off.dirs = mac.dirs
    BY <1>5, AltersFields
  <1>9. mac' \in Macs /\ mac'.helper = mac.helper /\ mac'.dirs \in {mac.dirs, mac.dirs \cup {"log"}}
    BY <1>3, <1>7, <1>8, StartEffect DEF StartTable
  <1>10. MacShaped'
    BY <1>1, <1>9 DEF MacShaped
  <1> QED
    BY <1>2, <1>9, <1>10, NoTaskIs, MacRests

\* The daemon, a VM and the hosts helper only add to a Mac: the log once the
\* service is loaded, and the shared directories with the helper.
GrowTable(m, n) ==
  /\ n \in Macs /\ n.torn = m.torn /\ n.protected = m.protected /\ n.public = m.public /\ n.loaded = m.loaded
  /\ m.files \subseteq n.files /\ m.dirs \subseteq n.dirs
  /\ \A f \in n.files : f \in m.files \/ (f = "logs" /\ m.loaded)
  /\ n.socket => m.socket \/ m.loaded
  /\ m.helper => n.helper
  /\ n.helper => m.helper \/ {"root", "libexec"} \subseteq n.dirs
  /\ \A d \in n.dirs : d \in m.dirs \/ (d = "log" /\ m.loaded) \/ (d \in {"root", "libexec"} /\ n.helper)

LEMMA GrowEffect ==
    ASSUME mac \in Macs, D!Respawn \/ D!Use \/ D!InstallHelper
    PROVE  GrowTable(mac, mac') /\ task' = task /\ outcome' = outcome
  <1>1. task' = task /\ outcome' = outcome
    BY DEF D!Respawn, D!Use, D!InstallHelper
  <1>2. CASE D!Respawn
    <2>1. PICK x \in Names : mac' = D!Started(mac, x)
      BY <1>2 DEF D!Respawn, Names
    <2>2. StartTable(mac, mac') /\ mac.loaded
      BY <1>2, <2>1, StartEffect DEF D!Respawn, D!Runnable
    <2> QED
      BY <1>1, <2>2 DEF GrowTable, StartTable
  <1>3. CASE D!Use
    <2> DEFINE v == ~mac.users
    <2>1. mac' = [mac EXCEPT !.users = v] /\ v \in BOOLEAN
      BY <1>3 DEF D!Use
    <2> HIDE DEF v
    <2>2. Alters(mac, mac', {"users"}) /\ mac'.users = v
      BY <2>1, OneAlters DEF MacFields
    <2>3. mac' \in Macs
      BY <2>1, <2>2, MacFromFields
    <2>4. /\ mac'.files = mac.files /\ mac'.torn = mac.torn /\ mac'.protected = mac.protected
          /\ mac'.public = mac.public /\ mac'.dirs = mac.dirs /\ mac'.helper = mac.helper
          /\ mac'.loaded = mac.loaded /\ mac'.socket = mac.socket
      BY <2>2, AltersFields
    <2> QED
      BY <1>1, <2>3, <2>4 DEF GrowTable
  <1>4. CASE D!InstallHelper
    <2> DEFINE v == mac.dirs \cup {"root", "libexec"}
    <2>1. mac' = [mac EXCEPT !.helper = TRUE, !.dirs = v]
      BY <1>4 DEF D!InstallHelper
    <2>2. v \subseteq MacDirs
      BY MacTypes DEF MacDirs
    <2>3. Alters(mac, mac', {"helper", "dirs"}) /\ mac'.helper = TRUE /\ mac'.dirs = v
      <3> HIDE DEF v
      <3> QED
        BY <2>1, MacTypes DEF Alters, MacFields
    <2>4. mac' \in Macs
      <3> HIDE DEF v
      <3> QED
        BY <2>2, <2>3, MacFromFields
    <2>5. /\ mac'.files = mac.files /\ mac'.torn = mac.torn /\ mac'.protected = mac.protected
          /\ mac'.public = mac.public /\ mac'.loaded = mac.loaded /\ mac'.socket = mac.socket
      BY <2>3, AltersFields
    <2> QED
      BY <1>1, <2>3, <2>4, <2>5 DEF GrowTable
  <1> QED
    BY <1>2, <1>3, <1>4

\* What is left to take away does not outgrow what is left to do.
LEMMA LeftoversGrow ==
    ASSUME NEW m, NEW n, NEW s, Leftovers(m, s), GrowTable(m, n)
    PROVE  Leftovers(n, s)
  <1> DEFINE remake == {D!Cmd("rm", "logs"), D!Cmd("rm", "socket"), D!Cmd("rmdir", "log")}
  <1>1. /\ Ordered(s, {D!Cmd("bootout", "service")}, remake)
        /\ D!Cmd("bootout", "service") \in Steps(s) => remake \subseteq Steps(s)
        /\ m.loaded => D!Cmd("bootout", "service") \in Steps(s)
        /\ \A f \in m.files \cup m.torn : D!Cmd("rm", f) \in Steps(s)
        /\ m.socket => D!Cmd("rm", "socket") \in Steps(s)
        /\ m.protected # NoName => D!Cmd("rm", "protected") \in Steps(s)
        /\ m.public # NoName => D!Cmd("rm", "public") \in Steps(s)
        /\ \A d \in m.dirs : D!Cmd("rmdir", d) \in Steps(s) \/ Shared(m, d)
    BY DEF Leftovers
  <1>2. m.loaded => remake \subseteq Steps(s)
    BY <1>1
  <1>3. /\ n.loaded = m.loaded /\ n.torn = m.torn /\ n.protected = m.protected /\ n.public = m.public
        /\ \A f \in n.files : f \in m.files \/ (f = "logs" /\ m.loaded)
        /\ n.socket => m.socket \/ m.loaded
        /\ m.helper => n.helper
        /\ \A d \in n.dirs : d \in m.dirs \/ (d = "log" /\ m.loaded) \/ (d \in {"root", "libexec"} /\ n.helper)
    BY DEF GrowTable
  <1>4. \A f \in n.files \cup n.torn : D!Cmd("rm", f) \in Steps(s)
    BY <1>1, <1>2, <1>3
  <1>5. n.socket => D!Cmd("rm", "socket") \in Steps(s)
    BY <1>1, <1>2, <1>3
  <1>6. \A d \in n.dirs : D!Cmd("rmdir", d) \in Steps(s) \/ Shared(n, d)
    BY <1>1, <1>2, <1>3 DEF Shared
  <1> QED
    BY <1>1, <1>3, <1>4, <1>5, <1>6 DEF Leftovers

LEMMA MacGrows ==
    ASSUME MacInv, D!Respawn \/ D!Use \/ D!InstallHelper
    PROVE  MacInv'
  <1>1. MacTyped /\ MacShaped /\ MacVerified /\ MacInstalling /\ MacRemoving /\ MacStanding /\ mac \in Macs
    BY DEF MacInv, MacTyped
  <1>2. GrowTable(mac, mac') /\ task' = task /\ outcome' = outcome
    BY <1>1, GrowEffect
  <1>3. mac' \in Macs
    BY <1>2 DEF GrowTable
  <1>4. MacTyped'
    BY <1>1, <1>2, <1>3 DEF MacTyped
  <1>5. MacShaped'
    BY <1>1, <1>2 DEF MacShaped, GrowTable
  <1>6. D!ReadInstalled(mac) => D!ReadInstalled(mac)'
    <2>1. ReadTable(mac) => ReadTable(mac')
      BY <1>2 DEF ReadTable, GrowTable
    <2>2. D!ReadInstalled(mac)' <=> ReadTable(mac')
      BY <1>3, ReadInstalledIs
    <2> QED
      BY <1>1, <2>1, <2>2, ReadInstalledIs
  <1>7. MacVerified' /\ MacChoosing'
    BY <1>1, <1>2, <1>6 DEF MacInv, MacVerified, MacChoosing, Secured
  <1>8. MacInstalling'
    <2> SUFFICES ASSUME task.kind = "install"
                 PROVE  MacInstalling'
      BY <1>2 DEF MacInstalling
    <2>1. ASSUME ~task.stale
          PROVE  /\ mac'.loaded => task.booted
                 /\ task.booted => "log" \in Steps(task.created)
                 /\ \A d \in mac'.dirs : d \in Steps(task.created) \/ Shared(mac', d)
      BY <1>1, <1>2, <2>1 DEF MacInstalling, GrowTable, Shared
    <2>2. /\ Secured(task.steps, {D!Cmd("mkdir", "root")}, {}, "root" \in mac'.dirs)
          /\ Secured(task.steps, {D!Cmd("mkdir", "log")}, {}, "log" \in mac'.dirs)
      BY <1>1, <1>2 DEF MacInstalling, Secured, GrowTable
    <2> QED
      BY <1>1, <1>2, <2>1, <2>2 DEF MacInstalling
  <1>9. MacRemoving'
    BY <1>1, <1>2, LeftoversGrow DEF MacRemoving
  <1>10. MacStanding'
    BY <1>1, <1>2, <1>6 DEF MacStanding, D!Resting
  <1> QED
    BY <1>4, <1>5, <1>7, <1>8, <1>9, <1>10 DEF MacInv

LEMMA MacClears ==
    ASSUME MacInv, D!ClearLogs
    PROVE  MacInv'
  <1>1. MacTyped /\ MacShaped /\ MacStanding /\ mac \in Macs
    BY DEF MacInv, MacTyped
  <1> DEFINE v == mac.dirs \ {"log"}
             w == mac.files \ {"logs"}
  <1>2. mac' = [mac EXCEPT !.dirs = v, !.files = w] /\ task' = task /\ outcome' = outcome /\ D!Resting
    BY DEF D!ClearLogs
  <1>3. v \subseteq MacDirs /\ w \subseteq MacFiles
    BY <1>1, MacTypes
  <1>4. Alters(mac, mac', {"dirs", "files"}) /\ mac'.dirs = v /\ mac'.files = w
    <2> HIDE DEF v, w
    <2> QED
      BY <1>1, <1>2, MacTypes DEF Alters, MacFields
  <1>5. mac' \in Macs
    <2> HIDE DEF v, w
    <2> QED
      BY <1>1, <1>3, <1>4, MacFromFields
  <1>6. mac'.helper = mac.helper /\ mac'.torn = mac.torn /\ mac'.protected = mac.protected /\ mac'.public = mac.public
    BY <1>4, AltersFields
  <1>7. MacShaped'
    BY <1>1, <1>4, <1>6 DEF MacShaped
  <1>8. ReadTable(mac) => ReadTable(mac')
    BY <1>4, <1>6 DEF ReadTable, Pinned
  <1>9. outcome' \in {"installed", "repaired"} => ReadTable(mac')
    BY <1>1, <1>2, <1>8, ReadInstalledIs DEF MacStanding
  <1>10. task' \in Tasks /\ task'.kind = "none"
    BY <1>1, <1>2 DEF MacTyped, D!Resting
  <1> QED
    BY <1>5, <1>7, <1>9, <1>10, MacRests

LEMMA MacInductive ==
    ASSUME MacInv, [Next]_vars
    PROVE  MacInv'
  <1>1. ASSUME DarwinIdle PROVE MacInv'
    <2>1. mac' = mac /\ task' = task /\ outcome' = outcome
      BY <1>1 DEF DarwinIdle
    <2>2. MacTyped' /\ MacShaped' /\ MacVerified' /\ MacChoosing' /\ MacRemoving' /\ MacStanding'
      BY <2>1 DEF MacInv, MacTyped, MacShaped, MacVerified, MacChoosing, MacRemoving, MacStanding, D!Resting
    <2>3. MacInstalling'
      BY <2>1 DEF MacInv, MacInstalling
    <2> QED
      BY <2>2, <2>3 DEF MacInv
  <1>2. CASE Setup
    BY <1>1, <1>2, MacBeginsInstall, MacBeginsRepair DEF Setup
  <1>3. CASE NetworkInstall
    BY <1>1, <1>3, MacBeginsInstall DEF NetworkInstall
  <1>4. CASE NetworkUninstall
    BY <1>1, <1>4, MacBeginsUninstall DEF NetworkUninstall
  <1>5. CASE Darwin
    <2>1. CASE D!Step
      <3>1. task.kind \in {"install", "repair", "uninstall", "rollback"}
        BY <2>1, TaskKinds DEF MacInv, D!Step
      <3> QED
        BY <2>1, <3>1, MacPlacingStep, MacClearingStep
    <2> QED
      BY <1>5, <2>1, MacChooses, MacFinish, MacFail, MacKill, MacReboot, MacGrows, MacClears
         DEF Darwin, D!Progress, D!Surroundings
  <1>6. CASE Linux \/ RouteChange \/ UNCHANGED vars
    BY <1>1, <1>6 DEF Linux, RouteChange, vars, DarwinIdle
  <1> QED
    BY <1>2, <1>3, <1>4, <1>5, <1>6 DEF Next

\* The same of a Mac (install, rollbackFreshInstall and Uninstall,
\* darwin/executor.go, and repair.go): a removal has a step left
\* for all that is there, and an install or repair checks what it wrote last.
THEOREM MacInvariance == Spec => []MacInv
  <1>1. Init => MacInv
    BY MacInit
  <1>2. MacInv /\ [Next]_vars => MacInv'
    BY MacInductive
  <1> QED
    BY <1>1, <1>2, PTL DEF Spec

-----------------------------------------------------------------------------
(* What the invariants say of a host.                                      *)

LEMMA MacRemovalRestores ==
    ASSUME MacInv, [Next]_vars, ~D!Resting, outcome' \in {"removed", "rolledback"}, ~task.stale
    PROVE  D!Clean(mac')
  <1>1. /\ MacShaped /\ mac \in Macs /\ task \in Tasks /\ task.kind # "none" /\ outcome = "none"
    BY DEF MacInv, MacTyped, MacStanding, D!Resting
  <1>2. Darwin
    BY <1>1 DEF Next, vars, Setup, NetworkInstall, NetworkUninstall, Linux, RouteChange, DarwinIdle,
                D!Install, D!Uninstall, D!Repair
  <1>3. D!Finish
    BY <1>1, <1>2 DEF Darwin, D!Progress, D!Surroundings, D!Step, D!Choose, D!Fail, D!Kill, D!Reboot, D!Respawn, D!Use,
                      D!InstallHelper, D!ClearLogs
  <1>4. /\ mac' = mac /\ task.steps = <<>>
        /\ task.kind = "uninstall" \/ (task.kind = "rollback" /\ task.clean)
    BY <1>1, <1>3, TaskTypes DEF D!Finish
  <1>5. Leftovers(mac, task.steps) /\ Steps(task.steps) = {}
    BY <1>4 DEF MacInv, MacRemoving, Steps
  <1>6. /\ mac.files = {} /\ mac.torn = {} /\ ~mac.socket /\ ~mac.loaded
        /\ mac.protected = NoName /\ mac.public = NoName
        /\ \A d \in mac.dirs : Shared(mac, d)
    BY <1>5 DEF Leftovers
  <1>7. mac.dirs = IF mac.helper THEN {"root", "libexec"} ELSE {}
    BY <1>1, <1>6 DEF Shared, MacShaped
  <1> QED
    BY <1>4, <1>6, <1>7 DEF D!Clean

LEMMA MacIsProtected ==
    ASSUME MacInv, ~OnLinux, D!Resting, outcome \in {"installed", "repaired"}
    PROVE  Snapshot.status = "protected"
  <1>1. D!ReadInstalled(mac) /\ mac \in Macs
    BY DEF MacInv, MacStanding, MacTyped
  <1>2. {"daemon", "client", "plist"} \subseteq mac.files /\ D!AllRequired(mac)
    BY <1>1 DEF D!ReadInstalled
  <1>3. ~D!NoneInstalled(mac)
    BY <1>2 DEF D!NoneInstalled, D!RequiredPresent
  <1> QED
    BY <1>2, <1>3 DEF Snapshot, CollectDarwin, Nothing

\* A repair that the preflight offers for a Mac whose service is up under its
\* recorded name is one of the log directory.
LEMMA NoRestart ==
    ASSUME ~OnLinux, Offered, D!AllRequired(mac), D!Accepting(mac), mac.bridge = mac.public
    PROVE  ~NeedsRestart(Evaluate(Request("install"), Snapshot))
  <1> DEFINE r == Request("install")
             known == D!AllRequired(mac)
  <1>1. /\ r.cidr = "lab" /\ r.addresses = {} /\ r.purpose = "install"
    BY DEF Request
  <1>2. Snapshot = CollectDarwin
    BY DEF Snapshot
  <1>3. /\ Snapshot.cidr = "lab" /\ Snapshot.healthy /\ Snapshot.interfaces = {"ours"}
        /\ Snapshot.routes = routes \cup LinkRoutes(TRUE)
        /\ Snapshot.findings \subseteq {Error("installation.log_directory")}
        /\ Snapshot.sharing = FALSE
    BY <1>2 DEF CollectDarwin, Nothing, D!Accepting, LogFinding
  <1>4. Snapshot.status \in {"exact", "protected"}
    BY DEF Offered, CanRepair
  <1> HIDE DEF r
  <1>5. InstallationFindings(r, Snapshot) = {}
    BY <1>1, <1>3, <1>4 DEF InstallationFindings
  <1>6. Exact(r, Snapshot)
    BY <1>1, <1>3, <1>4 DEF Exact
  <1>7. InterfaceFindings(r, Snapshot) = {}
    BY <1>3, <1>6 DEF InterfaceFindings
  <1>8. RouteFindings(r, Snapshot) \subseteq {Error("route.overlap")}
    <2>1. [covers |-> "same", owner |-> "ours"] \in {x \in Snapshot.routes : RouteCompetes(x)}
      BY <1>3 DEF LinkRoutes, RouteCompetes
    <2> QED
      BY <2>1 DEF RouteFindings
  <1>9. Evaluate(r, Snapshot) \subseteq {Error("installation.log_directory"), Error("route.overlap")}
    BY <1>1, <1>3, <1>5, <1>7, <1>8 DEF Evaluate
  <1>10. \A f \in Errors(Evaluate(r, Snapshot)) : f.code \in Repairable
    BY DEF Offered, CanRepair, r
  <1>11. \A f \in Errors(Evaluate(r, Snapshot)) : f.code = "installation.log_directory"
    BY <1>9, <1>10 DEF Errors, Error, Finding, Repairable
  <1> QED
    BY <1>11 DEF NeedsRestart, r

\* Steps that bring no restart nearer.
Harmless(s) == \A i \in DOMAIN s : s[i].do # "kickstart" /\ s[i] # D!Cmd("choose", "restart")

LEMMA HarmlessPlans ==
    ASSUME NEW c, c = D!Cmd("choose", "reuse"), NEW s \in LogPlans(c) \cup {<<>>}
    PROVE  Harmless(s)
  <1> DEFINE bad == D!Cmd("choose", "restart")
             a == D!Cmd("mkdir", "log")
             b == D!Cmd("chmod", "log")
  <1>1. a.do # "kickstart" /\ b.do # "kickstart" /\ c.do # "kickstart"
    BY CmdIs
  <1>2. a # bad /\ b # bad /\ c # bad
    BY CmdEqual
  <1>3. s \in {<<>>, <<c>>, <<a, c>>, <<b, c>>}
    BY DEF LogPlans
  <1> HIDE DEF a, b, bad
  <1>4. \A i \in DOMAIN s : s[i] \in {a, b, c}
    BY <1>3
  <1> QED
    BY <1>1, <1>2, <1>4 DEF Harmless, bad

\* The preflight plans no restart for a service that it finds up.
LEMMA SparingPlan ==
    ASSUME [Next]_vars, D!Resting, task'.kind = "repair", D!Usable(mac)
    PROVE  Harmless(task'.steps)
  <1>1. task.kind = "none"
    BY DEF D!Resting
  <1>2. task' # task /\ task' # D!NoTask
    BY <1>1 DEF D!NoTask
  <1>3. ~OnLinux /\ Offered /\ D!Repair(NeedsRestart(Evaluate(Request("install"), Snapshot)))
    <2>1. ~D!Install /\ ~D!Uninstall
      BY DEF D!Install, D!Uninstall, D!NoTask
    <2>2. ~D!Progress /\ ~D!Surroundings
      BY <1>2 DEF D!Progress, D!Surroundings, D!Step, D!Choose, D!Finish, D!Fail, D!Kill, D!Reboot, D!Respawn, D!Use,
                  D!InstallHelper, D!ClearLogs
    <2>3. ~DarwinIdle
      BY <1>2 DEF DarwinIdle
    <2> QED
      BY <2>1, <2>2, <2>3 DEF Next, vars, Setup, NetworkInstall, NetworkUninstall, Linux, Darwin, RouteChange,
                              DarwinIdle
  <1>4. D!AllRequired(mac)
    BY <1>3 DEF D!Repair, D!ReadInstalled
  <1>5. ~NeedsRestart(Evaluate(Request("install"), Snapshot))
    BY <1>3, <1>4, NoRestart DEF D!Usable
  <1>6. \E s \in LogPlans(D!Cmd("choose", "reuse")) : task'.steps = s
    BY <1>3, <1>5, RepairStarts
  <1> QED
    BY <1>6, HarmlessPlans

\* What a log repair has left until and after its choice.
LEMMA SparingSteps ==
    ASSUME MacInv, [Next]_vars, ~D!Resting, task'.kind = "repair", D!Usable(mac),
           D!Cmd("choose", "reuse") \in Steps(task.steps)
    PROVE  Harmless(task'.steps)
  <1> DEFINE c == D!Cmd("choose", "reuse")
             all == task.steps
  <1>1. MacTyped /\ MacChoosing /\ task \in Tasks /\ task.kind # "none"
    BY DEF MacInv, MacTyped, D!Resting
  <1>2. c \in Choices /\ c.do = "choose"
    BY CmdIs DEF Choices
  <1> HIDE DEF c
  <1>3. task.kind \in {"install", "repair"}
    <2>1. task.kind \in {"uninstall", "rollback"} => c \in Clearing
      <3>1. task.kind \in {"uninstall", "rollback"} => all \in Seq(Clearing)
        BY <1>1, TaskKinds
      <3>2. c \in Steps(all)
        BY DEF c
      <3> HIDE DEF all
      <3> QED
        BY <3>1, <3>2 DEF Steps
    <2> QED
      BY <1>1, <1>2, <2>1, TaskKinds, ClearingCases
  <1>4. task.kind = "repair" /\ all \in LogPlans(c)
    <2>1. task.kind = "repair" /\ \E d \in Choices : all \in LogPlans(d)
      BY <1>1, <1>2, <1>3 DEF MacChoosing, c
    <2>2. PICK d \in Choices : all \in LogPlans(d)
      BY <2>1
    <2>3. Steps(all) \subseteq {D!Cmd("mkdir", "log"), D!Cmd("chmod", "log"), d}
      BY <2>2, MacLogPlan
    <2>4. c # D!Cmd("mkdir", "log") /\ c # D!Cmd("chmod", "log")
      BY CmdEqual DEF c
    <2>5. d = c
      BY <2>3, <2>4 DEF c
    <2> QED
      BY <2>1, <2>2, <2>5
  <1>5. all # <<>>
    BY <1>4 DEF LogPlans
  <1>6. task' # D!NoTask
    BY DEF D!NoTask
  <1>7. CASE task' = task
    BY <1>4, <1>7, HarmlessPlans DEF c
  <1>8. CASE D!Step
    <2>1. task'.steps = Tail(all)
      BY <1>1, <1>8, StepOfTask DEF NotedTable
    <2>2. Tail(all) \in {<<>>, <<c>>}
      BY <1>2, <1>4, <1>5, MacLogPlan
    <2> QED
      BY <2>1, <2>2, HarmlessPlans DEF LogPlans, c
  <1>9. CASE D!Choose
    <2>1. Head(all).do = "choose"
      BY <1>9 DEF D!Choose
    <2>2. Head(all) = c
      <3> DEFINE a == D!Cmd("mkdir", "log")
                 b == D!Cmd("chmod", "log")
      <3>1. a.do # "choose" /\ b.do # "choose"
        BY CmdIs
      <3>2. all \in {<<c>>, <<a, c>>, <<b, c>>}
        BY <1>4 DEF LogPlans
      <3> HIDE DEF a, b, all
      <3>3. Head(all) \in {a, b, c}
        BY <3>2
      <3> QED
        BY <2>1, <3>1, <3>3
    <2>3. Head(all).on = "reuse"
      BY <2>2, CmdIs DEF c
    <2>4. task' = [task EXCEPT !.seen = {mac.bridge} \ {NoName, mac.public}, !.steps = <<>>]
      BY <1>9, <2>3 DEF D!Choose
    <2>5. task'.steps = <<>>
      BY <1>1, <2>4 DEF Tasks
    <2> QED
      BY <2>5, HarmlessPlans
  <1>10. \/ task' = task \/ D!Step \/ D!Choose
    <2>1. ~D!Install /\ ~D!Uninstall /\ \A restart : ~D!Repair(restart)
      BY DEF D!Install, D!Uninstall, D!Repair
    <2>2. ~D!Finish /\ ~D!Kill /\ ~D!Reboot
      BY <1>6 DEF D!Finish, D!Kill, D!Reboot
    <2>3. ~D!Fail
      BY <1>4, <1>6 DEF D!Fail
    <2>4. D!Respawn \/ D!Use \/ D!InstallHelper \/ D!ClearLogs => task' = task
      BY DEF D!Respawn, D!Use, D!InstallHelper, D!ClearLogs
    <2>5. DarwinIdle => task' = task
      BY DEF DarwinIdle
    <2> QED
      BY <2>1, <2>2, <2>3, <2>4, <2>5 DEF Next, vars, Setup, NetworkInstall, NetworkUninstall, Linux, Darwin,
                              RouteChange, D!Progress, D!Surroundings
  <1> QED
    BY <1>7, <1>8, <1>9, <1>10

LEMMA RepairSpares ==
    ASSUME MacInv, [Next]_vars, task'.kind = "repair", D!Usable(mac),
           D!Resting \/ \E i \in DOMAIN task.steps : task.steps[i] = D!Cmd("choose", "reuse")
    PROVE  \A i \in DOMAIN task'.steps : task'.steps[i].do # "kickstart"
                                         /\ task'.steps[i] # D!Cmd("choose", "restart")
  <1>1. CASE D!Resting
    BY <1>1, SparingPlan DEF Harmless
  <1>2. CASE ~D!Resting
    <2>1. D!Cmd("choose", "reuse") \in Steps(task.steps)
      BY <1>2 DEF Steps
    <2> QED
      BY <1>2, <2>1, SparingSteps DEF Harmless
  <1> QED
    BY <1>1, <1>2

\* Whatever other software does to the routes, the networkd configuration and
\* the VMs, what an ordinary user's preflight offers to repair on Linux is what
\* the installer with the manifest in its hands accepts (preflight.go CanRepair,
\* plan.go NewInstallPlan).
THEOREM RepairsAccepted == Spec => []RepairIsAccepted
  <1>1. LinuxInv => RepairIsAccepted
    BY LinuxAccepts
  <1> QED
    BY <1>1, LinuxInvariance, PTL

\* After a reported success, and after every failed, killed or repeated command
\* since that left it standing, the checks of the next command pass (setup.go
\* 1259-1268): on Linux nothing but foreign routes is found, a Mac is protected.
THEOREM InstallsVerified == Spec => []InstalledIsVerified
  <1>1. LinuxInv /\ MacInv => InstalledIsVerified
    BY LinuxVerified, MacIsProtected DEF InstalledIsVerified
  <1> QED
    BY <1>1, LinuxInvariance, MacInvariance, PTL

\* What an uninstall or a rollback reports as removed is removed: from a Linux
\* host to the files, modes, units and directories of before the first install,
\* from a Mac all but the root shared with the hosts helper (plan.go
\* NewUninstallPlan, restoreNetworkdCommands, executor.go rollbackFreshInstall).
THEOREM RemovalsRestore == Spec => RemovalRestores
  <1>1. LinuxInv /\ MacInv /\ [Next]_vars =>
          [/\ ~L!Idle /\ report' \in {"removed", "rolledback"} => L!Prestate(host') = before
           /\ ~D!Resting /\ outcome' \in {"removed", "rolledback"} /\ ~task.stale => D!Clean(mac')]_vars
    BY LinuxRemovalRestores, MacRemovalRestores
  <1> QED
    BY <1>1, LinuxInvariance, MacInvariance, PTL DEF Spec, RemovalRestores

\* While the service of a Mac is up under its recorded name and takes
\* connections, neither the preflight that plans a repair nor a repair of the log
\* directory on its way brings a restart nearer, so running VMs stay connected
\* (repair.go 38-49).
THEOREM RepairsSpare == Spec => RepairSparesVMs
  <1>1. MacInv /\ [Next]_vars =>
          [/\ task'.kind = "repair" /\ D!Usable(mac)
           /\ D!Resting \/ \E i \in DOMAIN task.steps : task.steps[i] = D!Cmd("choose", "reuse")
           => \A i \in DOMAIN task'.steps : task'.steps[i].do # "kickstart"
                                             /\ task'.steps[i] # D!Cmd("choose", "restart")]_vars
    BY RepairSpares
  <1> QED
    BY <1>1, MacInvariance, PTL DEF Spec, RepairSparesVMs
=============================================================================
