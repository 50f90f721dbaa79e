----------------------------- MODULE Deployment -----------------------------
(***************************************************************************)
(* The lifecycle of a deployment: the phase and the process identity each  *)
(* node's state.json records, against the QEMU that really runs and the    *)
(* socket and pidfile in the node's runtime directory.                     *)
(*                                                                         *)
(* A session is what one command does under the deployment lock: status,   *)
(* start, stop, destroy, or the creation of nodes; `up`, `restart` and     *)
(* `recreate` are sequences of sessions with other commands' sessions in   *)
(* between.  A session touches its nodes one step at a time and may be     *)
(* killed, or fail and return, after any of them; the QEMUs, their PIDs    *)
(* and the runtime directories, which another data root may share, change  *)
(* under it at any moment.  What one QEMU's launch, abort and stop do in   *)
(* detail is the module QemuProcess; the node's files are NodeArtifacts.   *)
(***************************************************************************)
EXTENDS Naturals, FiniteSets

CONSTANTS
    Node,
    MaxQemus,   \* bound of the QEMUs of one node that are counted
    Races   \* may a QEMU come up between a cleanup's check of the runtime
            \* directory and its removal, or in a directory made anew after it?

ASSUME ConstantAssumption == MaxQemus \in Nat \ {0} /\ Races \in BOOLEAN

VARIABLES
    phase,     \* phase[n] in state.json; "absent" without one
    proc,      \* recorded identity: "none", "current" (it runs) or "old" (it is dead)
    alive,     \* alive[n]: how many QEMUs of n run
    answers,   \* n's QEMU answers on its QMP socket
    rt,        \* runtime directory: "none", "empty", with a socket and pidfile ("files"),
               \* with a pidfile nobody filled ("torn"), or in use by a QEMU of
               \* another data root ("foreign")
    stranger,  \* the PID of n's last QEMU now belongs to another process
    late,      \* a launch of n is still under way after its command was killed
    job,       \* the session holding the deployment lock
    scope,     \* its nodes
    w,         \* w[n]: its next step on n
    calm       \* from here on nothing crashes, hangs or interferes

state == <<phase, proc>>
host == <<alive, answers, rt, stranger, late>>
vars == <<phase, proc, alive, answers, rt, stranger, late, job, scope, w, calm>>

Phases == {"absent", "prepared", "starting", "running", "stopping", "stopped", "destroying"}
Transition == {"starting", "stopping", "destroying"}
Off == {"absent", "prepared", "stopped", "destroying"}

Steps == {"idle", "done", "failed",
          "look", "audit", "capture", "clean", "unlink", "adopt", "halt",
          "prepare", "write", "setup", "boot", "persist", "abort",
          "stWrite", "stHalt", "stClean", "stUnlink", "stOff", "stDone",
          "dCheck", "dMark", "dRemove", "dClean", "dUnlink"}

\* Between checkRuntimeUnused and the removal that follows it.
Unlinking == {"unlink", "stUnlink", "dUnlink"}

Committed == {n \in Node : phase[n] # "absent"}

-----------------------------------------------------------------------------
(* What a command can find out.                                            *)

\* A QMP query of the runtime socket: our name and UUID, another VM's, silence.
Qmp(n) ==
    IF rt[n] = "foreign" THEN "mismatch"
    ELSE IF rt[n] = "files" /\ alive[n] > 0 /\ answers[n] THEN "match" ELSE "silent"

\* The pidfile names a live process.
PidfileLive(n) == rt[n] = "files" /\ (alive[n] > 0 \/ stranger[n])

\* Mutant: an interrupted node is never proven dead while its directory exists.
AuditLeftovers(n) ==
    IF Qmp(n) = "match" THEN "qmp"
    ELSE IF proc[n] = "current" THEN "process"
    ELSE IF rt[n] # "none" THEN "error" ELSE "dead"

\* RuntimeIdentityAuditor: authority by QMP, then the recorded process, then
\* the pidfile.  A live process that is not proven ours is an error, and so is
\* a pidfile that names no process.
Audit(n) ==
    IF Qmp(n) = "match" THEN "qmp"
    ELSE IF Qmp(n) = "mismatch" THEN "error"
    ELSE IF proc[n] = "current" THEN "process"
    ELSE IF (proc[n] = "old" /\ stranger[n]) \/ PidfileLive(n) \/ rt[n] = "torn" THEN "error"
    ELSE "dead"

\* Mutant: whatever no other data root uses is ours to remove.
UnusedByOthers(n) == rt[n] # "foreign"

\* Mutant: only our own QEMU is looked for.
UnusedByUs(n) == ~(rt[n] = "files" /\ alive[n] > 0)

\* checkRuntimeUnused: nobody listens on the socket, the pidfile's PID, if there
\* is one in it, is free.
Unused(n) == rt[n] # "foreign" /\ ~PidfileLive(n)

\* The rest of cleanupRuntime: socket, pidfile and directory go.  A launch
\* that has not made its pidfile yet fails without the directory.
Unlink(n) ==
    /\ rt' = [rt EXCEPT ![n] = "none"]
    /\ late' = IF Races THEN late ELSE [late EXCEPT ![n] = FALSE]
    /\ UNCHANGED <<state, alive, answers, stranger>>

-----------------------------------------------------------------------------
(* Sessions.                                                               *)

\* Mutant: a session works on nodes nobody selected.
BeginEverywhere(kind, S, Step) ==
    /\ job = "none" /\ S # {}
    /\ job' = kind /\ scope' = S /\ w' = Step
    /\ UNCHANGED <<state, host, calm>>

\* Take the deployment lock.  Step[n] is the first thing to do on n.
Begin(kind, S, Step) ==
    /\ job = "none" /\ S # {}
    /\ job' = kind /\ scope' = S
    /\ w' = [n \in Node |-> IF n \in S THEN Step[n] ELSE "idle"]
    /\ UNCHANGED <<state, host, calm>>

Release ==
    /\ job' = "none" /\ scope' = {}
    /\ w' = [n \in Node |-> "idle"]
    /\ UNCHANGED calm

Go(n, from, to) ==
    /\ w[n] = from /\ w' = [w EXCEPT ![n] = to]
    /\ UNCHANGED <<job, scope, calm>>

Done == \A n \in scope : w[n] = "done"

\* No node of the session is still at one of these steps.
Past(steps) == \A n \in scope : w[n] \notin steps

-----------------------------------------------------------------------------
(* status.                                                                 *)

FirstLook(n) == IF phase[n] = "running" THEN "look"
                ELSE IF phase[n] \in Transition THEN "audit" ELSE "done"

StatusBegin(S) ==
    /\ S \subseteq Committed
    /\ Begin("status", S, [n \in Node |-> FirstLook(n)])

\* A node recorded running is audited for death only when QMP is silent; a
\* match, a mismatch and a contradiction are reported and change nothing.
Look(n) ==
    /\ Go(n, "look", IF Qmp(n) = "silent" THEN "audit" ELSE "done")
    /\ UNCHANGED <<state, host>>

AuditNode(n) ==
    /\ Go(n, "audit", IF Audit(n) = "dead" THEN "clean"
                      ELSE IF Audit(n) = "qmp" /\ phase[n] = "starting" /\ proc[n] = "none"
                           THEN "capture" ELSE "done")
    /\ UNCHANGED <<state, host>>

\* captureRuntimeProcess: the pidfile's process runs the persisted invocation.
Capture(n) ==
    /\ Go(n, "capture", IF alive[n] > 0 /\ rt[n] = "files" THEN "adopt" ELSE "done")
    /\ UNCHANGED <<state, host>>

\* cleanupRuntime of a runtime proven dead
Clean(n) ==
    \/ Go(n, "clean", IF Unused(n) THEN "unlink" ELSE "done") /\ UNCHANGED <<state, host>>
    \/ Go(n, "unlink", "halt") /\ Unlink(n)

\* The verdicts are written when every node has been looked at.
Converge(n) ==
    /\ Past({"look", "audit", "capture", "clean", "unlink"})
    /\ \/ /\ Go(n, "halt", "done")
          /\ phase' = [phase EXCEPT ![n] = "stopped"] /\ proc' = [proc EXCEPT ![n] = "none"]
       \/ /\ Go(n, "adopt", "done")
          /\ phase' = [phase EXCEPT ![n] = "running"]
          /\ proc' = [proc EXCEPT ![n] = IF alive[n] > 0 THEN "current" ELSE "old"]
    /\ UNCHANGED host

StatusEnd == job = "status" /\ Done /\ Release /\ UNCHANGED <<state, host>>

Status == \/ \E S \in SUBSET Node : StatusBegin(S)
          \/ \E n \in Node : Look(n) \/ AuditNode(n) \/ Capture(n) \/ Clean(n) \/ Converge(n)
          \/ StatusEnd

-----------------------------------------------------------------------------
(* start, and the creation of nodes.                                       *)

\* loadNodes
Startable(n) == phase[n] \in {"prepared", "stopped"} /\ proc[n] = "none"

\* A running node takes part only in the readiness check.
StartBegin ==
    \E S \in SUBSET Committed :
        /\ \A n \in S : Startable(n) \/ phase[n] = "running"
        /\ Begin("start", S, [n \in Node |-> IF Startable(n) THEN "write" ELSE "done"])

CreateBegin ==
    \E S \in SUBSET (Node \ Committed) : Begin("start", S, [n \in Node |-> "prepare"])

\* PrepareNode and CommitPrepared; a node that cannot be prepared drops out.
Prepare(n) ==
    /\ \/ Go(n, "prepare", "write") /\ phase' = [phase EXCEPT ![n] = "prepared"]
       \/ Go(n, "prepare", "done") /\ UNCHANGED phase
    /\ UNCHANGED <<proc, host>>

\* `starting` is published for every node that passes the preflight before
\* the first launch.
WriteStarting(n) ==
    /\ Past({"prepare"})
    /\ \/ Go(n, "write", "setup") /\ phase' = [phase EXCEPT ![n] = "starting"]
       \/ Go(n, "write", "done") /\ UNCHANGED phase
    /\ UNCHANGED <<proc, host>>

\* setupRuntime: the directory is made, and must be empty.
Setup(n) ==
    /\ Past({"prepare", "write"})
    /\ \/ /\ rt[n] \in {"none", "empty"} /\ Go(n, "setup", "boot")
          /\ rt' = [rt EXCEPT ![n] = "empty"]
       \/ /\ rt[n] \notin {"none", "empty"} /\ Go(n, "setup", "done")
          /\ UNCHANGED rt
    /\ UNCHANGED <<state, alive, answers, stranger, late>>

\* A QEMU of n comes up: the pidfile is not locked by another, the socket is
\* its own from then on.
Launchable(n) == rt[n] = "empty" \/ (rt[n] \in {"files", "torn"} /\ alive[n] = 0)

Spawn(n) ==
    /\ Launchable(n)
    /\ alive[n] < MaxQemus
    /\ alive' = [alive EXCEPT ![n] = @ + 1]
    /\ rt' = [rt EXCEPT ![n] = "files"]
    /\ answers' = [answers EXCEPT ![n] = TRUE]
    /\ stranger' = [stranger EXCEPT ![n] = FALSE]

\* QEMU dies after it created its pidfile and before it wrote the PID.
Tear(n) ==
    /\ Launchable(n)
    /\ rt' = [rt EXCEPT ![n] = "torn"]
    /\ UNCHANGED <<alive, answers, stranger>>

\* vm.Lifecycle.Start: the launch succeeds; or it fails and the compensation
\* fails as well; or it fails and no QEMU is left, perhaps its files.
Boot(n) ==
    /\ \/ Go(n, "boot", "persist") /\ Spawn(n) /\ UNCHANGED late
       \/ Go(n, "boot", "done") /\ Spawn(n) /\ UNCHANGED late
       \/ /\ Go(n, "boot", "done")
          /\ rt' \in {rt, [rt EXCEPT ![n] = IF @ = "empty" THEN "files" ELSE @]}
          /\ UNCHANGED <<alive, answers, stranger, late>>
       \/ ~calm /\ Go(n, "boot", "done") /\ Tear(n) /\ UNCHANGED late
    /\ UNCHANGED state

\* Mutant: the phase is recorded without the process.
PersistPhaseOnly(n) ==
    /\ Go(n, "persist", "done")
    /\ phase' = [phase EXCEPT ![n] = "running"]
    /\ UNCHANGED <<proc, host>>

\* The state document with the captured identity; if it cannot be written the
\* QEMU is stopped again.
Persist(n) ==
    \/ /\ Go(n, "persist", "done")
       /\ phase' = [phase EXCEPT ![n] = "running"]
       /\ proc' = [proc EXCEPT ![n] = IF alive[n] > 0 THEN "current" ELSE "old"]
       /\ UNCHANGED host
    \/ Go(n, "persist", "abort") /\ UNCHANGED <<state, host>>

\* Mutant: the files are removed although the QEMU could not be ended.
AbortStartAnyway(n) ==
    /\ Go(n, "abort", "done")
    /\ rt' = [rt EXCEPT ![n] = "none"]
    /\ \/ alive' = [alive EXCEPT ![n] = 0] /\ answers' = [answers EXCEPT ![n] = FALSE]
       \/ ~calm /\ UNCHANGED <<alive, answers>>
    /\ UNCHANGED <<state, stranger, late>>

\* AbortStart: AbortIdentity ends the QEMU, cleanupRuntime its files; either
\* may fail.
AbortStart(n) ==
    /\ Go(n, "abort", "done")
    /\ \/ /\ alive' = [alive EXCEPT ![n] = 0]
          /\ answers' = [answers EXCEPT ![n] = FALSE]
          /\ rt' = IF rt[n] = "files" /\ ~stranger[n] THEN [rt EXCEPT ![n] = "none"] ELSE rt
          /\ UNCHANGED <<stranger, late>>
       \/ ~calm /\ UNCHANGED host
    /\ UNCHANGED state

\* The command ends, or reports the state it reached under the same lock.
StartEnd ==
    /\ job = "start" /\ Done
    /\ \/ Release
       \/ /\ job' = "status"
          /\ w' = [n \in Node |-> IF n \in scope THEN FirstLook(n) ELSE "idle"]
          /\ UNCHANGED <<scope, calm>>
    /\ UNCHANGED <<state, host>>

Start == \/ StartBegin \/ CreateBegin \/ StartEnd
         \/ \E n \in Node : \/ Prepare(n) \/ WriteStarting(n) \/ Setup(n) \/ Boot(n)
                            \/ Persist(n) \/ AbortStart(n)

-----------------------------------------------------------------------------
(* stop.                                                                   *)

\* loadStoppableNodes
Stoppable(n) ==
    \/ phase[n] \in {"prepared", "stopped"}
    \/ phase[n] \in {"running", "stopping", "starting"} /\ proc[n] # "none"

\* Mutant: what was interrupted counts as off.
BusyRunning(n) == phase[n] = "running"

\* StopRunning has to end the QEMU of these; the others become `stopped`.
Busy(n) == phase[n] \in {"running", "stopping", "starting"}

\* Nothing is written unless some node has to be stopped.
StopFirst(n, S) ==
    IF phase[n] = "stopped" \/ \A m \in S : ~Busy(m) THEN "stDone" ELSE "stWrite"

StopBegin(S) ==
    /\ S \subseteq Committed /\ \A n \in S : Stoppable(n)
    /\ Begin("stop", S, [n \in Node |-> StopFirst(n, S)])

WriteStopping(n) ==
    /\ Go(n, "stWrite", IF Busy(n) THEN "stHalt" ELSE "stDone")
    /\ phase' = [phase EXCEPT ![n] = IF Busy(n) THEN "stopping" ELSE "stopped"]
    /\ UNCHANGED <<proc, host>>

\* vm.Lifecycle.Stop.  Success means that the recorded process is dead: ended
\* by this stop, or found gone with nobody on the socket but perhaps a silent
\* QEMU Farrow has no record of.
Halt(n) ==
    /\ Past({"stWrite"})
    /\ \/ /\ proc[n] = "current" /\ Go(n, "stHalt", "stClean")
          /\ alive' = [alive EXCEPT ![n] = 0] /\ proc' = [proc EXCEPT ![n] = "old"]
          /\ answers' = [answers EXCEPT ![n] = FALSE]
          /\ rt' \in {rt, [rt EXCEPT ![n] = IF @ = "files" THEN "empty" ELSE @]}
       \/ /\ proc[n] = "old" /\ Qmp(n) = "silent" /\ ~stranger[n] /\ Go(n, "stHalt", "stClean")
          /\ UNCHANGED <<alive, proc, answers, rt>>
       \/ /\ ~calm /\ Go(n, "stHalt", "failed")
          /\ UNCHANGED <<alive, proc, answers, rt>>
    /\ UNCHANGED <<phase, stranger, late>>

\* cleanupRuntime and the stopped document; if either fails the node stays
\* `stopping`.
StopClean(n) ==
    \/ /\ Go(n, "stClean", IF Unused(n) THEN "stUnlink" ELSE "failed")
       /\ UNCHANGED <<state, host>>
    \/ Go(n, "stUnlink", "stOff") /\ Unlink(n)
    \/ /\ Go(n, "stOff", "stDone")
       /\ phase' = [phase EXCEPT ![n] = "stopped"] /\ proc' = [proc EXCEPT ![n] = "none"]
       /\ UNCHANGED host

StopOver == \A n \in scope : w[n] \in {"stDone", "failed"}

StopEnd == job = "stop" /\ StopOver /\ Release /\ UNCHANGED <<state, host>>

Stop == \/ \E S \in SUBSET Node : StopBegin(S)
        \/ \E n \in Node : WriteStopping(n) \/ Halt(n) \/ StopClean(n)
        \/ StopEnd

-----------------------------------------------------------------------------
(* destroy.                                                                *)

\* Running or prepared nodes are stopped first, in the same session.
DestroyBegin ==
    \E S \in SUBSET Committed :
        IF \E n \in S : phase[n] \in {"running", "prepared"}
        THEN (\A n \in S : Stoppable(n)) /\ Begin("destroy", S, [n \in Node |-> StopFirst(n, S)])
        ELSE Begin("destroy", S, [n \in Node |-> "stDone"])

DestroyStopped ==
    /\ job = "destroy" /\ scope # {} /\ \A n \in scope : w[n] = "stDone"
    /\ w' = [n \in Node |-> IF n \in scope THEN "dCheck" ELSE "idle"]
    /\ UNCHANGED <<state, host, job, scope, calm>>

\* A node that is off, whose recorded process is gone, whose runtime is unused.
Destroyable(n) ==
    /\ phase[n] \in {"stopped", "prepared"}
    /\ proc[n] = "none" /\ Unused(n)

\* Every node is checked before the first change; the files may be refused
\* too (see NodeArtifacts).
DestroyCheck(n) ==
    /\ Destroyable(n) /\ Go(n, "dCheck", "dMark")
    /\ UNCHANGED <<state, host>>

DestroyMark(n) ==
    /\ Past({"dCheck"}) /\ Go(n, "dMark", "dRemove")
    /\ phase' = [phase EXCEPT ![n] = "destroying"]
    /\ UNCHANGED <<proc, host>>

\* The disks and, last, the state document.
DestroyRemove(n) ==
    /\ Past({"dCheck", "dMark"}) /\ Go(n, "dRemove", "dClean")
    /\ phase' = [phase EXCEPT ![n] = "absent"] /\ proc' = [proc EXCEPT ![n] = "none"]
    /\ UNCHANGED host

DestroyClean(n) ==
    \/ Unused(n) /\ Go(n, "dClean", "dUnlink") /\ UNCHANGED <<state, host>>
    \/ Go(n, "dUnlink", "done") /\ Unlink(n)

DestroyEnd == job = "destroy" /\ Done /\ Release /\ UNCHANGED <<state, host>>

Destroy == \/ DestroyBegin \/ DestroyStopped \/ DestroyEnd
           \/ \E n \in Node : \/ DestroyCheck(n) \/ DestroyMark(n) \/ DestroyRemove(n)
                              \/ DestroyClean(n)

Command == Status \/ Start \/ Stop \/ Destroy

-----------------------------------------------------------------------------
(* How a session falls short.                                              *)

\* A check of its own refuses to go on.
Refused ==
    /\ \E n \in scope : \/ w[n] = "dCheck" /\ ~Destroyable(n)
                        \/ w[n] = "dClean" /\ ~Unused(n)
                        \/ job = "destroy" /\ StopOver /\ w[n] = "failed"
    /\ Release /\ UNCHANGED <<state, host>>

\* It is killed or cancelled, or a write fails.  What it was launching may
\* still come up.
Killed ==
    /\ ~calm /\ job # "none" /\ Release
    /\ late' \in {late, [n \in Node |-> late[n] \/ w[n] = "boot"]}
    /\ UNCHANGED <<state, alive, answers, rt, stranger>>

-----------------------------------------------------------------------------
(* The host.  Nothing below waits for the deployment lock.                 *)

Gone(n) == [proc EXCEPT ![n] = IF @ = "current" THEN "old" ELSE @]

\* The guest powers itself off, or QEMU crashes and leaves its files.
QemuDies(n) ==
    /\ alive[n] > 0
    /\ alive' = [alive EXCEPT ![n] = @ - 1] /\ answers' = [answers EXCEPT ![n] = FALSE]
    /\ proc' = Gone(n)
    /\ rt' \in {rt, [rt EXCEPT ![n] = IF @ = "files" THEN "empty" ELSE @]}
    /\ UNCHANGED <<phase, stranger, late>>

QmpHangs(n) ==
    /\ alive[n] > 0 /\ answers' = [answers EXCEPT ![n] = ~@]
    /\ UNCHANGED <<state, alive, rt, stranger, late>>

\* The kernel gives a PID that a record or a pidfile still names to another
\* process, or that process ends.
PidReused(n) ==
    /\ stranger[n] \/ (alive[n] = 0 /\ (proc[n] = "old" \/ rt[n] = "files"))
    /\ stranger' = [stranger EXCEPT ![n] = ~@]
    /\ UNCHANGED <<state, alive, answers, rt, late>>

\* The launch of a killed command gets through, or fails.
LateLaunch(n) ==
    /\ late[n] /\ late' = [late EXCEPT ![n] = FALSE]
    /\ \/ (Races \/ w[n] \notin Unlinking) /\ (Spawn(n) \/ Tear(n))
       \/ UNCHANGED <<alive, answers, rt, stranger>>
    /\ UNCHANGED state

\* Another data root, whose node has the same runtime directory, starts it
\* there; its QEMU ends, or dies and leaves its files.  (It might leave a torn
\* pidfile too, which is left out: a bound on the states.)
Foreign(n) ==
    /\ \/ /\ rt[n] \in {"none", "empty"} /\ (Races \/ w[n] \notin Unlinking)
          /\ rt' = [rt EXCEPT ![n] = "foreign"]
       \/ rt[n] = "foreign" /\ rt' \in {[rt EXCEPT ![n] = r] : r \in {"none", "files"}}
    /\ UNCHANGED <<state, alive, answers, stranger, late>>

\* The host goes down, perhaps in the middle of a launch.
Reboot ==
    /\ Release
    /\ alive' = [n \in Node |-> 0] /\ answers' = [n \in Node |-> FALSE]
    /\ late' = [n \in Node |-> FALSE]
    /\ proc' = [n \in Node |-> IF proc[n] = "none" THEN "none" ELSE "old"]
    /\ \/ rt' = [n \in Node |-> "none"]
       \/ \E T \in SUBSET {n \in Node : (late[n] \/ w[n] = "boot") /\ Launchable(n)} :
            rt' = [n \in Node |-> IF n \in T THEN "torn"
                                  ELSE IF rt[n] = "foreign" THEN "files" ELSE rt[n]]
    /\ UNCHANGED <<phase, stranger>>

Host ==
    /\ ~calm
    /\ \/ /\ \E n \in Node : \/ QemuDies(n) \/ QmpHangs(n) \/ PidReused(n)
                              \/ LateLaunch(n) \/ Foreign(n)
          /\ UNCHANGED <<job, scope, w, calm>>
       \/ Reboot

\* For the liveness property: a time comes when the host leaves Farrow alone.
CalmDown ==
    /\ ~calm /\ calm' = TRUE
    /\ \A n \in Node : /\ alive[n] > 0 => answers[n]
                       /\ ~stranger[n] /\ ~late[n] /\ rt[n] # "foreign"
    /\ UNCHANGED <<state, host, job, scope, w>>

-----------------------------------------------------------------------------
Init ==
    /\ phase = [n \in Node |-> "absent"] /\ proc = [n \in Node |-> "none"]
    /\ alive = [n \in Node |-> 0] /\ answers = [n \in Node |-> FALSE]
    /\ rt = [n \in Node |-> "none"]
    /\ stranger = [n \in Node |-> FALSE] /\ late = [n \in Node |-> FALSE]
    /\ job = "none" /\ scope = {} /\ w = [n \in Node |-> "idle"]
    /\ calm = FALSE

Next == Command \/ Refused \/ Killed \/ Host \/ CalmDown

\* A session that holds the lock goes on, and someone runs `status`, and
\* `stop` on a node it applies to, again and again.
Fairness ==
    /\ WF_vars(job # "none" /\ (Command \/ Refused))
    /\ SF_vars(StatusBegin(Committed))
    /\ \A n \in Node : SF_vars(StopBegin({n}))

Spec == Init /\ [][Next]_vars /\ Fairness

-----------------------------------------------------------------------------
TypeOK ==
    /\ phase \in [Node -> Phases] /\ proc \in [Node -> {"none", "current", "old"}]
    /\ alive \in [Node -> 0..MaxQemus] /\ answers \in [Node -> BOOLEAN]
    /\ rt \in [Node -> {"none", "empty", "files", "torn", "foreign"}]
    /\ stranger \in [Node -> BOOLEAN] /\ late \in [Node -> BOOLEAN]
    /\ job \in {"none", "status", "start", "stop", "destroy"}
    /\ scope \subseteq Node /\ w \in [Node -> Steps]
    /\ \A n \in Node \ scope : w[n] = "idle"
    /\ calm \in BOOLEAN

\* A node recorded as off, being destroyed, or not recorded at all has no
\* QEMU: what start and destroy conclude from the phase about the disks is
\* true (manager.go statusForLocked, stop.go StopRunning, destroy.go Destroy).
StoppedIsOff == \A n \in Node : phase[n] \in Off => alive[n] = 0

\* One QEMU per node at most, killed commands and their late launches
\* included: two would write to one overlay (start.go startOne).
AtMostOneQemu == \A n \in Node : alive[n] <= 1

\* A live QEMU keeps its socket and pidfile, by which status, stop and destroy
\* find it again (stop.go cleanupRuntime).
RuntimeKept == \A n \in Node : alive[n] > 0 => rt[n] = "files"

\* What is recorded about a running node identifies its live QEMU, so that
\* stop may act on it (start.go startOne, audit.go captureRuntimeProcess).
LiveIsIdentified ==
    \A n \in Node : phase[n] \in {"running", "stopping"} /\ alive[n] > 0 => proc[n] = "current"

\* No command removes the socket or pidfile of another data root's QEMU
\* (stop.go checkRuntimeUnused).
ForeignRuntimeUntouched ==
    [][Command => \A n \in Node : rt[n] = "foreign" => rt'[n] = "foreign"]_vars

\* The pidfile of an unrecorded process is torn: the audit is an error then,
\* stop asks for a recorded identity (stop.go:123-129), start and destroy for
\* another phase, and `farrow status`, which they all advise, changes nothing.
Stuck(n) == rt[n] = "torn" /\ proc[n] = "none"

\* On a host that leaves Farrow alone, `status` and `stop` bring every
\* interrupted start, stop or destroy to an end, whatever was killed at which
\* step before, unless a torn pidfile is all there is to tell a dead QEMU from
\* a live one (manager.go statusForLocked, stop.go loadStoppableNodes,
\* audit.go:118-128).
Converges ==
    \A n \in Node : (calm /\ phase[n] \in Transition /\ ~Stuck(n)) ~> phase[n] \notin Transition
=============================================================================
