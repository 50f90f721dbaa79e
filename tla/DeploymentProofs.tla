-------------------------- MODULE DeploymentProofs --------------------------
(***************************************************************************)
(* The safety of Deployment for any set of nodes, when nothing comes up    *)
(* between a cleanup's check and its removal (~Races).                     *)
(***************************************************************************)
EXTENDS Deployment, TLAPS

\* What the step a session is at says of the node's recorded phase.
StepPhase(n) ==
    /\ w[n] = "look" => phase[n] = "running"
    /\ w[n] \in {"audit", "clean", "unlink", "halt"} => phase[n] \in {"running"} \cup Transition
    /\ w[n] \in {"capture", "adopt", "setup", "boot", "persist", "abort"} => phase[n] = "starting"
    /\ w[n] = "prepare" => phase[n] = "absent"
    /\ w[n] = "write" => phase[n] \in {"prepared", "stopped"}
    /\ w[n] = "stWrite" => phase[n] \in {"prepared", "running", "stopping"}
    /\ w[n] \in {"stHalt", "stClean", "stUnlink", "stOff"} => phase[n] = "stopping"
    /\ w[n] = "dMark" => phase[n] \in {"prepared", "stopped"}
    /\ w[n] = "dRemove" => phase[n] = "destroying"
    /\ w[n] \in {"dClean", "dUnlink"} => phase[n] = "absent"

\* What it says of QEMU: none runs where one is about to be launched, or the
\* runtime directory removed, and none is on its way where the node is about
\* to be recorded as on or off.
StepQemu(n) ==
    /\ w[n] \in {"write", "setup", "boot", "unlink", "stUnlink", "dUnlink", "halt", "stOff"}
           => alive[n] = 0
    /\ w[n] \in {"write", "setup", "boot", "capture", "adopt", "persist", "abort", "halt", "stOff"}
           => ~late[n]
    /\ w[n] \in Unlinking => rt[n] # "foreign"

\* What the recorded phase says of the recorded process and of QEMU.
Record(n) ==
    /\ phase[n] \in Off \cup {"starting"} <=> proc[n] = "none"
    /\ phase[n] \in Off => alive[n] = 0
    /\ phase[n] \in {"running", "stopping"} /\ alive[n] > 0 => proc[n] = "current"
    /\ late[n] => phase[n] = "starting" /\ alive[n] = 0

Runtime(n) ==
    /\ alive[n] <= 1
    /\ alive[n] > 0 => rt[n] = "files"

NodeInv(n) == StepPhase(n) /\ StepQemu(n) /\ Record(n) /\ Runtime(n)

Inv == TypeOK /\ \A n \in Node : NodeInv(n)

\* The empty deployment satisfies the invariant.
LEMMA InitInv == Init => Inv
  <1> SUFFICES ASSUME Init PROVE Inv
    OBVIOUS
  <1>1. TypeOK
    <2>1. 0 \in 0..MaxQemus
      BY ConstantAssumption
    <2>2. "idle" \in Steps /\ "absent" \in Phases
      BY DEF Steps, Phases
    <2> QED
      BY <2>1, <2>2 DEF Init, TypeOK
  <1>2. ASSUME NEW n \in Node PROVE NodeInv(n)
    BY DEF Init, NodeInv, StepPhase, StepQemu, Record, Runtime, Transition, Off, Unlinking
  <1> QED
    BY <1>1, <1>2 DEF Inv

\* A step of a status session keeps the invariant.
LEMMA StatusInv == ~Races /\ Inv /\ Status => Inv'
  <1> SUFFICES ASSUME ~Races, Inv, Status PROVE Inv'
    OBVIOUS
  <1> USE ConstantAssumption
      DEF Inv, TypeOK, NodeInv, StepPhase, StepQemu, Record, Runtime,
          Phases, Transition, Off, Steps, Unlinking, state, host, Go
  <1>1. ASSUME NEW S \in SUBSET Node, StatusBegin(S) PROVE Inv'
    BY <1>1, SMTT(60) DEF StatusBegin, Begin, FirstLook, Committed
  <1>2. ASSUME NEW n \in Node, Look(n) PROVE Inv'
    BY <1>2, SMTT(60) DEF Look, Qmp
  <1>3. ASSUME NEW n \in Node, AuditNode(n) PROVE Inv'
    BY <1>3, SMTT(60) DEF AuditNode, Audit, Qmp, PidfileLive
  <1>4. ASSUME NEW n \in Node, Capture(n) PROVE Inv'
    BY <1>4, SMTT(60) DEF Capture
  <1>5. ASSUME NEW n \in Node, Clean(n) PROVE Inv'
    <2>1. CASE Go(n, "clean", IF Unused(n) THEN "unlink" ELSE "done") /\ UNCHANGED <<state, host>>
      <3>1. CASE Unused(n)
        BY <2>1, <3>1, SMTT(60) DEF Unused, PidfileLive
      <3>2. CASE ~Unused(n)
        BY <2>1, <3>2, SMTT(60)
      <3> QED
        BY <3>1, <3>2
    <2>2. CASE Go(n, "unlink", "halt") /\ Unlink(n)
      BY <2>2, SMTT(60) DEF Unlink
    <2> QED
      BY <1>5, <2>1, <2>2 DEF Clean
  <1>6. ASSUME NEW n \in Node, Converge(n) PROVE Inv'
    BY <1>6, SMTT(60) DEF Converge
  <1>7. CASE StatusEnd
    BY <1>7, SMTT(60) DEF StatusEnd, Release
  <1> QED
    BY <1>1, <1>2, <1>3, <1>4, <1>5, <1>6, <1>7 DEF Status

\* A step of a start or create session keeps the invariant.
LEMMA StartInv == ~Races /\ Inv /\ Start => Inv'
  <1> SUFFICES ASSUME ~Races, Inv, Start PROVE Inv'
    OBVIOUS
  <1> USE ConstantAssumption
      DEF Inv, TypeOK, NodeInv, StepPhase, StepQemu, Record, Runtime,
          Phases, Transition, Off, Steps, Unlinking, state, host, Go
  <1>1. CASE StartBegin
    BY <1>1, SMTT(60) DEF StartBegin, Begin, Startable, Committed
  <1>2. CASE CreateBegin
    BY <1>2, SMTT(60) DEF CreateBegin, Begin, Committed
  <1>3. CASE StartEnd
    BY <1>3, SMTT(60) DEF StartEnd, Release, FirstLook
  <1>4. ASSUME NEW n \in Node, Prepare(n) PROVE Inv'
    BY <1>4, SMTT(60) DEF Prepare
  <1>5. ASSUME NEW n \in Node, WriteStarting(n) PROVE Inv'
    BY <1>5, SMTT(60) DEF WriteStarting
  <1>6. ASSUME NEW n \in Node, Setup(n) PROVE Inv'
    BY <1>6, SMTT(60) DEF Setup
  <1>7. ASSUME NEW n \in Node, Boot(n) PROVE Inv'
    <2>1. /\ w[n] = "boot" /\ alive[n] = 0 /\ ~late[n]
          /\ phase[n] = "starting" /\ proc[n] = "none"
          /\ UNCHANGED <<phase, proc, late, job, scope, calm>>
      BY <1>7, SMTT(60) DEF Boot
    <2>2. w' = [w EXCEPT ![n] = "persist"] \/ w' = [w EXCEPT ![n] = "done"]
      BY <1>7 DEF Boot
    <2>3. CASE Spawn(n)
      <3>1. /\ alive' = [alive EXCEPT ![n] = 1] /\ rt' = [rt EXCEPT ![n] = "files"]
            /\ answers' = [answers EXCEPT ![n] = TRUE]
            /\ stranger' = [stranger EXCEPT ![n] = FALSE]
        BY <2>1, <2>3 DEF Spawn
      <3> QED
        BY <2>1, <2>2, <3>1, SMTT(60)
    <2>4. CASE ~Spawn(n)
      <3>1. /\ UNCHANGED <<alive, answers, stranger>>
            /\ w' = [w EXCEPT ![n] = "done"]
            /\ \/ rt' = rt \/ rt' = [rt EXCEPT ![n] = IF @ = "empty" THEN "files" ELSE @]
               \/ rt' = [rt EXCEPT ![n] = "torn"]
        BY <1>7, <2>4 DEF Boot, Tear
      <3> QED
        BY <2>1, <3>1, SMTT(60)
    <2> QED
      BY <2>3, <2>4
  <1>8. ASSUME NEW n \in Node, Persist(n) PROVE Inv'
    BY <1>8, SMTT(60) DEF Persist
  <1>9. ASSUME NEW n \in Node, AbortStart(n) PROVE Inv'
    <2>1. /\ w[n] = "abort" /\ w' = [w EXCEPT ![n] = "done"]
          /\ UNCHANGED <<phase, proc, stranger, late, job, scope, calm>>
      BY <1>9 DEF AbortStart
    <2>2. CASE UNCHANGED host
      BY <2>1, <2>2, SMTT(60)
    <2>3. CASE /\ alive' = [alive EXCEPT ![n] = 0]
               /\ answers' = [answers EXCEPT ![n] = FALSE]
               /\ rt' = rt \/ rt' = [rt EXCEPT ![n] = "none"]
      BY <2>1, <2>3, SMTT(60)
    <2> QED
      BY <1>9, <2>2, <2>3 DEF AbortStart
  <1> QED
    BY <1>1, <1>2, <1>3, <1>4, <1>5, <1>6, <1>7, <1>8, <1>9 DEF Start

\* A step of a stop session, or of the stop a destroy begins with, keeps the
\* invariant.
LEMMA StopInv == ~Races /\ Inv /\ Stop => Inv'
  <1> SUFFICES ASSUME ~Races, Inv, Stop PROVE Inv'
    OBVIOUS
  <1> USE ConstantAssumption
      DEF Inv, TypeOK, NodeInv, StepPhase, StepQemu, Record, Runtime,
          Phases, Transition, Off, Steps, Unlinking, state, host, Go
  <1>1. ASSUME NEW S \in SUBSET Node, StopBegin(S) PROVE Inv'
    BY <1>1, SMTT(60) DEF StopBegin, Begin, StopFirst, Stoppable, Busy, Committed
  <1>2. ASSUME NEW n \in Node, WriteStopping(n) PROVE Inv'
    BY <1>2, SMTT(60) DEF WriteStopping, Busy
  <1>3. ASSUME NEW n \in Node, Halt(n) PROVE Inv'
    <2>1. w[n] = "stHalt" /\ UNCHANGED <<phase, stranger, late, job, scope, calm>>
      BY <1>3 DEF Halt
    <2>2. CASE /\ proc[n] = "current" /\ w' = [w EXCEPT ![n] = "stClean"]
               /\ alive' = [alive EXCEPT ![n] = 0] /\ proc' = [proc EXCEPT ![n] = "old"]
               /\ answers' = [answers EXCEPT ![n] = FALSE]
               /\ rt' = rt \/ rt' = [rt EXCEPT ![n] = IF @ = "files" THEN "empty" ELSE @]
      BY <2>1, <2>2, SMTT(60)
    <2>3. CASE /\ UNCHANGED <<alive, proc, answers, rt>>
               /\ w' = [w EXCEPT ![n] = "stClean"] \/ w' = [w EXCEPT ![n] = "failed"]
      BY <2>1, <2>3, SMTT(60)
    <2> QED
      BY <1>3, <2>2, <2>3 DEF Halt
  <1>4. ASSUME NEW n \in Node, StopClean(n) PROVE Inv'
    <2>1. CASE Go(n, "stClean", IF Unused(n) THEN "stUnlink" ELSE "failed")
               /\ UNCHANGED <<state, host>>
      <3>1. CASE Unused(n)
        BY <2>1, <3>1, SMTT(60) DEF Unused, PidfileLive
      <3>2. CASE ~Unused(n)
        BY <2>1, <3>2, SMTT(60)
      <3> QED
        BY <3>1, <3>2
    <2>2. CASE Go(n, "stUnlink", "stOff") /\ Unlink(n)
      BY <2>2, SMTT(60) DEF Unlink
    <2>3. CASE /\ Go(n, "stOff", "stDone")
               /\ phase' = [phase EXCEPT ![n] = "stopped"]
               /\ proc' = [proc EXCEPT ![n] = "none"]
               /\ UNCHANGED host
      BY <2>3, SMTT(60)
    <2> QED
      BY <1>4, <2>1, <2>2, <2>3 DEF StopClean
  <1>5. CASE StopEnd
    BY <1>5, SMTT(60) DEF StopEnd, Release
  <1> QED
    BY <1>1, <1>2, <1>3, <1>4, <1>5 DEF Stop

\* A step of a destroy session keeps the invariant.
LEMMA DestroyInv == ~Races /\ Inv /\ Destroy => Inv'
  <1> SUFFICES ASSUME ~Races, Inv, Destroy PROVE Inv'
    OBVIOUS
  <1> USE ConstantAssumption
      DEF Inv, TypeOK, NodeInv, StepPhase, StepQemu, Record, Runtime,
          Phases, Transition, Off, Steps, Unlinking, state, host, Go
  <1>1. CASE DestroyBegin
    BY <1>1, SMTT(60) DEF DestroyBegin, Begin, StopFirst, Stoppable, Busy, Committed
  <1>2. CASE DestroyStopped
    BY <1>2, SMTT(60) DEF DestroyStopped
  <1>3. CASE DestroyEnd
    BY <1>3, SMTT(60) DEF DestroyEnd, Release
  <1>4. ASSUME NEW n \in Node, DestroyCheck(n) PROVE Inv'
    BY <1>4, SMTT(60) DEF DestroyCheck, Destroyable
  <1>5. ASSUME NEW n \in Node, DestroyMark(n) PROVE Inv'
    BY <1>5, SMTT(60) DEF DestroyMark
  <1>6. ASSUME NEW n \in Node, DestroyRemove(n) PROVE Inv'
    BY <1>6, SMTT(60) DEF DestroyRemove
  <1>7. ASSUME NEW n \in Node, DestroyClean(n) PROVE Inv'
    <2>1. CASE Unused(n) /\ Go(n, "dClean", "dUnlink") /\ UNCHANGED <<state, host>>
      BY <2>1, SMTT(60) DEF Unused, PidfileLive
    <2>2. CASE Go(n, "dUnlink", "done") /\ Unlink(n)
      BY <2>2, SMTT(60) DEF Unlink
    <2> QED
      BY <1>7, <2>1, <2>2 DEF DestroyClean
  <1> QED
    BY <1>1, <1>2, <1>3, <1>4, <1>5, <1>6, <1>7 DEF Destroy

\* A session that falls short keeps the invariant.
LEMMA ShortInv == ~Races /\ Inv /\ (Refused \/ Killed) => Inv'
  <1> SUFFICES ASSUME ~Races, Inv, Refused \/ Killed PROVE Inv'
    OBVIOUS
  <1> USE ConstantAssumption
      DEF Inv, TypeOK, NodeInv, StepPhase, StepQemu, Record, Runtime,
          Phases, Transition, Off, Steps, Unlinking, state, host, Release
  <1>1. CASE Refused
    BY <1>1, SMTT(60) DEF Refused
  <1>2. CASE Killed
    <2>1. CASE late' = late
      BY <1>2, <2>1, SMTT(60) DEF Killed
    <2>2. CASE late' = [n \in Node |-> late[n] \/ w[n] = "boot"]
      <3>1. late' \in [Node -> BOOLEAN]
        BY <2>2
      <3>2. \A n \in Node : late'[n] => phase[n] = "starting" /\ alive[n] = 0
        BY <2>2
      <3> QED
        BY <1>2, <3>1, <3>2, SMTT(60) DEF Killed
    <2> QED
      BY <1>2, <2>1, <2>2 DEF Killed
  <1> QED
    BY <1>1, <1>2

\* What happens on the host, at any moment of any session, keeps the invariant.
LEMMA HostInv == ~Races /\ Inv /\ (Host \/ CalmDown) => Inv'
  <1> SUFFICES ASSUME ~Races, Inv, Host \/ CalmDown PROVE Inv'
    OBVIOUS
  <1> USE ConstantAssumption
      DEF Inv, TypeOK, NodeInv, StepPhase, StepQemu, Record, Runtime,
          Phases, Transition, Off, Steps, Unlinking, state, host
  <1>1. ASSUME NEW n \in Node, QemuDies(n), UNCHANGED <<job, scope, w, calm>> PROVE Inv'
    <2>1. alive' = [alive EXCEPT ![n] = 0]
      <3>1. alive[n] = 1
        BY <1>1, MaxQemus \in Nat, SMTT(60) DEF QemuDies
      <3> QED
        BY <1>1, <3>1 DEF QemuDies
    <2>2. rt' = rt \/ rt' = [rt EXCEPT ![n] = IF @ = "files" THEN "empty" ELSE @]
      BY <1>1 DEF QemuDies
    <2>3. proc' = [proc EXCEPT ![n] = IF @ = "current" THEN "old" ELSE @]
      BY <1>1 DEF QemuDies, Gone
    <2> QED
      BY <1>1, <2>1, <2>2, <2>3, SMTT(60) DEF QemuDies
  <1>2. ASSUME NEW n \in Node, QmpHangs(n), UNCHANGED <<job, scope, w, calm>> PROVE Inv'
    BY <1>2, SMTT(60) DEF QmpHangs
  <1>3. ASSUME NEW n \in Node, PidReused(n), UNCHANGED <<job, scope, w, calm>> PROVE Inv'
    BY <1>3, SMTT(60) DEF PidReused
  <1>4. ASSUME NEW n \in Node, LateLaunch(n), UNCHANGED <<job, scope, w, calm>> PROVE Inv'
    <2>1. CASE Spawn(n) /\ w[n] \notin Unlinking
      <3>1. /\ alive' = [alive EXCEPT ![n] = 1] /\ rt' = [rt EXCEPT ![n] = "files"]
            /\ answers' = [answers EXCEPT ![n] = TRUE]
            /\ stranger' = [stranger EXCEPT ![n] = FALSE]
        <4>1. alive[n] = 0
          BY <1>4 DEF LateLaunch
        <4> QED
          BY <2>1, <4>1 DEF Spawn
      <3> QED
        BY <1>4, <2>1, <3>1, SMTT(60) DEF LateLaunch
    <2>2. CASE UNCHANGED <<alive, answers, rt, stranger>>
      BY <1>4, <2>2, SMTT(60) DEF LateLaunch
    <2>3. CASE Tear(n) /\ w[n] \notin Unlinking
      <3>1. /\ alive[n] = 0 /\ UNCHANGED <<alive, answers, stranger, phase, proc>>
            /\ rt' = [rt EXCEPT ![n] = "torn"] /\ late' = [late EXCEPT ![n] = FALSE]
        BY <1>4, <2>3 DEF LateLaunch, Tear
      <3> QED
        BY <1>4, <3>1, SMTT(60)
    <2> QED
      BY <1>4, <2>1, <2>2, <2>3 DEF LateLaunch
  <1>5. ASSUME NEW n \in Node, Foreign(n), UNCHANGED <<job, scope, w, calm>> PROVE Inv'
    BY <1>5, SMTT(60) DEF Foreign
  <1>6. CASE Reboot
    <2>1. rt' \in [Node -> {"none", "empty", "files", "torn", "foreign"}]
      <3>1. CASE rt' = [n \in Node |-> "none"]
        BY <3>1
      <3>2. ASSUME NEW T, rt' = [n \in Node |-> IF n \in T THEN "torn"
                                    ELSE IF rt[n] = "foreign" THEN "files" ELSE rt[n]]
            PROVE  rt' \in [Node -> {"none", "empty", "files", "torn", "foreign"}]
        BY <3>2
      <3> QED
        BY <1>6, <3>1, <3>2 DEF Reboot
    <2>2. /\ alive' = [n \in Node |-> 0] /\ answers' = [n \in Node |-> FALSE]
          /\ late' = [n \in Node |-> FALSE] /\ w' = [n \in Node |-> "idle"]
          /\ proc' = [n \in Node |-> IF proc[n] = "none" THEN "none" ELSE "old"]
          /\ UNCHANGED <<phase, stranger, calm>> /\ job' = "none" /\ scope' = {}
      BY <1>6 DEF Reboot, Release
    <2> QED
      BY <2>1, <2>2, SMTT(60)
  <1>7. CASE CalmDown
    BY <1>7, SMTT(60) DEF CalmDown
  <1> QED
    BY <1>1, <1>2, <1>3, <1>4, <1>5, <1>6, <1>7 DEF Host

\* The invariant, whatever is killed, dies, hangs or reboots in between.
THEOREM Invariance == ~Races => (Spec => []Inv)
  <1> SUFFICES ASSUME ~Races PROVE Spec => []Inv
    OBVIOUS
  <1>1. Init => Inv
    BY InitInv
  <1>2. Inv /\ [Next]_vars => Inv'
    <2> SUFFICES ASSUME Inv, [Next]_vars PROVE Inv'
      OBVIOUS
    <2>1. CASE UNCHANGED vars
      BY <2>1 DEF vars, Inv, TypeOK, NodeInv, StepPhase, StepQemu, Record, Runtime
    <2>2. CASE Next
      BY <2>2, StatusInv, StartInv, StopInv, DestroyInv, ShortInv, HostInv DEF Next, Command
    <2> QED
      BY <2>1, <2>2
  <1> QED
    BY <1>1, <1>2, PTL DEF Spec

\* Every reachable state is of its type (Deployment!TypeOK).
THEOREM TypeCorrect == ~Races => (Spec => []TypeOK)
  BY Invariance, PTL DEF Inv

\* What is recorded as off is off: start may boot its disks and destroy may
\* remove them (statusForLocked, StopRunning, Destroy).
THEOREM OffIsOff == ~Races => (Spec => []StoppedIsOff)
  <1>1. Inv => StoppedIsOff
    BY DEF Inv, NodeInv, Record, StoppedIsOff
  <1> QED
    BY Invariance, <1>1, PTL

\* No two QEMUs of a node ever run (startOne, setupRuntime).
THEOREM OneQemu == ~Races => (Spec => []AtMostOneQemu)
  <1>1. Inv => AtMostOneQemu
    BY DEF Inv, NodeInv, Runtime, AtMostOneQemu
  <1> QED
    BY Invariance, <1>1, PTL

\* A live QEMU can be found by its socket and pidfile (cleanupRuntime).
THEOREM RuntimeIsKept == ~Races => (Spec => []RuntimeKept)
  <1>1. Inv => RuntimeKept
    BY DEF Inv, NodeInv, Runtime, RuntimeKept
  <1> QED
    BY Invariance, <1>1, PTL

\* The recorded process of a running node is its live QEMU (startOne,
\* captureRuntimeProcess).
THEOREM RecordIdentifies == ~Races => (Spec => []LiveIsIdentified)
  <1>1. Inv => LiveIsIdentified
    BY DEF Inv, NodeInv, Record, LiveIsIdentified
  <1> QED
    BY Invariance, <1>1, PTL

\* No step of a session disturbs a runtime directory another data root uses.
LEMMA CommandsSpareForeign ==
    Inv /\ Command => \A n \in Node : rt[n] = "foreign" => rt'[n] = "foreign"
  <1> SUFFICES ASSUME Inv, Command, NEW n \in Node, rt[n] = "foreign"
               PROVE rt'[n] = "foreign"
    OBVIOUS
  <1> USE DEF Inv, TypeOK, NodeInv, StepQemu, Unlinking, state, host, Go, Begin, Release
  <1>1. CASE Status
    BY <1>1, SMTT(60) DEF Status, StatusBegin, Look, AuditNode, Capture, Clean, Unlink,
                          Converge, StatusEnd
  <1>2. CASE Start
    BY <1>2, SMTT(60) DEF Start, StartBegin, CreateBegin, Prepare, WriteStarting, Setup,
                          Boot, Spawn, Tear, Launchable, Persist, AbortStart, StartEnd
  <1>3. CASE Stop
    BY <1>3, SMTT(60) DEF Stop, StopBegin, WriteStopping, Halt, StopClean, Unlink, StopEnd
  <1>4. CASE Destroy
    BY <1>4, SMTT(60) DEF Destroy, DestroyBegin, DestroyStopped, DestroyCheck, DestroyMark,
                          DestroyRemove, DestroyClean, Unlink, DestroyEnd
  <1> QED
    BY <1>1, <1>2, <1>3, <1>4 DEF Command

\* The socket and pidfile of another data root's QEMU stay untouched
\* (checkRuntimeUnused, cleanupRuntime).
THEOREM ForeignSpared == ~Races => (Spec => ForeignRuntimeUntouched)
  <1>1. Inv /\ [Next]_vars
           => [Command => \A n \in Node : rt[n] = "foreign" => rt'[n] = "foreign"]_vars
    BY CommandsSpareForeign
  <1> QED
    BY Invariance, <1>1, PTL DEF Spec, ForeignRuntimeUntouched

=============================================================================
