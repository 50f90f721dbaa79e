---------------------------- MODULE QemuProcess ----------------------------
(***************************************************************************)
(* internal/vm.Lifecycle: how Farrow starts one QEMU, compensates a start  *)
(* that failed, and stops it, against a host on which the QEMU may die,    *)
(* hang or ignore a request at any moment, its PID may be reused, and      *)
(* another data root's VM may come to answer on the same QMP socket path.  *)
(*                                                                         *)
(* One command runs at a time (its callers hold the deployment lock).  A   *)
(* step of the command is one observation or one effect: everything it     *)
(* learned may be stale by the next step.                                  *)
(***************************************************************************)
EXTENDS Naturals

CONSTANTS
    Operation,   \* which entry points run: a subset of {"start", "abort", "stop"}
    RaceAtSend   \* may a PID or socket change owner between a check and the send after it?

ASSUME OperationAssumption == Operation \subseteq {"start", "abort", "stop"}
ASSUME RaceAssumption == RaceAtSend \in BOOLEAN

VARIABLES
    op,        \* the entry point being executed
    pc,        \* the next step of the command
    identity,  \* process identity in hand: "none", "partial" or "full"
    ctxDone,   \* the command's context is cancelled or past its deadline
    why,       \* why QMP last failed to answer: "none", "ctx" or "silent"
    touched,   \* everything a QMP command or a signal was delivered to
    occupant,  \* who holds the PID: "ours", "stranger" or "nobody"
    endpoint,  \* who answers on the QMP socket: "ours", "foreign" or "silent"
    pidfile,   \* "absent", "empty" (created, not yet filled) or "written"
    doomed     \* our QEMU exits without further cause (SIGKILL, or lost its launcher)

world == <<occupant, endpoint, pidfile, doomed>>
cli == <<op, pc, identity, ctxDone, why, touched>>
vars == <<op, pc, identity, ctxDone, why, touched, occupant, endpoint, pidfile, doomed>>

StartSteps == {"run", "waitQmp", "readPid", "capture", "confirm"}
AbortSteps == {"abCapture", "abRecapture", "abBlind", "abBlindQuit", "abGone",
               "abValidate", "abQuit", "abWaitQuit", "abRevalidate"}
StopSteps == {"stValidate", "stMatch", "powerdown", "waitGuest", "stRevalidate",
              "stRematch", "quit", "waitQuit", "stFinal", "qmpFailed"}
SignalSteps == {"sgEnter", "sgAlive", "sgMatch", "term", "waitTerm", "sgRecheck",
                "kill", "waitKill"}
Terminal == {"started", "ok", "err"}

\* The command has just checked who owns the PID or the socket and its next
\* step acts on the answer.
Adjacent == pc \in {"stMatch", "powerdown", "stRematch", "quit", "abQuit",
                    "abBlindQuit", "term", "kill"}

-----------------------------------------------------------------------------
(* Observations.                                                           *)

\* ValidateIdentity: both QMP queries agree with the recorded name and UUID,
\* one of them answers for another VM, or a query fails.  A finished context
\* fails the query whatever the endpoint would have said.
Answer ==
    IF ctxDone THEN "unavailable"
    ELSE [ours |-> "match", foreign |-> "mismatch", silent |-> "unavailable"][endpoint]

\* Mutant: the failed query leaves a cause nobody defined.
ReasonUnclassified == IF Answer # "unavailable" THEN why ELSE "failed"

Reason == IF Answer # "unavailable" THEN why ELSE IF ctxDone THEN "ctx" ELSE "silent"

\* process.Alive: any process holds the PID.
Alive == occupant # "nobody"

\* process.MatchesLive: the live process has every recorded identity field.
MatchesLive == identity = "full" /\ occupant = "ours"

-----------------------------------------------------------------------------
(* Step shapes shared by the handlers.                                     *)

Move(from, to) == pc = from /\ pc' = to

\* A ValidateIdentity call and the three ways its callers branch on it.
Validate(from, matched, mismatched, unavailable) ==
    /\ \/ Answer = "match" /\ Move(from, matched)
       \/ Answer = "mismatch" /\ Move(from, mismatched)
       \/ Answer = "unavailable" /\ Move(from, unavailable)
    /\ why' = Reason
    /\ UNCHANGED <<op, identity, ctxDone, touched, world>>

\* A test of the world that moves the command and changes nothing else.
Branch(from, test, yes, no) ==
    /\ Move(from, IF test THEN yes ELSE no)
    /\ UNCHANGED <<op, identity, ctxDone, why, touched, world>>

\* A QMP command on a fresh connection: whoever answers executes it; the
\* reply may still be lost.
Send(from, accepted, failed) ==
    /\ \/ Answer # "unavailable" /\ Move(from, accepted)
       \/ Move(from, failed)
    /\ touched' \in IF Answer = "unavailable" THEN {touched}
                    ELSE IF pc' = accepted THEN {touched \cup {endpoint}}
                    ELSE {touched, touched \cup {endpoint}}
    /\ UNCHANGED <<op, identity, ctxDone, why, world>>

\* Mutant: the wait has no timer.
WaitExitForever(from, exited, timedOut) ==
    /\ \/ ~Alive /\ Move(from, exited)
       \/ ctxDone /\ Move(from, "err")
    /\ UNCHANGED <<op, identity, ctxDone, why, touched, world>>

\* waitForExit: the PID is free, the context ended, or the time is up.
WaitExit(from, exited, timedOut) ==
    /\ \/ ~Alive /\ Move(from, exited)
       \/ ctxDone /\ Move(from, "err")
       \/ Alive /\ Move(from, timedOut)
    /\ UNCHANGED <<op, identity, ctxDone, why, touched, world>>

\* kill(2): delivered to whoever holds the PID; ESRCH when nobody does, which
\* the caller reads as success.
Signal(from, sent, fatal) ==
    /\ \/ Alive /\ Move(from, sent) /\ touched' = touched \cup {occupant}
       \/ occupant = "stranger" /\ Move(from, "err") /\ UNCHANGED touched
       \/ ~Alive /\ Move(from, "ok") /\ UNCHANGED touched
    /\ doomed' = (doomed \/ (fatal /\ occupant = "ours"))
    /\ UNCHANGED <<op, identity, ctxDone, why, occupant, endpoint, pidfile>>

-----------------------------------------------------------------------------
(* Start.                                                                  *)

\* Any failure of a start enters Abort with a context of its own:
\* context.WithoutCancel plus a fresh deadline.
EnterAbort(from) ==
    /\ Move(from, "abCapture")
    /\ ctxDone' = FALSE

\* The launcher daemonizes.  Success means the pidfile and the QMP socket are
\* up.  A failure may leave nothing, or a child whose launcher is gone: it
\* exits when it next reports to the launcher, having got this far.
Run ==
    /\ \/ /\ Move("run", "waitQmp")
          /\ occupant' = "ours" /\ endpoint' = "ours" /\ pidfile' = "written"
          /\ UNCHANGED <<ctxDone, doomed>>
       \/ /\ EnterAbort("run")
          /\ UNCHANGED world
       \/ /\ EnterAbort("run")
          /\ occupant' = "ours" /\ doomed' = TRUE
          /\ pidfile' \in {"absent", "empty", "written"}
          /\ endpoint' \in {"silent", "ours"}
    /\ UNCHANGED <<op, identity, why, touched>>

\* WaitQMP polls ValidateIdentity; every failure is retried until the deadline.
WaitQmp ==
    /\ \/ Answer = "match" /\ Move("waitQmp", "readPid") /\ UNCHANGED ctxDone
       \/ Answer # "match" /\ EnterAbort("waitQmp")
    /\ UNCHANGED <<op, identity, why, touched, world>>

ReadPid ==
    /\ IF pidfile = "written" THEN Move("readPid", "capture") /\ UNCHANGED ctxDone
                              ELSE EnterAbort("readPid")
    /\ UNCHANGED <<op, identity, why, touched, world>>

\* The captured argv must hash to the invocation Farrow persisted.
CaptureStarted ==
    /\ \/ /\ occupant = "ours" /\ Move("capture", "confirm")
          /\ identity' = "full" /\ UNCHANGED ctxDone
       \/ occupant # "ours" /\ EnterAbort("capture") /\ UNCHANGED identity
    /\ UNCHANGED <<op, why, touched, world>>

\* A mismatch here forgets the identity: Abort captures its own.
ConfirmStarted ==
    /\ \/ MatchesLive /\ Move("confirm", "started") /\ UNCHANGED <<ctxDone, identity>>
       \/ ~MatchesLive /\ EnterAbort("confirm") /\ identity' = "none"
    /\ UNCHANGED <<op, why, touched, world>>

Start == Run \/ WaitQmp \/ ReadPid \/ CaptureStarted \/ ConfirmStarted

-----------------------------------------------------------------------------
(* Abort and AbortIdentity.                                                *)

\* captureAbortIdentity, first look: no pidfile or a dead PID is no identity;
\* an unreadable pidfile or another process under the PID is an error, after
\* which only QMP can authorise the quit.
AbortCapture ==
    /\ \/ pidfile = "absent" /\ Move("abCapture", "abValidate")
       \/ pidfile = "written" /\ ~Alive /\ Move("abCapture", "abValidate")
       \/ pidfile = "written" /\ occupant = "ours" /\ Move("abCapture", "abRecapture")
       \/ pidfile = "empty" /\ Move("abCapture", "abBlind")
       \/ pidfile = "written" /\ occupant = "stranger" /\ Move("abCapture", "abBlind")
    /\ UNCHANGED <<op, identity, ctxDone, why, touched, world>>

\* Second look: the identity counts only if it did not change in between.
AbortRecapture ==
    /\ \/ occupant = "ours" /\ Move("abRecapture", "abValidate") /\ identity' = "full"
       \/ occupant # "ours" /\ Move("abRecapture", "abBlind") /\ UNCHANGED identity
    /\ UNCHANGED <<op, ctxDone, why, touched, world>>

AbortBlind == Validate("abBlind", "abBlindQuit", "err", "err")

AbortBlindQuit == Send("abBlindQuit", "abGone", "err")

\* waitForQMPGone: polls while QMP still answers for our VM, up to the timeout.
AbortWaitGone ==
    \/ Validate("abGone", "abGone", "err", "ok")
    \/ /\ Answer = "match" /\ Move("abGone", "err")
       /\ UNCHANGED <<op, identity, ctxDone, why, touched, world>>

AbortValidate ==
    Validate("abValidate", "abQuit", "err", IF identity = "none" THEN "ok" ELSE "sgEnter")

AbortQuit == Send("abQuit", IF identity = "none" THEN "abGone" ELSE "abWaitQuit", "err")

AbortWaitQuit == WaitExit("abWaitQuit", "ok", "abRevalidate")

AbortRevalidate == Validate("abRevalidate", "err", "err", "sgEnter")

Abort == \/ AbortCapture \/ AbortRecapture \/ AbortBlind \/ AbortBlindQuit
         \/ AbortWaitGone \/ AbortValidate \/ AbortQuit \/ AbortWaitQuit
         \/ AbortRevalidate

-----------------------------------------------------------------------------
(* Stop: powerdown, then quit, then signals.                               *)

StopValidate == Validate("stValidate", "stMatch", "err", "sgEnter")
StopMatch == Branch("stMatch", MatchesLive, "powerdown", "err")
StopPowerdown == Send("powerdown", "waitGuest", "qmpFailed")
StopWaitGuest == WaitExit("waitGuest", "ok", "stRevalidate")
StopRevalidate == Validate("stRevalidate", "stRematch", "err", "sgEnter")
StopRematch == Branch("stRematch", MatchesLive, "quit", "err")
StopQuit == Send("quit", "waitQuit", "qmpFailed")
StopWaitQuit == WaitExit("waitQuit", "ok", "stFinal")
\* Still answering after a quit: reported, never signalled.
StopFinal == Validate("stFinal", "err", "err", "sgEnter")
\* handleQMPFailure
StopQmpFailed == Validate("qmpFailed", "err", "err", "sgEnter")

Stop == \/ StopValidate \/ StopMatch \/ StopPowerdown \/ StopWaitGuest
        \/ StopRevalidate \/ StopRematch \/ StopQuit \/ StopWaitQuit
        \/ StopFinal \/ StopQmpFailed

-----------------------------------------------------------------------------
(* stopWithSignals.                                                        *)

\* Mutant: a cancelled context still enters the fallback.
SignalEnterIgnoringContext == Branch("sgEnter", identity = "full", "sgAlive", "err")

SignalEnter == Branch("sgEnter", ~ctxDone /\ identity = "full", "sgAlive", "err")
SignalAlive == Branch("sgAlive", Alive, "sgMatch", "ok")
SignalMatch == Branch("sgMatch", MatchesLive, "term", "err")
SendTerm == Signal("term", "waitTerm", FALSE)
WaitTerm == WaitExit("waitTerm", "ok", "sgRecheck")

\* Mutant: SIGKILL is sent without capturing the identity again.
SignalRecheckWithoutMatch == Branch("sgRecheck", ~ctxDone, "kill", "err")

SignalRecheck == Branch("sgRecheck", ~ctxDone /\ MatchesLive, "kill", "err")
SendKill == Signal("kill", "waitKill", TRUE)

\* Mutant: the end of the SIGKILL wait counts as an exit.
WaitKillOptimistic == WaitExit("waitKill", "ok", "ok")

WaitKill == WaitExit("waitKill", "ok", "err")

StopWithSignals == \/ SignalEnter \/ SignalAlive \/ SignalMatch \/ SendTerm
                   \/ WaitTerm \/ SignalRecheck \/ SendKill \/ WaitKill

Command == Start \/ Abort \/ Stop \/ StopWithSignals

-----------------------------------------------------------------------------
(* The host.                                                               *)

\* Our QEMU exits: the guest powers off, obeys a request, crashes or is killed.
\* A clean exit unlinks its pidfile.
QemuExits ==
    /\ occupant = "ours"
    /\ occupant' = "nobody"
    /\ endpoint' = IF endpoint = "ours" THEN "silent" ELSE endpoint
    /\ pidfile' \in {pidfile, "absent"}
    /\ doomed' = FALSE
    /\ UNCHANGED cli

QemuHangs ==
    /\ endpoint = "ours"
    /\ endpoint' = "silent"
    /\ UNCHANGED <<cli, occupant, pidfile, doomed>>

\* A hung monitor answers again, or an orphan reaches its monitor set-up.
QemuAnswers ==
    /\ occupant = "ours" /\ endpoint = "silent"
    /\ endpoint' = "ours"
    /\ UNCHANGED <<cli, occupant, pidfile, doomed>>

PidfileAdvances ==
    /\ occupant = "ours" /\ pidfile # "written"
    /\ pidfile' = IF pidfile = "absent" THEN "empty" ELSE "written"
    /\ UNCHANGED <<cli, occupant, endpoint, doomed>>

PidReused ==
    /\ occupant = "nobody" /\ pc # "run"
    /\ Adjacent => RaceAtSend
    /\ occupant' = "stranger"
    /\ UNCHANGED <<cli, endpoint, pidfile, doomed>>

StrangerExits ==
    /\ occupant = "stranger"
    /\ occupant' = "nobody"
    /\ UNCHANGED <<cli, endpoint, pidfile, doomed>>

\* A VM of another FARROW_HOME with the same node name owns the socket path.
ForeignAnswers ==
    /\ endpoint = "silent"
    /\ Adjacent => RaceAtSend
    /\ endpoint' = "foreign"
    /\ UNCHANGED <<cli, occupant, pidfile, doomed>>

ForeignLeaves ==
    /\ endpoint = "foreign"
    /\ endpoint' = "silent"
    /\ UNCHANGED <<cli, occupant, pidfile, doomed>>

\* Ctrl-C, or the 30 s budget of a compensation.
ContextEnds ==
    /\ pc \notin Terminal /\ ~ctxDone
    /\ ctxDone' = TRUE
    /\ UNCHANGED <<op, pc, identity, why, touched, world>>

Host == \/ QemuExits \/ QemuHangs \/ QemuAnswers \/ PidfileAdvances
        \/ PidReused \/ StrangerExits \/ ForeignAnswers \/ ForeignLeaves
        \/ ContextEnds

-----------------------------------------------------------------------------
\* What each entry point is handed.  Start finds an empty runtime directory;
\* AbortIdentity gets the identity a start just captured; Stop gets whatever
\* the node state recorded, which may be incomplete or long out of date.
Init ==
    /\ op \in Operation
    /\ ctxDone = FALSE /\ why = "none" /\ touched = {} /\ doomed = FALSE
    /\ \/ /\ op = "start" /\ pc = "run" /\ identity = "none"
          /\ occupant = "nobody" /\ endpoint = "silent" /\ pidfile = "absent"
       \/ /\ op = "abort" /\ pc = "abValidate" /\ identity = "full"
          /\ occupant \in {"ours", "nobody"} /\ pidfile = "written"
          /\ endpoint \in {"ours", "silent"} /\ (endpoint = "ours" => occupant = "ours")
       \/ /\ op = "stop" /\ pc = "stValidate" /\ identity \in {"partial", "full"}
          /\ occupant \in {"ours", "nobody", "stranger"}
          /\ pidfile \in {"absent", "written"}
          /\ endpoint \in {"ours", "foreign", "silent"}
          /\ (endpoint = "ours" => occupant = "ours")

Next == Command \/ Host

\* Every wait of the command has a timer, and a doomed QEMU does exit.
Spec ==
    /\ Init /\ [][Next]_vars
    /\ WF_vars(Command)
    /\ WF_vars(doomed /\ QemuExits)

-----------------------------------------------------------------------------
TypeOK ==
    /\ op \in Operation
    /\ pc \in StartSteps \cup AbortSteps \cup StopSteps \cup SignalSteps \cup Terminal
    /\ identity \in {"none", "partial", "full"}
    /\ ctxDone \in BOOLEAN
    /\ why \in {"none", "ctx", "silent"}
    /\ touched \subseteq {"ours", "stranger", "foreign"}
    /\ occupant \in {"ours", "stranger", "nobody"}
    /\ endpoint \in {"ours", "foreign", "silent"}
    /\ pidfile \in {"absent", "empty", "written"}
    /\ doomed \in BOOLEAN

\* A stop or a compensation that had a process identity in hand and reported
\* success has really ended that QEMU: callers delete its runtime files and
\* publish the node as stopped on the strength of this answer.
SuccessMeansDead == pc = "ok" /\ identity # "none" => occupant # "ours"

\* No QMP powerdown or quit and no signal ever reaches a process that is not
\* this VM's QEMU: not a process that inherited the PID during a wait, not the
\* VM of another data root that took over the socket path.
OnlyOurQemuTouched == touched \subseteq {"ours"}

\* Signals are the fallback for a monitor that is really gone.  A cancelled
\* context makes every QMP query fail too, and must not be mistaken for it.
SignalsNeedSilentMonitor == pc \in {"term", "waitTerm", "kill", "waitKill"} => why = "silent"

\* Whatever the QEMU and the host do, the command returns.
CommandReturns == <>(pc \in Terminal)

=============================================================================
