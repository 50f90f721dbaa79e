------------------------- MODULE QemuProcessProofs -------------------------
(***************************************************************************)
(* The safety properties of QemuProcess for every set of operations, and,  *)
(* where the property needs it, for a host on which a PID or a socket does *)
(* not change owner between a check and the send right after it.           *)
(***************************************************************************)
EXTENDS QemuProcess, TLAPS

\* What the command still knows about the identity it holds, by program point.
IdentityByStep ==
    /\ pc \in {"run", "waitQmp", "readPid", "capture", "abCapture", "abRecapture",
               "abBlind", "abBlindQuit", "abGone"} => identity = "none"
    /\ pc \in {"abWaitQuit", "abRevalidate"} => identity # "none"
    /\ pc \in SignalSteps \ {"sgEnter"} => identity = "full"

\* The fallback is entered with a cause, and a context cause is a finished context.
CauseByStep ==
    /\ pc = "sgEnter" => why = "silent" \/ (why = "ctx" /\ ctxDone)
    /\ pc \in SignalSteps \ {"sgEnter"} => why = "silent"

\* A send acts on an answer that still holds.
FreshAtSend ==
    /\ pc \in {"term", "kill"} => occupant # "stranger"
    /\ pc \in {"stMatch", "powerdown", "stRematch", "quit", "abQuit", "abBlindQuit"}
          => endpoint # "foreign"

Inv == TypeOK /\ IdentityByStep /\ CauseByStep /\ SuccessMeansDead

\* The initial states of every entry point satisfy the invariant.
LEMMA InitInv == Init => Inv
  BY DEF Init, Inv, TypeOK, IdentityByStep, CauseByStep, SuccessMeansDead,
         StartSteps, AbortSteps, StopSteps, SignalSteps, Terminal

\* A step of a start keeps the invariant.
LEMMA StartInv == Inv /\ Start => Inv'
  <1> SUFFICES ASSUME Inv, Start PROVE Inv'
    OBVIOUS
  <1> USE DEF Inv, TypeOK, IdentityByStep, CauseByStep, SuccessMeansDead,
              StartSteps, AbortSteps, StopSteps, SignalSteps, Terminal, world, Move, EnterAbort
  <1>1. CASE Run
    BY <1>1, ZenonT(30) DEF Run
  <1>2. CASE WaitQmp
    BY <1>2, ZenonT(30) DEF WaitQmp, Answer
  <1>3. CASE ReadPid
    BY <1>3, ZenonT(30) DEF ReadPid
  <1>4. CASE CaptureStarted
    BY <1>4, ZenonT(30) DEF CaptureStarted
  <1>5. CASE ConfirmStarted
    BY <1>5, ZenonT(30) DEF ConfirmStarted, MatchesLive
  <1> QED
    BY <1>1, <1>2, <1>3, <1>4, <1>5 DEF Start

\* A step of a compensation keeps the invariant.
LEMMA AbortInv == Inv /\ Abort => Inv'
  <1> SUFFICES ASSUME Inv, Abort PROVE Inv'
    OBVIOUS
  <1> USE DEF Inv, TypeOK, IdentityByStep, CauseByStep, SuccessMeansDead,
              StartSteps, AbortSteps, StopSteps, SignalSteps, Terminal, world, Move
  <1>1. CASE AbortCapture
    BY <1>1 DEF AbortCapture
  <1>2. CASE AbortRecapture
    BY <1>2 DEF AbortRecapture
  <1>3. CASE AbortBlind
    BY <1>3, SMTT(30) DEF AbortBlind, Validate, Answer, Reason
  <1>4. CASE AbortBlindQuit
    BY <1>4, SMTT(30) DEF AbortBlindQuit, Send, Answer
  <1>5. CASE AbortWaitGone
    <2>1. CASE Validate("abGone", "abGone", "err", "ok")
      BY <2>1, SMTT(30) DEF Validate, Answer, Reason
    <2> QED
      BY <1>5, <2>1, ZenonT(60) DEF AbortWaitGone
  <1>6. CASE AbortValidate
    <2>2. CASE identity = "none"
      <3>1. Validate("abValidate", "abQuit", "err", "ok")
        BY <1>6, <2>2 DEF AbortValidate
      <3> QED
        BY <2>2, <3>1, SMTT(30) DEF Validate, Answer, Reason
    <2>3. CASE identity # "none"
      <3>1. Validate("abValidate", "abQuit", "err", "sgEnter")
        BY <1>6, <2>3 DEF AbortValidate
      <3> QED
        BY <2>3, <3>1, SMTT(30) DEF Validate, Answer, Reason
    <2> QED
      BY <2>2, <2>3
  <1>7. CASE AbortQuit
    <2>1. CASE identity = "none"
      <3>1. Send("abQuit", "abGone", "err")
        BY <1>7, <2>1 DEF AbortQuit
      <3> QED
        BY <2>1, <3>1, SMTT(30) DEF Send, Answer
    <2>2. CASE identity # "none"
      <3>1. Send("abQuit", "abWaitQuit", "err")
        BY <1>7, <2>2 DEF AbortQuit
      <3> QED
        BY <2>2, <3>1, SMTT(30) DEF Send, Answer
    <2> QED
      BY <2>1, <2>2
  <1>8. CASE AbortWaitQuit
    BY <1>8, SMTT(30) DEF AbortWaitQuit, WaitExit, Alive
  <1>9. CASE AbortRevalidate
    BY <1>9, SMTT(30) DEF AbortRevalidate, Validate, Answer, Reason
  <1> QED
    BY <1>1, <1>2, <1>3, <1>4, <1>5, <1>6, <1>7, <1>8, <1>9 DEF Abort

\* A step of a stop, before any signal, keeps the invariant.
LEMMA StopInv == Inv /\ Stop => Inv'
  <1> SUFFICES ASSUME Inv, Stop PROVE Inv'
    OBVIOUS
  <1> USE DEF Inv, TypeOK, IdentityByStep, CauseByStep, SuccessMeansDead,
              StartSteps, AbortSteps, StopSteps, SignalSteps, Terminal, world, Move
  <1>1. CASE StopValidate
    BY <1>1, SMTT(30) DEF StopValidate, Validate, Answer, Reason
  <1>2. CASE StopMatch
    BY <1>2 DEF StopMatch, Branch
  <1>3. CASE StopPowerdown
    BY <1>3, SMTT(30) DEF StopPowerdown, Send, Answer
  <1>4. CASE StopWaitGuest
    BY <1>4, SMTT(30) DEF StopWaitGuest, WaitExit, Alive
  <1>5. CASE StopRevalidate
    BY <1>5, SMTT(30) DEF StopRevalidate, Validate, Answer, Reason
  <1>6. CASE StopRematch
    BY <1>6 DEF StopRematch, Branch
  <1>7. CASE StopQuit
    BY <1>7, SMTT(30) DEF StopQuit, Send, Answer
  <1>8. CASE StopWaitQuit
    BY <1>8, SMTT(30) DEF StopWaitQuit, WaitExit, Alive
  <1>9. CASE StopFinal
    BY <1>9, SMTT(30) DEF StopFinal, Validate, Answer, Reason
  <1>10. CASE StopQmpFailed
    BY <1>10, SMTT(30) DEF StopQmpFailed, Validate, Answer, Reason
  <1> QED
    BY <1>1, <1>2, <1>3, <1>4, <1>5, <1>6, <1>7, <1>8, <1>9, <1>10 DEF Stop

\* A step of the signal fallback keeps the invariant.
LEMMA SignalInv == Inv /\ StopWithSignals => Inv'
  <1> SUFFICES ASSUME Inv, StopWithSignals PROVE Inv'
    OBVIOUS
  <1> USE DEF Inv, TypeOK, IdentityByStep, CauseByStep, SuccessMeansDead,
              StartSteps, AbortSteps, StopSteps, SignalSteps, Terminal, world, Move
  <1>1. CASE SignalEnter
    BY <1>1 DEF SignalEnter, Branch
  <1>2. CASE SignalAlive
    BY <1>2 DEF SignalAlive, Branch, Alive
  <1>3. CASE SignalMatch
    BY <1>3 DEF SignalMatch, Branch, MatchesLive
  <1>4. CASE SendTerm
    BY <1>4 DEF SendTerm, Signal, Alive
  <1>5. CASE WaitTerm
    BY <1>5, SMTT(30) DEF WaitTerm, WaitExit, Alive
  <1>6. CASE SignalRecheck
    BY <1>6 DEF SignalRecheck, Branch, MatchesLive
  <1>7. CASE SendKill
    BY <1>7 DEF SendKill, Signal, Alive
  <1>8. CASE WaitKill
    BY <1>8, SMTT(30) DEF WaitKill, WaitExit, Alive
  <1> QED
    BY <1>1, <1>2, <1>3, <1>4, <1>5, <1>6, <1>7, <1>8 DEF StopWithSignals

\* Nothing the host does falsifies the invariant: a dead QEMU stays dead.
LEMMA HostInv == Inv /\ Host => Inv'
  <1> SUFFICES ASSUME Inv, Host PROVE Inv'
    OBVIOUS
  <1> USE DEF Inv, TypeOK, IdentityByStep, CauseByStep, SuccessMeansDead,
              StartSteps, AbortSteps, StopSteps, SignalSteps, Terminal, world, cli
  <1>1. CASE QemuExits
    <2>1. /\ UNCHANGED op /\ UNCHANGED pc /\ UNCHANGED identity /\ UNCHANGED ctxDone
          /\ UNCHANGED why /\ UNCHANGED touched
          /\ occupant' = "nobody" /\ endpoint' \in {"silent", endpoint}
          /\ pidfile' \in {pidfile, "absent"} /\ doomed' = FALSE
      BY <1>1 DEF QemuExits
    <2>2. endpoint' \in {"ours", "foreign", "silent"} /\ pidfile' \in {"absent", "empty", "written"}
      BY <2>1
    <2>3. TypeOK'
      BY <2>1, <2>2
    <2>4. IdentityByStep' /\ CauseByStep'
      BY <2>1
    <2>5. SuccessMeansDead'
      BY <2>1
    <2> QED
      BY <2>3, <2>4, <2>5
  <1>2. CASE QemuHangs
    BY <1>2, SMTT(30) DEF QemuHangs
  <1>3. CASE QemuAnswers
    BY <1>3, SMTT(30) DEF QemuAnswers
  <1>4. CASE PidfileAdvances
    BY <1>4, SMTT(30) DEF PidfileAdvances
  <1>5. CASE PidReused
    BY <1>5, SMTT(30) DEF PidReused
  <1>6. CASE StrangerExits
    BY <1>6, SMTT(30) DEF StrangerExits
  <1>7. CASE ForeignAnswers
    BY <1>7, SMTT(30) DEF ForeignAnswers
  <1>8. CASE ForeignLeaves
    BY <1>8, SMTT(30) DEF ForeignLeaves
  <1>9. CASE ContextEnds
    BY <1>9, SMTT(30) DEF ContextEnds
  <1> QED
    BY <1>1, <1>2, <1>3, <1>4, <1>5, <1>6, <1>7, <1>8, <1>9 DEF Host

\* The inductive invariant holds in every behaviour.
THEOREM Invariance == Spec => []Inv
  <1>1. Inv /\ [Next]_vars => Inv'
    <2>1. Inv /\ UNCHANGED vars => Inv'
      BY DEF Inv, TypeOK, IdentityByStep, CauseByStep, SuccessMeansDead, vars,
             StartSteps, AbortSteps, StopSteps, SignalSteps, Terminal
    <2> QED
      BY <2>1, StartInv, AbortInv, StopInv, SignalInv, HostInv DEF Next, Command
  <1> QED
    BY <1>1, InitInv, PTL DEF Spec

\* Type correctness of the process model.
THEOREM TypeCorrect == Spec => []TypeOK
  <1>1. Inv => TypeOK
    BY DEF Inv
  <1> QED
    BY <1>1, Invariance, PTL

\* A stop or compensation that held an identity and succeeded ended that QEMU.
THEOREM SuccessIsDeath == Spec => []SuccessMeansDead
  <1>1. Inv => SuccessMeansDead
    BY DEF Inv
  <1> QED
    BY <1>1, Invariance, PTL

\* A finished context never turns into a signal.
THEOREM SignalsAreForSilence == Spec => []SignalsNeedSilentMonitor
  <1>1. Inv => SignalsNeedSilentMonitor
    BY DEF Inv, CauseByStep, SignalsNeedSilentMonitor, SignalSteps
  <1> QED
    BY <1>1, Invariance, PTL

Owned == Inv /\ FreshAtSend /\ OnlyOurQemuTouched

\* A start contacts nobody.
LEMMA StartOwnership == ~RaceAtSend /\ Owned /\ Start => (FreshAtSend /\ OnlyOurQemuTouched)'
  <1> SUFFICES ASSUME ~RaceAtSend, Owned, Start PROVE (FreshAtSend /\ OnlyOurQemuTouched)'
    OBVIOUS
  <1> USE DEF Owned, Inv, TypeOK, FreshAtSend, OnlyOurQemuTouched, world, Move
  <1>1. CASE Run
    BY <1>1, SMTT(30) DEF Run, EnterAbort
  <1>2. CASE WaitQmp
    BY <1>2, SMTT(30) DEF WaitQmp, EnterAbort
  <1>3. CASE ReadPid
    BY <1>3, SMTT(30) DEF ReadPid, EnterAbort
  <1>4. CASE CaptureStarted
    BY <1>4, SMTT(30) DEF CaptureStarted, EnterAbort
  <1>5. CASE ConfirmStarted
    BY <1>5, SMTT(30) DEF ConfirmStarted, EnterAbort, MatchesLive
  <1> QED
    BY <1>1, <1>2, <1>3, <1>4, <1>5 DEF Start

\* A compensation quits only the monitor it has just identified.
LEMMA AbortOwnership == ~RaceAtSend /\ Owned /\ Abort => (FreshAtSend /\ OnlyOurQemuTouched)'
  <1> SUFFICES ASSUME ~RaceAtSend, Owned, Abort PROVE (FreshAtSend /\ OnlyOurQemuTouched)'
    OBVIOUS
  <1> USE DEF Owned, Inv, TypeOK, FreshAtSend, OnlyOurQemuTouched, world, Move
  <1>1. CASE AbortCapture
    BY <1>1, SMTT(30) DEF AbortCapture
  <1>2. CASE AbortRecapture
    BY <1>2, SMTT(30) DEF AbortRecapture
  <1>3. CASE AbortBlind
    BY <1>3, SMTT(30) DEF AbortBlind, Validate, Answer
  <1>4. CASE AbortBlindQuit
    BY <1>4, SMTT(30) DEF AbortBlindQuit, Send, Answer
  <1>5. CASE AbortWaitGone
    <2>1. pc' \in {"abGone", "err", "ok"} /\ UNCHANGED touched
      BY <1>5 DEF AbortWaitGone, Validate
    <2> QED
      BY <2>1
  <1>6. CASE AbortValidate
    BY <1>6, SMTT(30) DEF AbortValidate, Validate, Answer
  <1>7. CASE AbortQuit
    BY <1>7, SMTT(30) DEF AbortQuit, Send, Answer
  <1>8. CASE AbortWaitQuit
    BY <1>8, SMTT(30) DEF AbortWaitQuit, WaitExit
  <1>9. CASE AbortRevalidate
    BY <1>9, SMTT(30) DEF AbortRevalidate, Validate, Answer
  <1> QED
    BY <1>1, <1>2, <1>3, <1>4, <1>5, <1>6, <1>7, <1>8, <1>9 DEF Abort

\* A stop powers down and quits only the monitor it has just identified.
LEMMA StopOwnership == ~RaceAtSend /\ Owned /\ Stop => (FreshAtSend /\ OnlyOurQemuTouched)'
  <1> SUFFICES ASSUME ~RaceAtSend, Owned, Stop PROVE (FreshAtSend /\ OnlyOurQemuTouched)'
    OBVIOUS
  <1> USE DEF Owned, Inv, TypeOK, FreshAtSend, OnlyOurQemuTouched, world, Move
  <1>1. CASE StopValidate
    BY <1>1, SMTT(30) DEF StopValidate, Validate, Answer
  <1>2. CASE StopMatch
    BY <1>2, SMTT(30) DEF StopMatch, Branch
  <1>3. CASE StopPowerdown
    BY <1>3, SMTT(30) DEF StopPowerdown, Send, Answer
  <1>4. CASE StopWaitGuest
    BY <1>4, SMTT(30) DEF StopWaitGuest, WaitExit
  <1>5. CASE StopRevalidate
    BY <1>5, SMTT(30) DEF StopRevalidate, Validate, Answer
  <1>6. CASE StopRematch
    BY <1>6, SMTT(30) DEF StopRematch, Branch
  <1>7. CASE StopQuit
    BY <1>7, SMTT(30) DEF StopQuit, Send, Answer
  <1>8. CASE StopWaitQuit
    BY <1>8, SMTT(30) DEF StopWaitQuit, WaitExit
  <1>9. CASE StopFinal
    BY <1>9, SMTT(30) DEF StopFinal, Validate, Answer
  <1>10. CASE StopQmpFailed
    BY <1>10, SMTT(30) DEF StopQmpFailed, Validate, Answer
  <1> QED
    BY <1>1, <1>2, <1>3, <1>4, <1>5, <1>6, <1>7, <1>8, <1>9, <1>10 DEF Stop

\* A signal follows a capture of the identity.
LEMMA SignalOwnership == ~RaceAtSend /\ Owned /\ StopWithSignals => (FreshAtSend /\ OnlyOurQemuTouched)'
  <1> SUFFICES ASSUME ~RaceAtSend, Owned, StopWithSignals PROVE (FreshAtSend /\ OnlyOurQemuTouched)'
    OBVIOUS
  <1> USE DEF Owned, Inv, TypeOK, FreshAtSend, OnlyOurQemuTouched, world, Move
  <1>1. CASE SignalEnter
    BY <1>1, SMTT(30) DEF SignalEnter, Branch
  <1>2. CASE SignalAlive
    BY <1>2, SMTT(30) DEF SignalAlive, Branch
  <1>3. CASE SignalMatch
    BY <1>3, SMTT(30) DEF SignalMatch, Branch, MatchesLive
  <1>4. CASE SendTerm
    <2>1. occupant \in {"ours", "nobody"}
      BY <1>4 DEF SendTerm, Signal
    <2>2. touched' = touched \/ touched' = touched \cup {"ours"}
      BY <1>4, <2>1 DEF SendTerm, Signal, Alive
    <2>3. pc' \in {"waitTerm", "err", "ok"}
      BY <1>4 DEF SendTerm, Signal
    <2> QED
      BY <2>2, <2>3
  <1>5. CASE WaitTerm
    BY <1>5, SMTT(30) DEF WaitTerm, WaitExit
  <1>6. CASE SignalRecheck
    BY <1>6, SMTT(30) DEF SignalRecheck, Branch, MatchesLive
  <1>7. CASE SendKill
    <2>1. occupant \in {"ours", "nobody"}
      BY <1>7 DEF SendKill, Signal
    <2>2. touched' = touched \/ touched' = touched \cup {"ours"}
      BY <1>7, <2>1 DEF SendKill, Signal, Alive
    <2>3. pc' \in {"waitKill", "err", "ok"}
      BY <1>7 DEF SendKill, Signal
    <2> QED
      BY <2>2, <2>3
  <1>8. CASE WaitKill
    BY <1>8, SMTT(30) DEF WaitKill, WaitExit
  <1> QED
    BY <1>1, <1>2, <1>3, <1>4, <1>5, <1>6, <1>7, <1>8 DEF StopWithSignals

\* Between a check and its send no owner changes.
LEMMA HostOwnership == ~RaceAtSend /\ Owned /\ Host => (FreshAtSend /\ OnlyOurQemuTouched)'
  <1> SUFFICES ASSUME ~RaceAtSend, Owned, Host PROVE (FreshAtSend /\ OnlyOurQemuTouched)'
    OBVIOUS
  <1> USE DEF Owned, Inv, TypeOK, FreshAtSend, OnlyOurQemuTouched, world, cli
  <1>1. CASE QemuExits
    BY <1>1, SMTT(30) DEF QemuExits
  <1>2. CASE QemuHangs
    BY <1>2, SMTT(30) DEF QemuHangs
  <1>3. CASE QemuAnswers
    BY <1>3, SMTT(30) DEF QemuAnswers
  <1>4. CASE PidfileAdvances
    BY <1>4, SMTT(30) DEF PidfileAdvances
  <1>5. CASE PidReused
    BY <1>5, SMTT(30) DEF PidReused, Adjacent
  <1>6. CASE StrangerExits
    BY <1>6, SMTT(30) DEF StrangerExits
  <1>7. CASE ForeignAnswers
    BY <1>7, SMTT(30) DEF ForeignAnswers, Adjacent
  <1>8. CASE ForeignLeaves
    BY <1>8, SMTT(30) DEF ForeignLeaves
  <1>9. CASE ContextEnds
    BY <1>9, SMTT(30) DEF ContextEnds
  <1> QED
    BY <1>1, <1>2, <1>3, <1>4, <1>5, <1>6, <1>7, <1>8, <1>9 DEF Host

\* While no PID and no socket changes owner between a check and the send right
\* after it, no command and no signal reaches anything but this VM's QEMU.
THEOREM OnlyOurs == ~RaceAtSend => (Spec => []OnlyOurQemuTouched)
  <1> SUFFICES ASSUME ~RaceAtSend PROVE Spec => []OnlyOurQemuTouched
    OBVIOUS
  <1>1. Init => FreshAtSend /\ OnlyOurQemuTouched
    BY DEF Init, FreshAtSend, OnlyOurQemuTouched
  <1>2. Inv /\ (FreshAtSend /\ OnlyOurQemuTouched) /\ [Next]_vars => (FreshAtSend /\ OnlyOurQemuTouched)'
    <2> SUFFICES ASSUME Owned, [Next]_vars PROVE (FreshAtSend /\ OnlyOurQemuTouched)'
      BY DEF Owned
    <2>1. CASE UNCHANGED vars
      BY <2>1 DEF Owned, FreshAtSend, OnlyOurQemuTouched, vars
    <2> QED
      BY <2>1, StartOwnership, AbortOwnership, StopOwnership, SignalOwnership, HostOwnership
         DEF Next, Command
  <1>3. Spec => [](FreshAtSend /\ OnlyOurQemuTouched)
    BY <1>1, <1>2, Invariance, PTL DEF Spec
  <1> QED
    BY <1>3, PTL
=============================================================================
