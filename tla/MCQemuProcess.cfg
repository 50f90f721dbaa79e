SPECIFICATION Spec
CONSTANTS
    Operation = {"start", "abort", "stop"}
    RaceAtSend = FALSE
INVARIANTS TypeOK SuccessMeansDead OnlyOurQemuTouched SignalsNeedSilentMonitor
PROPERTY CommandReturns
CHECK_DEADLOCK FALSE
