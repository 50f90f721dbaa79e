SPECIFICATION Spec
CONSTANTS
    Node = {p, q}
    MaxQemus = 2
    Races = FALSE
INVARIANTS
    TypeOK
    StoppedIsOff
    AtMostOneQemu
    RuntimeKept
    LiveIsIdentified
PROPERTIES
    ForeignRuntimeUntouched
    Converges
CHECK_DEADLOCK FALSE
