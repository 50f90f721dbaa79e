SPECIFICATION Spec
CONSTANTS
    Node = {p, q}
    Persistent = {p}
INVARIANTS TypeOK CommittedIsComplete PersistentDataKept
PROPERTIES BootsItsOwnData Contract
CHECK_DEADLOCK FALSE
