SPECIFICATION Spec
CONSTANTS
    creator = creator
    changer = changer
    old = old
    new = new
    Proc = {creator, changer}
    May <- PullingCommands
    Node = {n}
    Slot = {s}
    Local = {}
    Digest = {old}
    Sources = 2
    Attempts = 2
    None = None
    Junk = Junk
PROPERTIES OperationsEnd CacheRecovers
