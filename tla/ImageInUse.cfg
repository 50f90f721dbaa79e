INIT Init
NEXT Next
CONSTANTS
    creator = creator
    changer = changer
    old = old
    new = new
    Proc = {creator, changer}
    May <- Commands
    Node = {n}
    Slot = {s, l}
    Local = {l}
    Digest = {old, new}
    Sources = 1
    Attempts = 1
    None = None
    Junk = Junk
PROPERTY PruneSparesBases
