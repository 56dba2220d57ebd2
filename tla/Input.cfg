SPECIFICATION FairSpec
CONSTANTS
    k1 = k1
    b1 = b1
    None = None
    Keys = {k1}
    Buttons = {b1}
    Misses = {b1}
    PasteKeys = {k1}
    MaxPackets = 2
    MaxPauses = 1
INVARIANTS MovesNeverUndoClicks NoStuckInput
PROPERTIES TransitionsInOrder FallbackKeysSurvive HeldInputsEnd
CHECK_DEADLOCK FALSE
