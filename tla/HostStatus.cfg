SPECIFICATION Spec
CONSTANTS
    s1 = s1
    s2 = s2
    None = None
    Sessions = {s1}
    Sources = {}
    Faults = {}
    TileEligible = FALSE
    Edges = {2}
    MaxWidths = {2}
    Bitrate = 20
    LeastBitrate = 8
    InteractionEdges = {2}
    InteractionBitrate = 6
    MaxFlaps = 1
SYMMETRY Symmetry
CHECK_DEADLOCK FALSE
INVARIANT OpenGateIsShown
