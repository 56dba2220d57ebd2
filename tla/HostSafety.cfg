SPECIFICATION Spec
CONSTANTS
    s1 = s1
    s2 = s2
    None = None
    Sessions = {s1, s2}
    Sources = {"audio"}
    Faults = {"offer", "answered"}
    TileEligible = FALSE
    Edges = {1, 2, 3, 7, 10, 16, 23}
    MaxWidths = {2, 9, 15}
    Bitrate = 20
    LeastBitrate = 8
    InteractionEdges = {2, 7, 12}
    InteractionBitrate = 6
    MaxFlaps = 0
SYMMETRY Symmetry
INVARIANTS RetirementWins ConnectedStatusIsCurrent SourcesAreControlled StreamsFit
CHECK_DEADLOCK FALSE
