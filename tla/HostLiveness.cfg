SPECIFICATION FairSpec
CONSTANTS
    s1 = s1
    s2 = s2
    None = None
    Sessions = {s1}
    Sources = {"video", "audio"}
    Faults = {"offer"}
    TileEligible = TRUE
    Edges = {1, 2, 3, 7, 10, 16, 23}
    MaxWidths = {2, 9, 15}
    Bitrate = 20
    LeastBitrate = 8
    InteractionEdges = {2, 7, 12}
    InteractionBitrate = 6
    MaxFlaps = 1
PROPERTIES SupervisorsEnd SourcesResume VideoModeSettles CaptureStops
CHECK_DEADLOCK FALSE
