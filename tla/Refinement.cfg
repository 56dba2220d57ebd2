SPECIFICATION FairSpec
CONSTANTS
    Sizes = {1, 2}
    Layouts = {1, 2}
    Carets = {1}
    MaxInputs = 2
    MaxRejects = 1
    MaxChanges = 2
    None = None
    Corrupt = Corrupt
    Shapes <- MCShapes
    Colors = {0, 1}
    TileSize = 2
    Offsets <- MCOffsets
    CopyLimit = 2
    NoDesktop = NoDesktop
INVARIANTS NoPreInputPicture Agreement UpdatesArrive
PROPERTIES ProtocolHolds RevealsAreClose SharpReturns
CHECK_DEADLOCK FALSE
