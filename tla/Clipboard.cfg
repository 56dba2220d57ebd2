SPECIFICATION FairSpec
CONSTANTS
    MaxOps = 2
    MaxFaults = 1
    Parts = 4
    Window = 2
    MaxParts = 4
    None = None
INVARIANTS ClipboardInv ReportedIsDone
PROPERTIES ImplementsPasting PicturesInOrder OperationsEnd
CHECK_DEADLOCK FALSE
