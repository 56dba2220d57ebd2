SPECIFICATION Spec
CONSTANTS
    MaxLaunchers = 3
    MaxPanels = 1
    MaxFaults = 1
    Faults = {"launcher", "service", "panel", "stop"}
    Order <- MCOrder
    None = None
INVARIANTS StackInv
PROPERTIES StopStops CloseIsClean
CHECK_DEADLOCK FALSE
