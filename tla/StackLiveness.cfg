SPECIFICATION FairSpec
CONSTANTS
    MaxLaunchers = 3
    MaxPanels = 1
    MaxFaults = 1
    Faults = {"launcher"}
    Order <- MCHostOnly
    None = None
PROPERTIES PanelGoneServicesGone StopsEnd
CHECK_DEADLOCK FALSE
