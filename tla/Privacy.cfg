SPECIFICATION FairSpec
CONSTANTS
    None = None
INVARIANTS PrivacyInv
PROPERTIES LiftedByUser LiftedWhileIdle ClientIsCovered ScreenComesBack
CHECK_DEADLOCK FALSE
