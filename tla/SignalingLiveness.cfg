SPECIFICATION FairSpec
CONSTANTS
    u = u
    d = d
    b1 = b1
    b2 = b2
    h1 = h1
    h2 = h2
    r1 = r1
    r2 = r2
    None = None
    Users = {u}
    Devices = {d}
    Conns = {b1, h1, h2}
    Subject <- MCSubject
    Creators = {r1}
    QueueCap = 1
    MaxSessions = 1
    MaxSignals = 1
    Submitted = {"WebrtcOffer", "SessionClosed", "Notice"}
    ClientMayAbort = TRUE
INVARIANTS RegisteredSocketRuns
PROPERTIES TasksFinish
CHECK_DEADLOCK FALSE
