SPECIFICATION Spec
CONSTANTS
    u = u
    d = d
    b1 = b1
    b2 = b2
    h1 = h1
    h2 = h2
    r1 = r1
    r2 = r2
    None = None
    Users = {u}
    Devices = {d}
    Conns = {b1, b2, h1}
    Subject <- MCSubject
    Creators = {r1, r2}
    QueueCap = 2
    MaxSessions = 2
    MaxSignals = 2
    Submitted = {"WebrtcOffer", "InputPacket", "InputAck"}
    ClientMayAbort = TRUE
SYMMETRY Symmetry
INVARIANTS OneSessionPerDevice ToldInOrder OnlyTheClaimant
PROPERTIES ImplementsOwnership
CHECK_DEADLOCK FALSE
