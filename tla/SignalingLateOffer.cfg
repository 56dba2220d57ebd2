SPECIFICATION Spec
CONSTANTS
    u = u
    d = d
    b1 = b1
    b2 = b2
    h1 = h1
    h2 = h2
    r1 = r1
    r2 = r2
    None = None
    Users = {u}
    Devices = {d}
    Conns = {b1, h1}
    Subject <- MCSubject
    Creators = {r1, r2}
    QueueCap = 2
    MaxSessions = 2
    MaxSignals = 1
    Submitted = {"WebrtcOffer"}
    ClientMayAbort = FALSE
SYMMETRY Symmetry
CHECK_DEADLOCK FALSE
INVARIANT NoOfferAfterClose
