SPECIFICATION ProcessSpec
CONSTANTS
    Publishers = {r1, r2, r3}
    Arguments = {"api", "event", "http-server"}
SYMMETRY Interchangeable
CHECK_DEADLOCK FALSE
INVARIANTS
    PublishersConnected
    WorkNeedsDatabase
