CONSTANTS
    Requests = {r1, r2, r3}
    Convs = {c1}
    Nil = Nil
    NoFile = NoFile
    Torn = Torn
    list = list
    delete = delete
    ask = ask
    Tools <- MCTools
    A2ATools <- MCA2ATools
    Destructive <- MCDestructive
    MaxToolIterations = 1
    MaxFaults = 0
    MaxCrashes = 0
    SerialConvs = {}
SYMMETRY Symmetry
SPECIFICATION Spec
INVARIANT RejectionHolds
CHECK_DEADLOCK FALSE
