CONSTANTS
    Requests = {r1, r2, r3, r4}
    Tasks = {t1, t2}
    Actions = {v1, v2, v3}
    None = None
    MaxFaults = 2
SYMMETRY Symmetry
SPECIFICATION Spec
INVARIANT AgentsAgree
PROPERTY ChainKeepsGate
CHECK_DEADLOCK FALSE
