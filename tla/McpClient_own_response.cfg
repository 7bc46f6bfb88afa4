CONSTANTS
    N = 3
    Http = {2}
    Tools = {t1, t2}
    Callers = {p1, p2}
    Nil = Nil
    ConnectMaxRetries = 2
    MaxBadHandshakes = 1
SPECIFICATION Spec
INVARIANT OwnResponse
CHECK_DEADLOCK FALSE
