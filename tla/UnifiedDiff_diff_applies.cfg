CONSTANTS
    Texts = {a, empty}
    Blank = empty
    Dashed = {}
    Nil = Nil
    Context = 1
    MaxScript = 2
    MaxShift = 0
    FinalNewlines = {TRUE}
SPECIFICATION DiffSpec
INVARIANT DiffApplies
CHECK_DEADLOCK FALSE
