CONSTANTS
    Texts = {a, empty}
    Blank = empty
    Dashed = {}
    Nil = Nil
    Context = 0
    MaxScript = 5
    MaxShift = 2
    FinalNewlines = {TRUE, FALSE}
SPECIFICATION DiffSpec
INVARIANT FitsOrFails
CHECK_DEADLOCK FALSE
