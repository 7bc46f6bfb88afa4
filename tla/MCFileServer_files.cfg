CONSTANTS
    c1 = c1
    c2 = c2
    known = known
    plain = plain
    zero = zero
    Calls = {c1, c2}
    Paths <- MCPaths
    NameOrder <- MCNames
    Device <- MCDevice
    MaxFiles = 6
    Lines <- MCLines
    Allowed <- MCAllowed
    Trees <- MCTrees
    Known = known
    Zero = zero
    Wanted <- MCWanted
    MaxFullRead = 2
    Windows <- MCWindows
    Searches <- MCSearches
    Globs <- MCGlobs
SPECIFICATION Spec
SYMMETRY Swap
INVARIANTS TypeOK WritesHold
PROPERTIES MoveKeepsFiles  SearchFindsAll
CHECK_DEADLOCK FALSE
