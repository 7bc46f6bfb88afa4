CONSTANTS
    c1 = c1
    c2 = c2
    known = known
    plain = plain
    zero = zero
    Calls = {c1}
    Paths <- MCPaths
    NameOrder <- MCNames
    Device <- MCDevice
    MaxFiles = 6
    Lines <- MCLines
    Allowed <- MCAllowed
    Trees <- MCTrees
    Known = known
    Zero = zero
    Wanted <- MCWanted
    MaxFullRead = 2
    Windows <- MCFarWindows
    Searches <- MCSearches
    Globs <- MCGlobs
SPECIFICATION Spec
PROPERTY SpecifiedOutcomes
CHECK_DEADLOCK FALSE
