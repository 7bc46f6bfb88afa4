CONSTANTS
    Tabs = {t1}
    MaxRequests = 4
    None = None
    MaxGrants = 2
    MaxLogins = 1
    MaxTokens = 2
    MaxMessages = 2
    MaxFaults = 1
SPECIFICATION Spec
INVARIANTS LogoutHolds RetriesOwnMessage SendButtonComesBack
PROPERTIES DroppedForCause
CHECK_DEADLOCK FALSE
