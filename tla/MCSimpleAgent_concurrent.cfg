CONSTANTS
    Requests = {r1, r2, r3}
    Convs = {c1, c2}
    Nil = Nil
    NoFile = NoFile
    Torn = Torn
    list = list
    delete = delete
    ask = ask
    Tools <- MCToolsNoList
    A2ATools <- MCA2ATools
    Destructive <- MCDestructive
    MaxToolIterations = 1
    MaxFaults = 1
    MaxCrashes = 1
    SerialConvs = {c2}
SYMMETRY Symmetry
SPECIFICATION Spec
INVARIANTS TypeOK StatusTellsPending ApprovalHome Authorised LLMSeesResults NobodyStuck DecisionSticks
PROPERTIES NoResurrection OnlyResolutionEndsWait TranscriptGrows ImplementsGate StepsBounded
CHECK_DEADLOCK FALSE
