SPECIFICATION Spec
CONSTANTS
    Parts <- MCParts
    Segments <- MCSegments
    Numerals <- MCNumerals
    Assets <- MCAssets
    Ids = {"h", "t"}
    Ledgers <- MCLedgers
    Keys = {"k", "j"}
    ReadRPS = 0
    WriteRPS = 1
    Existing = {"l1"}
    MaxCalls = 2
    Requests <- MCRequests
    Policies <- MCPolicies
    Drafts <- MCDrafts
    Intended <- MCIntended
    MaxTime = 1
    MaxFaults = 1
INVARIANTS
    AnswersAreTrue
    RetriesAgree
    WindowLimit
    EffectsWereAllowed
    ClientsAgreeWithServer
CHECK_DEADLOCK FALSE
