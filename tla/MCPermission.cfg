SPECIFICATION FairSpec
CONSTANTS
    None = None
    R1 = R1
    R2 = R2
    Id1 = Id1
    Id2 = Id2
    Call1 = Call1
    Call2 = Call2
    Calls <- MCCalls
    Ids <- MCIds
    Requests <- MCRequests
    McpRequests <- OnlyR1
CHECK_DEADLOCK FALSE
INVARIANTS
    TypeOK
    AnswerIsForTheRequest
    FirstDecisionWins
    LateDecisionIsRefused
PROPERTIES
    DecisionResolves
