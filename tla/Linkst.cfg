SPECIFICATION Spec
CONSTANTS
    UpperLimit = 4
    Slack = 2
    Timeout = 1
    MaxTime = 1
INVARIANTS InAllocatedRows JoinedAnswers
PROPERTY ImplementsGraph
CHECK_DEADLOCK FALSE
