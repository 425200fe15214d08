CHECK_DEADLOCK FALSE
SPECIFICATION Spec
CONSTANTS
    Period <- MCPeriod
    MaxLen = 2
INVARIANTS
    AlwaysDefined
