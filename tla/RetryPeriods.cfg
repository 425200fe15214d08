\* The conversion ends.
CHECK_DEADLOCK FALSE
SPECIFICATION Spec
CONSTANTS
    Period <- MCPeriod
    MaxLen = 5
INVARIANTS
    DelaysMatchTimes
    WritesBehindReads
