\* A name is looked up once.
CHECK_DEADLOCK FALSE
SPECIFICATION Spec
CONSTANTS
    Alpha = {2, 3}
    Digit = {0, 1}
    Zero = 0
    One = 1
    String <- MCString
    MaxTargets = 2
    NgramSize = 2
    NgramThreshold <- FourFifths
    WordThreshold <- Half
    S = 65535
INVARIANTS
    TypeOK
    CountsSharedSlices
    FollowsManual
    PerfectAccepted
