CHECK_DEADLOCK FALSE
SPECIFICATION Spec
CONSTANTS
    local = local
    remote = remote
    Domain = {local, remote}
    Object = {1, 2, 3}
    MaxConf = 2
    RefreshSec <- MCRefreshSec
    Retries <- MCRetries
    RetrySec <- MCRetrySec
    ShortMax = 3
    CloneMayFail = FALSE
INVARIANTS
    ChainAlive
