\* main() gives up without a first configuration.
CHECK_DEADLOCK FALSE
SPECIFICATION FairSpec
CONSTANTS
    local = local
    remote = remote
    Domain = {local}
    Object = {1, 2, 3}
    MaxConf = 2
    RefreshSec <- OneRefreshSec
    Retries <- OneRetries
    RetrySec <- OneRetrySec
    ShortMax = 2
    CloneMayFail = FALSE
PROPERTIES
    Recovers
    SupersededDrains
