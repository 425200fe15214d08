\* main() gives up without a first configuration, and domains may need no refresh.
CHECK_DEADLOCK FALSE
SPECIFICATION Spec
CONSTANTS
    local = local
    remote = remote
    Domain = {local, remote}
    Object = {1, 2, 3}
    MaxConf = 2
    RefreshSec <- MCRefreshSec
    Retries <- MCRetries
    RetrySec <- MCRetrySec
    ShortMax = 3
    CloneMayFail = TRUE
INVARIANTS
    TypeOK
    ChainKept
    OneChain
    FilterOnlyLoaded
    PublishedTried
    RetriesOnSchedule
    RefreshesCurrent
PROPERTIES
    ImplementsConfigurationService
