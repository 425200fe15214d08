SPECIFICATION Spec
CONSTANTS
    Word <- MCWord
    ConfFiles <- MCConfFiles
    Stores <- MCStores
    LoaderPath <- MCLoaderPath
    Localhost = "localhost"
INVARIANTS
    TypeOK
    LoaderProtocol
    SourceAsAsked
    UserinfoHidden
    
PROPERTIES
    LoadEnds
CHECK_DEADLOCK FALSE
