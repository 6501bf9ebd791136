SPECIFICATION Spec
CONSTANTS
    MAX_NESTING = 2
    SortedKeys <- MCSortedKeys
    ORIGIN <- MCOrigin
    Configs <- MCConfigs
    Requests <- MCRequests
    Scripts <- MCScripts
    ToolResults <- MCToolResults
INVARIANTS
    TypeOK
    RefusedUnlessSigned
    ReadsAsConfigured
    ExecutedAsAuthored
    NothingLost
    CapturedIsEntered
CHECK_DEADLOCK FALSE
