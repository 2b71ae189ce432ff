CONSTANTS
    Configs <- MCConfigs
    ScriptSets <- MCScriptSets
    Requests <- MCRequests
    SampleCounts <- MCSampleCounts
SPECIFICATION Spec
INVARIANT LimitsReadable
CHECK_DEADLOCK FALSE
