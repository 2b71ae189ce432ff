CONSTANTS
    Configs <- MCConfigs
    ScriptSets <- MCScriptSets
    Requests <- MCRequests
    SampleCounts <- MCSampleCounts
SPECIFICATION Spec
INVARIANT FixedAxisVoltage
CHECK_DEADLOCK FALSE
