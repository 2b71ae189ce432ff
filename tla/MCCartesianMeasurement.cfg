CONSTANTS
    Configs <- MCConfigs
    ScriptSets <- MCScriptSets
    Requests <- MCRequests
    SampleCounts <- MCSampleCounts
SPECIFICATION Spec
INVARIANTS
    AnswerIsGrid
    RepliesReadBack
    SettingsServed
CHECK_DEADLOCK FALSE
