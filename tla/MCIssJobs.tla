------------------------------ MODULE MCIssJobs ------------------------------
(* Model-checking instance of IssJobs: two callers, as the hub has (the      *)
(* measure and the setting handler), with the kinds their scripts use.       *)
EXTENDS IssJobs, TLC

MCArgKinds == {"int64", "InstrumentTarget", "MixedMap"}
MCItemKinds == {"float64", "InstrumentDomain"}
MCReturnTypes == {"float64", "DataBuffer"}
MCOtherForms == {"string", "MixedMap", "MixedArray", "unset"}

=============================================================================
