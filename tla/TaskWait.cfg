\* Two tolerated failures: none, some and all of the tolerance can be used up.
CONSTANT RetryLimit = 2
SPECIFICATION Spec
INVARIANTS TypeOK SuccessIsReal FailureIsExplained
PROPERTIES StartIsReal EndIsNoticed VerdictSpec
