SPECIFICATION SigmaSpec
INVARIANT RuleFindsItsFields
CHECK_DEADLOCK FALSE
