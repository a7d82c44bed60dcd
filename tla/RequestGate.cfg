\* Every route of the API under every combination of settings that is accepted.
SPECIFICATION Spec
CONSTANT Claims <- SomeClaims
INVARIANTS RefusedBeforeBuilt ProductionIsClosed
PROPERTY AnsweredAndClosed
CHECK_DEADLOCK FALSE
