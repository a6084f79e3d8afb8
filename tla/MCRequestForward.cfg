SPECIFICATION Spec
INVARIANTS DisconnectIsContained
CHECK_DEADLOCK FALSE
