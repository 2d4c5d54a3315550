SPECIFICATION Spec
INVARIANTS FreedOnce
CHECK_DEADLOCK FALSE
