SPECIFICATION Spec
INVARIANT
    UnpaidWakes
CHECK_DEADLOCK FALSE
