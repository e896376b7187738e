CONSTANT MaxOpen = 3
SPECIFICATION Spec
INVARIANT OutstandingIsOutstanding
CHECK_DEADLOCK FALSE
