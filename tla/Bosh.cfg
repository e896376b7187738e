CONSTANT MaxOpen = 3
SPECIFICATION Spec
INVARIANTS TypeOK CountsAgree ServerCanPush
PROPERTY PendingIsSent
CHECK_DEADLOCK FALSE
