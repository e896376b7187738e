CONSTANTS
    Handles = {plugin, protocol}
    Funcs = {func}
    Priorities = {0, 1}
    MaxIds = 4
    MaxDepth = 2
SPECIFICATION Spec
INVARIANTS TypeOK CalledInOrder SelfDisconnectIsSafe
PROPERTIES EverybodyIsCalled
CHECK_DEADLOCK FALSE
