CONSTANTS
    Queries = {q1, q2, q3}
    Children = {c1, c2, c3}
    None = none
    MaxChildren = 2
SPECIFICATION Spec
INVARIANTS
    TypeOK
    AnswersFindTheirQuery
    DestroyedIsUnreachable
    NumberIsRight
    QueueIsServedUncancelled
PROPERTIES
    IsLookup
    EveryQueryAnswered
CHECK_DEADLOCK FALSE
