CONSTANT MaxContents = 4
SPECIFICATION Spec
INVARIANTS TypeOK AlwaysWhole UnsavedIsScheduled
PROPERTIES SaveIsCurrent ChangesAreSaved
CHECK_DEADLOCK FALSE
