CONSTANTS
    Searches <- SomeSearches
    SimLimit = 4
    PathLimit = 6
    ValueLimit = 3
SPECIFICATION Spec
INVARIANTS
    EvidenceAddsUp
    ReplayIsExact
PROPERTY
    SearchAnswers
CHECK_DEADLOCK FALSE
