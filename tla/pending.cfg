SPECIFICATION FairSpec
CONSTANTS
    Names = {ADD_ROSPEC_RESPONSE}
    Untracked = {}
    MaxId = 2
    StaleLimit = 1
    MaxRequests = 3
    MaxSessions = 2
    Timed = {TRUE}
    ExactIds = TRUE
    LateAnswers = FALSE
INVARIANTS TypeOK Completable
PROPERTIES TypeUnblocked
CHECK_DEADLOCK FALSE
