SPECIFICATION Spec
CONSTANTS
    Names = {ADD_ROSPEC_RESPONSE, DELETE_ACCESSSPEC_RESPONSE}
    Untracked = {DELETE_ACCESSSPEC_RESPONSE}
    MaxId = 2
    StaleLimit = 1
    MaxRequests = 2
    MaxSessions = 1
    Timed = {TRUE}
    ExactIds = TRUE
    LateAnswers = FALSE
INVARIANTS AtMostOnce
PROPERTIES ExactCorrelation ImplementsSlots
CHECK_DEADLOCK FALSE
