SPECIFICATION Spec
CONSTANTS
    HeaderLen = 3
    MaxMessageSize = 5
    MaxLen = 6
    MaxMessages = 3
    MaxSessions = 2
INVARIANTS TypeOK FramedExactly NothingHeldBack BoundedBuffer
CHECK_DEADLOCK FALSE
