SPECIFICATION LifeSpec
CONSTANTS
    Requests = {q1, q2}
    Statuses = {200, 502}
    Readers = {r1}
    MaxStarts = 2
    MaxAttempts = 1
INVARIANTS LifeTypeOK DbOutlivesHandlers CleanRunsComplete
PROPERTY StopHeeded
CHECK_DEADLOCK FALSE
