SPECIFICATION MemorySpec
CONSTANTS
    Ids = {1, 2}
    Filters = {"all", "success", "fail"}
    Limit = 2
    MaxPolls = 1
    MaxFetches = 2
INVARIANT ExpandedStateStable
