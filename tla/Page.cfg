SPECIFICATION PageSpec
CONSTANTS
    Ids = {1, 2}
    Filters = {"all", "success", "fail"}
    Limit = 1
    MaxPolls = 2
    MaxFetches = 2
INVARIANTS PageTypeOK NeverStuckLoading
PROPERTIES TimelyAnswerKeepsOpen ListSettles
