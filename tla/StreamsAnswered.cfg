SPECIFICATION FairSpec
CONSTANTS
    Urls = {"route"}
    StaticUrls = {}
    MaxIds = 2
    MaxCalls = 2
    MaxFetches = 1
    MaxBeats = 1
    Request <- Label
    Response <- NothingThere
    MaxPayload = 32
    Texts = {8}
    LabelTexts = {9}
    MaxContents = 0
    VecCnt = 1
CONSTRAINT BothThreadsRun
CHECK_DEADLOCK FALSE
PROPERTIES RequestsAnswered
