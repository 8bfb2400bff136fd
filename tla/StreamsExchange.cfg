SPECIFICATION Spec
CONSTANTS
    Urls = {"route", "asset"}
    StaticUrls = {"asset"}
    MaxIds = 2
    MaxCalls = 2
    MaxFetches = 1
    MaxBeats = 1
    Request <- UpsertOneNode
    Response <- NodeWithContents
    MaxPayload = 32
    Texts = {8, 9, 24, 40, 41, 56}
    LabelTexts = {9, 24, 25}
    MaxContents = 2
    VecCnt = 1
CONSTRAINT BothThreadsRun
CHECK_DEADLOCK FALSE
INVARIANTS MessagesEndWithLastChunk MessagesArriveWhole WaitingRequestsHaveHandler NothingAfterAnswer
PROPERTIES ImplementsExchange
