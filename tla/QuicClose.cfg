SPECIFICATION FairSpec
CONSTANTS
    MaxHandlers = 1
    MaxData = 1
    MaxPto = 1
    Burst = 1
    Configs <- PlainOnly
CHECK_DEADLOCK FALSE
PROPERTIES ServerForgetsClient  CloseReturnsWhileConnected
