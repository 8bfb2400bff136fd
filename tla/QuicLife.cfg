SPECIFICATION Spec
CONSTANTS
    MaxHandlers = 2
    MaxData = 1
    MaxPto = 1
    Burst = 1
    Configs <- AllConfigs
CHECK_DEADLOCK FALSE
INVARIANTS TypeOK  CloseTimerMeansClosing RefusedPacketsWatched ResetBucketRefilled StreamsHaveHttp
