\* Both queues can be full; one command of each kind can arrive, at any moment
\* of any session.
CONSTANTS
    Levels = {"low", "high"}
    Initial = "low"
    PlugStates = {TRUE}
    Configurations = {TRUE}
    DeviceQueueLength = 1
    PublishQueueLength = 1
    SwitchFailureLimit = 4
    FastRetryFailures = 1
    IoErrors = {}
    MaxMessages = 1
    Commands <- MixedCommands
    Files <- EnabledFile
SPECIFICATION Spec
INVARIANTS TypeOK Agreement NothingForgotten
PROPERTIES ReportsInOrder JobShrinks
