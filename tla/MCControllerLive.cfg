\* The switch is enabled at the start, so that the initial publication has to
\* go through the Tuya retries; no message is received.
CONSTANTS
    Levels = {"low"}
    Initial = "low"
    PlugStates = {TRUE}
    Configurations = {TRUE}
    DeviceQueueLength = 1
    PublishQueueLength = 2
    SwitchFailureLimit = 4
    FastRetryFailures = 1
    IoErrors = {}
    MaxMessages = 0
    Commands = {}
    Files <- EnabledFile
SPECIFICATION Spec
PROPERTIES InitialStatePublished JobTerminates
