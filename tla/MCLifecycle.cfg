\* Every setting in every order, every I/O error, kills everywhere; the switch's
\* configuration passes its own check or (as in the example header) does not, so
\* that a start with the switch enabled aborts.
CONSTANTS
    Levels = {"low", "high"}
    Initial = "low"
    PlugStates = {TRUE, FALSE}
    Configurations = {TRUE, FALSE}
    DeviceQueueLength = 1
    PublishQueueLength = 1
    SwitchFailureLimit = 4
    IoErrors = {"read", "open", "write"}
    Commands <- SettingCommands
SPECIFICATION LifeSpec
INVARIANTS EnabledBelowLimit PersistedSettings AbortExplained
PROPERTIES RestartKeepsSettings
\* An aborted process stays aborted.
CHECK_DEADLOCK FALSE
