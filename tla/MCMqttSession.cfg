\* Three failures before the long pause, so that a streak can be broken at
\* every length; queues short enough to be full.
CONSTANTS
    Levels = {"low"}
    DeviceQueueLength = 1
    PublishQueueLength = 1
    FastRetryFailures = 3
    MaxMessages = 1
    Commands <- OneCommand
SPECIFICATION SessionSpec
INVARIANTS BitsAgree RetryPolicy
