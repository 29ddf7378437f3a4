\* Three lines or records in all, one jump of the clock, one record pruned.
CONSTANTS
    NoId = 0
    Window = 5
    Slack = 1
    Margin = 2
    LogLines <- SomeLogLines
    HistoryLines <- SomeHistoryLines
    ReflogLines <- SomeReflogLines
    Records <- SomeRecords
    FailureLines <- SomeFailureLines
    Delays = {1, 5, 6}
    Ages = {0}
    MaxItems = 3
    MaxTicks = 1
    MaxPruned = 1
SPECIFICATION Spec
INVARIANTS
    CorrelationAccounted
    ScopedAndCounted
    NothingDropped
    GapsShownUnderTheirEvent
CHECK_DEADLOCK FALSE
