\* Two forks, a pid given out again or not, two execs, a ring of one.
CONSTANTS
    Pids = {1, 2, 3, 4}
    Agent = 2
    Capacity = 1
    Depth = 2
    MaxForks = 2
    MaxExecs = 2
    MaxFaults = 1
SPECIFICATION FairSpec
INVARIANTS
    RecordedWasDescendant
    SteadyExecRecorded
PROPERTIES
    EventsAreTaken
CHECK_DEADLOCK FALSE
