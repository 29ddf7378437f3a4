\* Two different calls on one file, in flight together, no fault.
CONSTANTS
    LastCall = 2
    Calls <- SomeCalls
    Inputs <- OwnInputSet
    InputOf <- OwnInputs
    Paths = {"f"}
    PathsOf <- OneFile
    Contents = {"x", "y"}
    Declared <- SomeCalls
    Absent = Absent
    NoCall = NoCall
    Torn = Torn
    NoId = 0
    Window = 3
    Ttl = 40
    Durations = {1}
    MaxInFlight = 2
    MaxClock = 40
    MaxFaults = 0
SPECIFICATION Spec
INVARIANTS
    ContinuityAccepts
CHECK_DEADLOCK FALSE
