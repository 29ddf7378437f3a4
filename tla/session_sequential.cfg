\* One call at a time, each with its own input, any half failing.
CONSTANTS
    LastCall = 3
    Calls <- SomeCalls
    Inputs <- OwnInputSet
    InputOf <- OwnInputs
    Paths = {"f"}
    PathsOf <- OneFile
    Declared <- OddCalls
    Contents = {"x", "y"}
    Absent = Absent
    NoCall = NoCall
    Torn = Torn
    NoId = 0
    Window = 3
    Ttl = 4
    Durations = {1}
    MaxInFlight = 1
    MaxClock = 40
    MaxFaults = 1
SPECIFICATION Spec
INVARIANTS
    TypeOK
    ContinuityAccepts
    PairsAreOneCall
    LostOutcomeDisclosed
CHECK_DEADLOCK FALSE
