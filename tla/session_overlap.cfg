\* Two calls in flight at a time, each with its own input, any half failing.
CONSTANTS
    LastCall = 2
    Calls <- SomeCalls
    Inputs <- OwnInputSet
    InputOf <- OwnInputs
    Paths = {}
    PathsOf <- NoFile
    Declared = {}
    Contents = {"x"}
    Absent = Absent
    NoCall = NoCall
    Torn = Torn
    NoId = 0
    Window = 3
    Ttl = 2
    Durations = {1}
    MaxInFlight = 2
    MaxClock = 40
    MaxFaults = 2
SPECIFICATION Spec
INVARIANTS
    IntentEffectAccepts
    LinkIsOwn
    InFlightHasMarker
    
CHECK_DEADLOCK FALSE
