\* Two seals, two runs of disclose into either directory, one fault.
CONSTANTS
    d1 = d1
    d2 = d2
    Dirs = {d1, d2}
    Paths = {"/toolInput", "/output"}
    FieldsOf <- SomeFields
    Captured <- SomeCaptured
    Files = {"narrative.md", "notes.txt"}
    Pinned = {"narrative.md"}
    SealAt = {2, 3, 5, 7}
    Dated = {1}
    Selections <- SomeSelections
    None = None
    Spoilt = Spoilt
    MaxSeals = 2
    MaxDrawn = 3
    MaxBuilds = 2
    MaxFaults = 1
SYMMETRY TwoDirs
SPECIFICATION Spec
INVARIANTS
    ProofsExact
    DamageShows
    VerifiedShowsSealed
    FinishedVerifies
    NothingWithheldShown
    ConsistentMeansExtended
CHECK_DEADLOCK FALSE
