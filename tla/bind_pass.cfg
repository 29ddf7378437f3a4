\* Four records with every link, over three capture times, a hooked input and
\* the shim.
CONSTANTS
    NoId = 0
    Window = 1
    Timelines <- SmallTimelines
    Slots = {1, 2, 3, 4}
    LastTime = 3
    Inputs = {"ls"}
SPECIFICATION PassSpec
INVARIANTS
    LinksFormMatching
    RecordedLinkKept
    GapsTruthful
    RejectedOnlyForDoubleClose
CHECK_DEADLOCK FALSE
