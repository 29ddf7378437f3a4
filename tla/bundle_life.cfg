\* Two packaging runs over one directory, two processes anchoring, forcing and
\* being refused, the key rotated; one death anywhere, even inside a write, or
\* one packaging run that overtakes an anchor.
CONSTANTS
    p1 = p1
    p2 = p2
    Procs = {p1, p2}
    Written <- ContentFiles
    Optional <- RawFiles
    Keys = {1, 2}
    TokenIds = {1, 2}
    Torn = Torn
    MayForce = TRUE
    Tearing = TRUE
    MaxSeals = 2
    MaxFaults = 1
SPECIFICATION FairSpec
INVARIANTS
    RestingBundleVerifies
    VerifiedMeansOneRun
PROPERTIES
    SealUntouched
    RetryDates
CHECK_DEADLOCK FALSE
