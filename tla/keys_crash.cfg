\* One command at a time, one of them dying anywhere, in saveCatalog too.
CONSTANTS
    p1 = p1
    p2 = p2
    Procs = {p1}
    Commands = {"sign", "show", "seed", "rotate", "revoke"}
    None = None
    Torn = Torn
    Tearing = TRUE
    MaxKeys = 4
    MaxCrashes = 1
SPECIFICATION Spec
INVARIANTS
    SignatureMatchesKey
    SigningKeysCatalogued
    SigningKeysKept
PROPERTIES
    RevocationIsFinal
CHECK_DEADLOCK FALSE
