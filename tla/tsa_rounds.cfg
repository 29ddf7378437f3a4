\* Two endpoints, three attempts at each, two rounds over one of two documents.
CONSTANTS
    a1 = a1
    a2 = a2
    m1 = m1
    m2 = m2
    Authorities = {a1, a2}
    Attempts = 3
    Documents = {m1, m2}
    Nonces <- SomeNonces
    NoNonce = NoNonce
    NoToken = NoToken
    MaxRounds = 2
SPECIFICATION FairSpec
INVARIANTS
    KeptTokensHold
    HonestTokenKept
PROPERTIES
    RoundRefined
    RoundEnds
CHECK_DEADLOCK FALSE
