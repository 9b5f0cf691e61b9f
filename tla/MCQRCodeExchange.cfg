SPECIFICATION ExchangeSpec
CONSTANTS
    Product = {p1, p2}
    Secret = {s1, s2}
    MAX_QR_AGE = 2
    MaxSkew = 1
    MaxTime = 5
    MaxLabels = 2
INVARIANTS
    AcceptedWasIssued
    IssuedIsAccepted
PROPERTIES
    VerdictMovesForward
