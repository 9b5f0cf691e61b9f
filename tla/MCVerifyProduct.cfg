SPECIFICATION ScanSpec
CONSTANTS
    Address = {alice}
    ProductId = {p1, p2}
    Name = {widget}
    MaxLength = 4
    Vectors <- MCVectors
CHECK_DEADLOCK FALSE
INVARIANTS
    PartialCorrectness
PROPERTIES
    Termination
