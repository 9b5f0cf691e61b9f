SPECIFICATION DeploymentSpec
CONSTANTS
    Address = {dev, bob}
    Others = {bob}
    ProductId = {p1, p2}
    Name = {widget}
    MaxProducts = 3
    MaxTime = 1
    FaucetDefined = {TRUE, FALSE}
INVARIANTS
    KeyIsKept
PROPERTIES
    OwnerDecides
    LedgerSpec
    RedeployKeepsProducts
