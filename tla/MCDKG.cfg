SPECIFICATION Spec
CONSTANTS
    dkg = dkg
    jwk = jwk
    small = small
    large = large
    Topic = {dkg, jwk}
    Txn = {small, large}
    SizeInBytes <- Sizes
    MaxPuts = 3
    MaxClones = 2
    MaxItems = 2
    MaxBytes = 3
    me = me
    big = big
    odd = odd
    Validator = {me, big, odd}
    Power <- Powers
    Dealers <- DealerSets
    Correct = {me, big}
    Permits = 2
    MaxFailures = 2
    MaxEpoch = 3
    MaxCrashes = 1
INVARIANTS
    MapsAgree
    PullFillsTheQuota
    ReturnedAggregateIsWhole
    NobodyForgotten
    PoolIsCurrent
    ProducerHasOwner
PROPERTIES
    LeavesByOwnGuard
    Returns
    SessionMovesForward
    ReachesEpoch
    ResumesAfterRestart
CHECK_DEADLOCK FALSE
