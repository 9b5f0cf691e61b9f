CONSTANTS
    brief = brief
    lasting = lasting
    Address = {1, 2}
    Arrivals <- MCArrivals
    Parkable <- MCParkable
    Bytes <- MCBytes
    Expiration <- MCExpiration
    BucketMins <- MCBucketMins
    capacity = 3
    capacity_bytes = 4
    capacity_per_user = 2
    max_batch_bytes = 3
    system_transaction_timeout = 0
    eager_expire_threshold = 0
    eager_expire_time = 1
    MaxSeq = 1
    MaxTime = 1
    MaxTimeline = 2
SPECIFICATION Spec
INVARIANTS
    IndexesAgree
    InSequenceIsReady
    ParkingLotConsistent
    PullInSequence
    BroadcastSkipsNothing
