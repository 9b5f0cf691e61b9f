\* Three keys, queues of two, five messages, two senders; the empty queues are
\* collected every second pop.
CONSTANTS
    k1 = k1
    k2 = k2
    k3 = k3
    Key = {k1, k2, k3}
    MaxQueueSize = 2
    POPS_PER_GC = 2
    MaxPushes = 5
    MaxSenders = 2
SYMMETRY Symmetry
SPECIFICATION Spec
INVARIANTS LineIsExact NoLostWakeup ServedInTurn EveryMessageAccounted StyleKeepsOrder WaitIsBounded
CHECK_DEADLOCK FALSE
