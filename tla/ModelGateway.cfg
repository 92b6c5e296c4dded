SPECIFICATION FairSpec
CONSTANTS
    Requests = {r1, r2, r3, r4}
    MaxConcurrency = 2
    MaxPending = 1
    Threshold = 2
INVARIANTS CountersAgree ProbeIsLive
PROPERTIES BreakerIsRetried EveryCallEnds
