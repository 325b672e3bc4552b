CONSTANTS
    Capabilities = {c1}
    Expires <- MCExpires
    CounterMax = 2
    MaxChallenges = 3
    MaxTime = 2
    MaxFrames = 2
SPECIFICATION BarrierSpec
INVARIANT AckIsReturned
