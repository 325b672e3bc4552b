CONSTANTS
    Capabilities = {c1, c2}
    Expires <- MCExpires
    CounterMax = 2
    MaxChallenges = 3
    MaxTime = 2
    MaxFrames = 1
SPECIFICATION BarrierSpec
SYMMETRY AnyCapability
INVARIANTS BarrierTypeOK CountCoversActs OneMovePerLiveCapability ConfirmedWasActed
PROPERTY ImplementsOneShot
