CONSTANTS
    Envelopes <- MCEnvelopes
    Payload <- MCPayload
    NoParent = NoParent
    Free = Free
    Requests <- MCRequests
    Presentations <- MCPresentations
    TrustedIssuers <- MCTrustedIssuers
    Attenuates = {}
    MaxLifetime = 1
    Callers = {t1, t2}
    Persistent = TRUE
    MaxTime = 2
    MaxRestarts = 1
SYMMETRY Threads
SPECIFICATION ServiceSpec
INVARIANTS ChainAlwaysValid AcknowledgedSurvives DuplicateMeansDurable
