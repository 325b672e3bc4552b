CONSTANTS
    Envelopes <- MCEnvelopes
    Payload <- MCPayload
    NoParent = NoParent
    Requests <- MCRequests
    Presentations <- MCPresentations
    TrustedIssuers <- MCTrustedIssuers
    Attenuates <- MCAttenuates
    MaxLifetime = 3
    Callers = {t1, t2}
    Persistent = TRUE
    MaxTime = 3
    MaxRestarts = 1
SPECIFICATION Spec
INVARIANT SingleUse
