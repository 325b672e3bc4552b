CONSTANTS
    Envelopes <- MCEnvelopes
    Payload <- MCPayload
    NoParent = NoParent
    Requests <- MCRequests
    Presentations <- MCPresentations
    TrustedIssuers <- MCTrustedIssuers
    Attenuates = {}
    MaxLifetime = 3
    Callers = {t1, t2}
    Persistent = TRUE
    MaxTime = 2
    MaxRestarts = 1
    Obliged <- MCObliged
    Combinations <- MCCombinations
    Declared = {"succeeded", "malformed"}
SYMMETRY Threads
CONSTRAINT OneDisruption
SPECIFICATION GKSpec
INVARIANTS BarredNeverActuates OneActionPerLiveCapability ReceiptGapExplained OneReceiptPerCapability JournalHasReceipts
