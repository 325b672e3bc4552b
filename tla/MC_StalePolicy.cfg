CONSTANTS
    Threads = {t1, t2}
    MaxSaves = 1
SPECIFICATION ReloadFairSpec
PROPERTY SavedPolicyTakesEffect
