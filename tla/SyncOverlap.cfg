SPECIFICATION SyncSpec
CONSTANTS
    NPhotos = 2
    NFolders = 1
    Tickers = {"t1", "t2"}
    AdminModes = {}
    MaxChanges = 2
    MaxSyncTrouble = 1
INVARIANTS
    OverlapIsHarmless
CHECK_DEADLOCK FALSE
