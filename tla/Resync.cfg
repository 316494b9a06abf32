SPECIFICATION Spec
CHECK_DEADLOCK FALSE
CONSTANTS
    MaxHead = 4
    MaxLosses = 2
    MaxErrors = 1
    LOSS_HEIGHT_MARGIN = 3
    LIVE_STREAM_LINES = 2
    FillLag = 1
    StartLag = 1
    Losses = {"discarded", "oversize", "apply_error", "cleared"}
    WatchReads = {"rmp"}
    FetchReads = {"rmp", "none"}
    tolerate_drift = FALSE
INVARIANT TypeOK
INVARIANT LossIsMarked
INVARIANT NothingCached
PROPERTY HeldThenReleased
PROPERTY MarkedThenHealed
