SPECIFICATION FairSpec
CONSTANTS
    u1 = u1
    u2 = u2
    h1 = h1
    h2 = h2
    h3 = h3
    Path = {u1}
    AN = u1
    Sbi = {h1, h2, h3}
    MaxSbi = 1
    Ops = {"DEACTIVATED", "SETUP_RSP", "PATH_SWITCH_REQ", "Pending", "ReleaseRequest",
           "DuplicateSessionId", "Release", "ReleaseComplete", "REL_RSP", "Other"}
    Early = FALSE
    Lossy = TRUE
INVARIANT TypeOK OwnStatus PendingReleaseDeleted NoStaleStatus NoCrash RemovedStaysInActive
PROPERTY ModifyAnswered
CHECK_DEADLOCK FALSE
