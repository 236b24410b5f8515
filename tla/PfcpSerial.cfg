SPECIFICATION FairSpec
CONSTANTS
    upf = upf
    q1 = q1
    q2 = q2
    r1 = r1
    r2 = r2
    Peers = {upf}
    Local = smf
    None = nil
    Requests = {q1, q2}
    Responses = {r1, r2}
    Dest <- MCDest
    ReqSeq <- MCReqSeq
    RspSeq <- MCRspSeq
    NumOfResend = 2
    SeqLimit = 16
    Serialized = TRUE
INVARIANT TypeOK OwnsEntry  
PROPERTY LifecycleEnds ImplementsExchange
CHECK_DEADLOCK FALSE
