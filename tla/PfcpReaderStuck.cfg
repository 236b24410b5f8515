SPECIFICATION FairSpec
CONSTANTS
    upf = upf
    q1 = q1
    q2 = q2
    r1 = r1
    r2 = r2
    Peers = {upf}
    Local = smf
    None = nil
    Requests = {q1}
    Responses = {r1}
    Dest <- MCDest
    ReqSeq <- MCReqSeq
    RspSeq <- MCRspSeq
    NumOfResend = 3
    SeqLimit = 16
    Serialized = TRUE
PROPERTY ReaderReturns
CHECK_DEADLOCK FALSE
