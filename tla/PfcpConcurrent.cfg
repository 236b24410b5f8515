SPECIFICATION Spec
CONSTANTS
    upf = upf
    q1 = q1
    q2 = q2
    r1 = r1
    r2 = r2
    Peers = {upf}
    Local = smf
    None = nil
    Requests = {q1, q2}
    Responses = {r1, r2}
    Dest <- MCDest
    ReqSeq <- MCReqSeq
    RspSeq <- MCRspSeq
    NumOfResend = 3
    SeqLimit = 16
    Serialized = FALSE
SYMMETRY TxSymmetry
INVARIANT AtMostOneAnswer EventFitsTx
CHECK_DEADLOCK FALSE
